----------------------------- MODULE FlagRules ------------------------------
(***************************************************************************)
(* The rules of a feature flag: how they are evaluated and previewed,      *)
(* which payloads the server and its mock accept, and the row of the       *)
(* dialog that edits one, step by step.                                    *)
(*                                                                         *)
(* A value is a scalar or an array of scalars, and a scalar a pair of its  *)
(* JSON type and its text; a text stands for itself, "" for the empty one  *)
(* and "long" for one over the cap of 200 characters.  A text that ends    *)
(* with another, and one that parses as a date, are given by tables.       *)
(***************************************************************************)
EXTENDS Integers, Sequences, FiniteSets, TLC

CONSTANTS
    Texts,          \* what is typed into a value
    Stamps,         \* the texts and numbers toTimestamp parses, with the time
    Suffixes,       \* pairs: a text and another it ends with
    Buckets,        \* percentageBucket of each identity under the flag's key
    KnownKeys,      \* keys of the attribute registry other than built-in ones
    MockKeys,       \* KNOWN_CUSTOM_KEYS of the mock
    MaxItems,       \* ATTRIBUTE_VALUE_MAX_ITEMS (100 in the code)
    Stored,         \* payloads the row may be opened with
    Beside,         \* the other rules of the flag
    Callers,        \* who asks for the flags
    Domains,        \* the domain of each email that has one
    Actuals,        \* attribute values of a context
    MaxSteps        \* bound: edits

VARIABLES
    rule,           \* FeatureFlagRuleDraft
    steps           \* edits so far

rowVars == <<rule, steps>>

Scalar(type, text) == [kind |-> "scalar", items |-> << <<type, text>> >>]
Str(text) == Scalar("string", text)
ArrayOf(items) == [kind |-> "array", items |-> items]
IsString(value) == value.kind = "scalar" /\ value.items[1][1] = "string"
TextOf(value) == value.items[1][2]

----------------------------------------------------------------------------
(* What evaluation makes of a payload. *)

(* A number that cannot be a time, and everything else, is no time.        *)
HasTime(value) == value.kind \in {"scalar", "date"} /\ value.items[1] \in DOMAIN Stamps
TimeOf(value) == Stamps[value.items[1]]

Compare(actual, op, expected) ==
    /\ HasTime(actual) /\ HasTime(expected)
    /\ IF op = "before" THEN TimeOf(actual) < TimeOf(expected)
                        ELSE TimeOf(actual) > TimeOf(expected)

EndsWith(text, end) == end \in {"", text} \/ <<text, end>> \in Suffixes

MatchesOp(actual, op, expected) ==
    CASE op = "eq" -> actual.kind = "scalar" /\ actual = expected
      [] op = "in" -> /\ expected.kind = "array" /\ actual.kind = "scalar"
                      /\ \E i \in DOMAIN expected.items : actual.items[1] = expected.items[i]
      [] op = "endsWith" -> /\ IsString(actual) /\ IsString(expected)
                            /\ EndsWith(TextOf(actual), TextOf(expected))
      [] OTHER -> Compare(actual, op, expected)

FieldKey(payload) == IF payload.field = "custom" THEN payload.customKey ELSE payload.field

Identity(ctx) == IF ctx.userId # "none" THEN ctx.userId ELSE ctx.anonId

MatchesRule(payload, ctx) ==
    CASE payload.type = "user" -> ctx.userId # "none" /\ ctx.userId \in payload.userIds
      [] payload.type = "role" -> ctx.roles \cap payload.roleNames # {}
      [] payload.type = "percentage" ->
            Identity(ctx) # "none" /\ Buckets[Identity(ctx)] < payload.percent
      [] OTHER -> /\ FieldKey(payload) \in DOMAIN ctx.attributes
                  /\ MatchesOp(ctx.attributes[FieldKey(payload)], payload.op, payload.value)

InEnvironment(flag, ctx) == flag.environments = {} \/ ctx.env \in flag.environments

evaluateFeatureFlag(flag, rules, ctx) ==
    LET of(effect) == {i \in DOMAIN rules : rules[i].effect = effect}
        matches(i) == MatchesRule(rules[i].payload, ctx)
    IN /\ flag.enabled /\ InEnvironment(flag, ctx)
       /\ ~\E i \in of("exclude") : matches(i)
       /\ of("include") = {} \/ \E i \in of("include") : matches(i)

(* Index 0: no rule matched.                                               *)
Preview(flag, rules, ctx) ==
    LET first(effect) ==
            LET hits == {i \in DOMAIN rules :
                            rules[i].effect = effect /\ MatchesRule(rules[i].payload, ctx)}
            IN IF hits = {} THEN 0 ELSE CHOOSE i \in hits : \A j \in hits : i <= j
        answer(result, reason, index) == [result |-> result, reason |-> reason, index |-> index]
    IN  IF ~flag.enabled THEN answer(FALSE, "disabled", 0)
        ELSE IF ~InEnvironment(flag, ctx) THEN answer(FALSE, "env-mismatch", 0)
        ELSE IF first("exclude") # 0 THEN answer(FALSE, "excluded", first("exclude"))
        ELSE IF \A i \in DOMAIN rules : rules[i].effect # "include"
          THEN answer(TRUE, "no-rules-default-on", 0)
        ELSE IF first("include") # 0 THEN answer(TRUE, "included-by-rule", first("include"))
        ELSE answer(FALSE, "excluded", 0)

----------------------------------------------------------------------------
(* Who asks: a caller is a user or a visitor with a cookie, and the server *)
(* resolves the attributes of its context.                                 *)

Yes == Scalar("true", "true")
Date(stamp) == [kind |-> "date", items |-> << <<"date", stamp>> >>]

(* AttributeRegistryService.resolveAll: a user without a value for an      *)
(* attribute, and a visitor, have no such attribute.                       *)
Resolved(caller, keys, created) ==
    [k \in keys |-> Yes] @@
    (IF caller.userId = "none" THEN [k \in {} |-> Yes]
     ELSE "email" :> Str(caller.email) @@ "createdAt" :> created
          @@ (IF caller.email \in DOMAIN Domains
                THEN "emailDomain" :> Str(Domains[caller.email]) ELSE [k \in {} |-> Yes]))

ServerContext(caller) ==
    [userId |-> caller.userId, roles |-> caller.roles, env |-> caller.env,
     anonId |-> IF caller.userId = "none" THEN caller.anonId ELSE "none",
     attributes |-> Resolved(caller, KnownKeys, Date(caller.created))]

(* The mock keeps createdAt as the text of the date, and the cookie of a   *)
(* signed-in user.                                                         *)
MockContext(caller) ==
    [userId |-> caller.userId, roles |-> caller.roles, env |-> caller.env,
     anonId |-> caller.anonId, attributes |-> Resolved(caller, MockKeys, Str(caller.created))]

(* What the answer says of the flag: visitors are told of public flags,    *)
(* and users of every flag but one that is off and not public.             *)
Told(flag, rules, ctx, publicOnly) ==
    LET on == evaluateFeatureFlag(flag, rules, ctx) IN
    IF publicOnly /\ ~flag.public THEN "omitted"
    ELSE IF ~publicOnly /\ ~on /\ ~flag.public THEN "omitted"
    ELSE IF on THEN "on" ELSE "off"

(* evaluateAll of the mock. *)
MockTold(flag, rules, ctx, publicOnly) ==
    CASE ~flag.public /\ (publicOnly \/ ~evaluateFeatureFlag(flag, rules, ctx)) -> "omitted"
      [] OTHER -> IF evaluateFeatureFlag(flag, rules, ctx) THEN "on" ELSE "off"

----------------------------------------------------------------------------
(* What the server accepts. *)

Fits(item) == item[2] # "long"

\* Mutant: before and after take any text.
AnyDate(op, value) ==
    CASE op = "eq" -> value.kind = "scalar" /\ Fits(value.items[1])
      [] op = "in" -> value.kind = "array" /\ Len(value.items) \in 1..MaxItems
      [] op = "endsWith" -> IsString(value) /\ TextOf(value) \notin {"", "long"}
      [] OTHER -> value.kind = "scalar" /\ value.items[1][1] \in {"string", "number"}
ValueFits(op, value) ==
    CASE op = "eq" -> value.kind = "scalar" /\ Fits(value.items[1])
      [] op = "in" -> /\ value.kind = "array" /\ Len(value.items) \in 1..MaxItems
                      /\ \A i \in DOMAIN value.items : Fits(value.items[i])
      [] op = "endsWith" -> IsString(value) /\ TextOf(value) \notin {"", "long"}
      [] OTHER -> /\ value.kind = "scalar" /\ value.items[1][1] \in {"string", "number"}
                  /\ Fits(value.items[1]) /\ HasTime(value)

(* Of a payload of the right shape; ids and role names are any strings.    *)
Accepted(r) ==
    LET p == r.payload IN
    /\ p.type = r.type
    /\ p.type = "percentage" => p.percent \in 0..100
    /\ p.type = "attribute" =>
          /\ p.field = "custom" => p.customKey \in KnownKeys
          /\ ValueFits(p.op, p.value)

(* validateRules of the mock, one rule. *)
MockAccepted(r) ==
    LET p == r.payload IN
    /\ p.type = r.type
    /\ CASE p.type = "percentage" -> p.percent >= 0 /\ p.percent <= 100
         [] p.type = "attribute" -> /\ p.field # "custom" \/ p.customKey \in MockKeys
                                    /\ ValueFits(p.op, p.value)
         [] OTHER -> TRUE

----------------------------------------------------------------------------
(* The row of the dialog.  customKey is "" when the payload has none: the  *)
(* key cannot be told apart from an empty one.                             *)

Types == {"user", "role", "percentage", "attribute"}
Fields == {"email", "emailDomain", "createdAt", "custom"}
Ops == {"eq", "in", "endsWith", "before", "after"}

DefaultPayload(type) ==
    CASE type = "user" -> [type |-> "user", userIds |-> {}]
      [] type = "role" -> [type |-> "role", roleNames |-> {}]
      [] type = "percentage" -> [type |-> "percentage", percent |-> 0]
      [] OTHER -> [type |-> "attribute", field |-> "email", op |-> "eq",
                   value |-> Str(""), customKey |-> ""]

Draft(effect, payload) == [type |-> payload.type, effect |-> effect, payload |-> payload]

RowInit ==
    /\ steps = 0
    /\ \E effect \in {"include", "exclude"} :
          \/ \E p \in Stored : rule = Draft(effect, p)
          \/ effect = "include" /\ rule = Draft(effect, DefaultPayload("percentage"))

Edited(r) == steps < MaxSteps /\ steps' = steps + 1 /\ rule' = r
SetPayload(p) == Edited([rule EXCEPT !.payload = p])

onTypeChange ==
    \E type \in Types :
       Edited([rule EXCEPT !.type = type, !.payload = DefaultPayload(type)])

onEffectChange ==
    \E effect \in {"include", "exclude"} : Edited([rule EXCEPT !.effect = effect])

(* The controls of a type are shown only for that type.                    *)
onUserChipsChange ==
    /\ rule.type = "user"
    /\ \E ids \in SUBSET {"u1", "u2"} : SetPayload([type |-> "user", userIds |-> ids])

onRoleChipsChange ==
    /\ rule.type = "role"
    /\ \E names \in SUBSET {"admin"} : SetPayload([type |-> "role", roleNames |-> names])

Snapped(n) == ((n + 2) \div 5) * 5
Clamped(n) == IF n < 0 THEN 0 ELSE IF n > 100 THEN 100 ELSE n

onPercentChange ==
    /\ rule.type = "percentage"
    /\ \E n \in {0, 3, 99, 100} :
          SetPayload([type |-> "percentage", percent |-> Clamped(Snapped(n))])

(* The operator and the value stay; the custom key does for custom only.   *)
onAttributeFieldChange ==
    /\ rule.type = "attribute"
    /\ \E field \in Fields :
          SetPayload([rule.payload EXCEPT !.field = field,
                        !.customKey = IF field = "custom" THEN @ ELSE ""])

(* The value under another operator: a text becomes the first chip of an   *)
(* array, and the first chip of an array the text.                         *)
ValueUnder(op, p) ==
    IF op = "in"
      THEN IF p.value.kind = "array" THEN p.value
           ELSE IF IsString(p.value) /\ TextOf(p.value) \notin {"", " "}
             THEN ArrayOf(p.value.items)
           ELSE ArrayOf(<<>>)
    ELSE IF p.op = "in"
      THEN IF p.value.kind = "array" /\ p.value.items # <<>>
             THEN Str(TextOf(p.value)) ELSE Str("")
    ELSE p.value

onAttributeOpChange ==
    /\ rule.type = "attribute"
    /\ \E op \in Ops :
          SetPayload([rule.payload EXCEPT !.op = op, !.value = ValueUnder(op, rule.payload)])

IsDateOp(p) == p.op \in {"before", "after"}

onAttributeValueChange ==
    /\ rule.type = "attribute" /\ rule.payload.op \in {"eq", "endsWith"}
    /\ \E text \in Texts : SetPayload([rule.payload EXCEPT !.value = Str(text)])

(* The picker gives a day, or nothing. *)
onAttributeDateChange ==
    /\ rule.type = "attribute" /\ IsDateOp(rule.payload)
    /\ \E text \in {""} \cup {t \in Texts : <<"string", t>> \in DOMAIN Stamps} :
          SetPayload([rule.payload EXCEPT !.value = Str(text)])

(* attrValueChips: the non-empty strings of the array. *)
Chips(p) == SelectSeq(p.value.items, LAMBDA i : i[1] = "string" /\ i[2] # "")

(* A chip is added to those shown, or one is removed. *)
onAttributeChipsChange ==
    /\ rule.type = "attribute" /\ rule.payload.op = "in"
    /\ \/ /\ Len(Chips(rule.payload)) <= MaxItems
          /\ \E text \in Texts \ {"", " "} :
                SetPayload([rule.payload EXCEPT
                   !.value = ArrayOf(Append(Chips(rule.payload), <<"string", text>>))])
       \/ /\ Chips(rule.payload) # <<>>
          /\ SetPayload([rule.payload EXCEPT !.value = ArrayOf(Tail(Chips(rule.payload)))])

onAttributeCustomKeyChange ==
    /\ rule.type = "attribute" /\ rule.payload.field = "custom"
    /\ \E key \in KnownKeys \cup {"unknown"} : SetPayload([rule.payload EXCEPT !.customKey = key])

RowNext ==
    \/ onTypeChange \/ onEffectChange \/ onUserChipsChange \/ onRoleChipsChange
    \/ onPercentChange \/ onAttributeFieldChange \/ onAttributeOpChange
    \/ onAttributeValueChange \/ onAttributeDateChange \/ onAttributeChipsChange
    \/ onAttributeCustomKeyChange

RowSpec == RowInit /\ [][RowNext]_rowVars

----------------------------------------------------------------------------
(* The preview explains the evaluator to the administrator: for the edited *)
(* rule among others and every caller, it gives the evaluator's answer,   *)
(* and names a rule that matches.                                          *)
(* [feature-flag-evaluator.ts:31-53, 136-178]                              *)
PreviewExplains ==
  \A other \in Beside, caller \in Callers, environments \in SUBSET {"production"} :
     LET rules == <<rule, other>>
         ctx == ServerContext(caller)
         flag == [enabled |-> TRUE, environments |-> environments]
         p == Preview(flag, rules, ctx)
     IN /\ p.result = evaluateFeatureFlag(flag, rules, ctx)
        /\ p.index # 0 => /\ MatchesRule(rules[p.index].payload, ctx)
                          /\ p.result = (rules[p.index].effect = "include")

(* "payload validation accepts exactly the shapes evaluation can compare": *)
(* of two operands of which one is accepted, the operator can hold, and    *)
(* under before and after nothing else can.                                *)
(* [feature-flag-evaluator.ts:115-118]                                     *)
AcceptedIsComparable ==
  rule.type = "attribute" =>
    LET p == rule.payload
        comparable == \E actual \in Actuals : MatchesOp(actual, p.op, p.value)
    IN /\ ValueFits(p.op, p.value) => comparable
       /\ (IsDateOp(p) /\ comparable) => ValueFits(p.op, p.value)

(* What the row shows: a value in the control of the operator.             *)
ShowsValue(p) ==
    CASE p.op = "in" -> Chips(p) # <<>>
      [] IsDateOp(p) -> IsString(p.value) /\ HasTime(p.value)
      [] OTHER -> p.value.kind = "scalar" /\ TextOf(p.value) # ""
OnlyStrings(p) == \A i \in DOMAIN p.value.items : p.value.items[i][1] = "string"
Within(p) == Len(p.value.items) <= MaxItems /\ \A i \in DOMAIN p.value.items : Fits(p.value.items[i])

(* Whatever the order of the edits, a rule made of texts of the allowed    *)
(* size whose row shows a value is one the server accepts: no stale value  *)
(* stays behind the control that is shown.  A rejected rule is only told   *)
(* after the dialog has closed and the flag has been saved.                *)
(* [feature-flag-rule-row.component.ts:374-447]                            *)
ShownIsAccepted ==
  /\ rule.payload.type = rule.type
  /\ (/\ rule.type = "attribute" /\ OnlyStrings(rule.payload) /\ Within(rule.payload)
      /\ ShowsValue(rule.payload)
      /\ rule.payload.field = "custom" => rule.payload.customKey \in KnownKeys)
        => Accepted(rule)

(* The mock refuses the rules the server refuses, and tells every caller   *)
(* of a flag what the server tells, but for a rule that compares createdAt *)
(* as a text. [mock feature-flags.middleware.ts:236-252, 450-508]          *)
ComparesDateAsText ==
    /\ rule.type = "attribute"
    /\ rule.payload.field = "createdAt" /\ ~IsDateOp(rule.payload)
MockRulesAgree ==
  /\ MockAccepted(rule) = Accepted(rule)
  /\ ~ComparesDateAsText =>
       \A other \in Beside, caller \in Callers, public \in BOOLEAN :
          LET flag == [enabled |-> TRUE, environments |-> {}, public |-> public]
              visitor == caller.userId = "none"
          IN MockTold(flag, <<rule, other>>, MockContext(caller), visitor)
                = Told(flag, <<rule, other>>, ServerContext(caller), visitor)
=============================================================================
