----------------------------- MODULE Conditions -----------------------------
(* What a conditional grant means, at the places that decide it: the write     *)
(* check of the server and of the mock server, the translation of a stored     *)
(* condition into a rule (resolveConditions, and the mock's copy of it), the   *)
(* check of one record with the ability's rules, the SQL that filters the list *)
(* of users by the same rules, and the script that looks for stored rows the   *)
(* SQL would drop.                                                             *)
(*                                                                             *)
(* granted is what one role holds for reading users.  Rows may be stored that  *)
(* no write check has seen.  A query maps fields to sets of tests; a test is an*)
(* operator with its operand.  Logical operators are not in the queries: how   *)
(* the library's matcher reads them is not in this repository.                 *)
EXTENDS Integers, FiniteSets, Sequences, SequencesExt, TLC

CONSTANTS
  None,            \* an absent branch
  NotObject,       \* a branch that is no JSON object
  Unparsable,      \* a custom text that is no JSON
  EmptyText,       \* the custom text ""
  Action,          \* the action the role's grants are for
  UserId,          \* who reads
  Records,         \* the users there are: [id, email]
  Ownerships, FieldMatches, UserAttrs, Customs,   \* the branches a condition may carry
  MaxGrants,       \* bound on the grants of the role
  MaxBranches      \* bound on the branches of its first grant; one less for each further one

\* The columns the list can filter by; a key that may not be one; a null; a nested object.
USER_FIELD_MAP == {"id", "email"}
BadKeys        == {"", "__proto__", "$where", "$or"}
UserContext    == ("id" :> UserId)
Null           == 0
Nested         == -1
Undefined      == -2

Comparisons == {"$eq", "$ne", "$gt"}
Lists       == {"$in", "$nin"}
Denied      == {"$where", "__proto__"}
Operators   == Comparisons \cup Lists

\* An operand is a scalar, a list, or an object.
Scalar(x) == [kind |-> "scalar", of |-> {x}]
ListOf(s) == [kind |-> "list", of |-> s]
Is(x)     == {<<"$eq", Scalar(x)>>}
OneOf(s)  == {<<"$in", ListOf(s)>>}

Conditions == [effect : {"allow", "deny"},
               ownership : Ownerships \cup {None}, fieldMatch : FieldMatches \cup {None},
               userAttr : UserAttrs \cup {None}, custom : Customs \cup {None}]

VARIABLE granted   \* the conditions of the role's grants, in the order they are read
------------------------------------------------------------------------------
\* The shapes the write check, the resolution and the editors share.

IsJsonScalar(x) == x # Nested

FindOwnershipShapeError(v) == v = NotObject \/ v \in BadKeys

FindFieldMatchShapeError(v) ==
  \/ v = NotObject
  \/ DOMAIN v = {}
  \/ \E k \in DOMAIN v : \/ k \in BadKeys
                         \/ v[k].kind # "list"
                         \/ v[k].of = {}
                         \/ \E x \in v[k].of : ~IsJsonScalar(x)

FindUserAttrShapeError(v) ==
  \/ v = NotObject
  \/ DOMAIN v = {}
  \/ \E k \in DOMAIN v : k \in BadKeys \/ v[k] \in BadKeys

FindIdentityBoundBranch(c) == c.ownership # None \/ c.userAttr # None
FindConditionActionError(c) == Action = "create" /\ FindIdentityBoundBranch(c)

\* The keys of a query: no operator outside the list, a list for a list operator.
ValidateMongoQueryKeys(q) ==
  \E k \in DOMAIN q :
    \/ k \in Denied
    \/ \E t \in q[k] : \/ t[1] \notin Operators
                       \/ t[1] \in Lists /\ (t[2].kind # "list" \/ Nested \in t[2].of)

IsQuery(custom) == custom \notin {Unparsable, EmptyText, NotObject}

BranchError(c) ==
  \/ c.ownership # None /\ FindOwnershipShapeError(c.ownership)
  \/ c.fieldMatch # None /\ FindFieldMatchShapeError(c.fieldMatch)
  \/ c.userAttr # None /\ FindUserAttrShapeError(c.userAttr)

\* IsSafeMongoQuery on the server; the mock takes an empty text for an absent one.
CustomError(custom)     == ~IsQuery(custom) \/ ValidateMongoQueryKeys(custom)
MockCustomError(custom) == custom # EmptyText /\ CustomError(custom)

Accepts(c) ==
  /\ ~BranchError(c)
  /\ c.custom # None => ~CustomError(c.custom)
  /\ ~FindConditionActionError(c)

MockAccepts(c) ==
  /\ ~BranchError(c)
  /\ c.custom # None => ~MockCustomError(c.custom)
  /\ ~FindConditionActionError(c)
------------------------------------------------------------------------------
\* A stored condition becomes a query, or vetoes its grant.

Branches(c) == {b \in {"ownership", "fieldMatch", "userAttr", "custom"} : c[b] # None}
OwnershipField(c) == IF c.ownership = None THEN {} ELSE {c.ownership}

\* A later branch would replace the owner's test.
Collides(c) ==
  \/ c.fieldMatch # None /\ OwnershipField(c) \cap DOMAIN c.fieldMatch # {}
  \/ c.userAttr # None /\ OwnershipField(c) \cap DOMAIN c.userAttr # {}
  \/ c.custom # None /\ OwnershipField(c) \cap DOMAIN c.custom # {}

UnknownAttribute(c) ==
  c.userAttr # None /\ \E k \in DOMAIN c.userAttr : c.userAttr[k] \notin DOMAIN UserContext

Blanket == [k \in {} |-> {}]   \* no test: every record

\* Merged in a fixed order: of two branches that write a key the later one wins.
Merged(c) ==
  LET Part(b, q) == IF c[b] = None THEN Blanket ELSE q
  IN  Part("custom", c.custom)
      @@ Part("userAttr", [k \in DOMAIN c.userAttr |-> Is(UserContext[c.userAttr[k]])])
      @@ Part("fieldMatch", [k \in DOMAIN c.fieldMatch |-> OneOf(c.fieldMatch[k].of)])
      @@ Part("ownership", (c.ownership :> Is(UserId)))

ResolveConditions(c) ==
  IF \/ BranchError(c)
     \/ c.custom # None /\ CustomError(c.custom)
     \/ UnknownAttribute(c) \/ Collides(c)
     \/ Branches(c) # {} /\ DOMAIN Merged(c) = {}
  THEN [skipPermission |-> TRUE, query |-> Blanket]
  ELSE [skipPermission |-> FALSE, query |-> Merged(c)]

\* CaslAbilityFactory: an unusable allow grants nothing, an unusable deny denies all.
Unconditional(rule) == DOMAIN rule.query = {}

Rules(c, resolved) ==
  IF resolved.skipPermission
  THEN IF c.effect = "deny" THEN {[inverted |-> TRUE, query |-> Blanket]} ELSE {}
  ELSE {[inverted |-> c.effect = "deny", query |-> resolved.query]}

\* The mock's copy, branch by branch: a veto skips the branches after it.
MockVeto(c) ==
  LET ownership  == c.ownership # None /\ FindOwnershipShapeError(c.ownership)
      fieldMatch == c.fieldMatch # None /\ (\/ FindFieldMatchShapeError(c.fieldMatch)
                                            \/ OwnershipField(c) \cap DOMAIN c.fieldMatch # {})
      userAttr   == c.userAttr # None /\ (\/ FindUserAttrShapeError(c.userAttr)
                                          \/ UnknownAttribute(c)
                                          \/ OwnershipField(c) \cap DOMAIN c.userAttr # {})
      custom     == c.custom # None /\ (\/ ~IsQuery(c.custom)
                                        \/ ValidateMongoQueryKeys(c.custom)
                                        \/ OwnershipField(c) \cap DOMAIN c.custom # {})
  IN  ownership \/ fieldMatch \/ userAttr \/ custom

PackedRules(c) ==
  CASE ~MockVeto(c) /\ Branches(c) = {} -> {[inverted |-> c.effect = "deny", query |-> Blanket]}
    [] ~MockVeto(c) /\ DOMAIN Merged(c) # {} -> {[inverted |-> c.effect = "deny", query |-> Merged(c)]}
    [] OTHER -> IF c.effect = "deny" THEN {[inverted |-> TRUE, query |-> Blanket]} ELSE {}

\* Every allow is registered before every deny.
Ordered(conditions) ==
  SelectSeq(conditions, LAMBDA c : c.effect # "deny")
  \o SelectSeq(conditions, LAMBDA c : c.effect = "deny")

Ability(conditions) ==
  FlattenSeq([i \in DOMAIN conditions |->
                SetToSeq(Rules(Ordered(conditions)[i], ResolveConditions(Ordered(conditions)[i])))])
------------------------------------------------------------------------------
\* One record against the rules (the library's matcher): the last matching rule decides.

ValueOf(record, k) == IF k \in USER_FIELD_MAP THEN record[k] ELSE Undefined

Holds(v, t) ==
  LET among == v \in t[2].of
  IN  CASE t[1] = "$eq" -> t[2].kind = "scalar" /\ among
        [] t[1] = "$ne" -> ~(t[2].kind = "scalar" /\ among)
        [] t[1] = "$gt" -> \A x \in t[2].of : v > x
        [] t[1] = "$in" -> among
        [] OTHER        -> ~among

Matches(record, query) == \A k \in DOMAIN query : \A t \in query[k] : Holds(ValueOf(record, k), t)

Can(rules, record) ==
  LET matching == {i \in DOMAIN rules : Matches(record, rules[i].query)}
  IN  \E i \in matching : ~rules[i].inverted /\ \A j \in matching : j > i => ~rules[j].inverted
------------------------------------------------------------------------------
\* The list: SQL with its three values, of a query that can be translated as a whole.

Untranslatable(t) ==
  \/ t[1] \notin Operators
  \/ t[1] \in Comparisons /\ t[2].kind # "scalar"
  \/ t[1] \in Lists /\ (t[2].kind # "list" \/ t[2].of = {} \/ Nested \in t[2].of)

Skipped(query) ==
  \E k \in DOMAIN query : k \notin USER_FIELD_MAP \/ query[k] = {} \/ \E t \in query[k] : Untranslatable(t)

\* PostgreSQL: nothing equals NULL, and nothing differs from it.
TranslateField(v, t) ==
  LET among == v \in t[2].of \ {Null}
      doubt == Null \in t[2].of
  IN  CASE t[1] \in {"$eq", "$in"}  -> IF among THEN "true" ELSE IF doubt THEN "null" ELSE "false"
        [] t[1] \in {"$ne", "$nin"} -> IF among THEN "false" ELSE IF doubt THEN "null" ELSE "true"
        [] OTHER -> IF \A x \in t[2].of : v > x THEN "true" ELSE "false"

And(values) == IF "false" \in values THEN "false" ELSE IF "null" \in values THEN "null" ELSE "true"
Or(values)  == IF "true" \in values THEN "true" ELSE IF "null" \in values THEN "null" ELSE "false"

Translate(record, query) ==
  And({And({TranslateField(record[k], t) : t \in query[k]}) : k \in DOMAIN query})

\* "always": one rule has no conditions; "skipped": one could not be translated.
TranslateRuleSet(record, rules) ==
  [always  |-> \E r \in rules : Unconditional(r),
   skipped |-> (\A r \in rules : ~Unconditional(r)) /\ \E r \in rules : Skipped(r.query),
   sql     |-> Or({Translate(record, r.query) : r \in {s \in rules : ~Unconditional(s) /\ ~Skipped(s.query)}})]

\* A bug: a deny that cannot be translated is left out of the query.
ApplyWithoutSkipped(rules, record) ==
  LET allow == TranslateRuleSet(record, {r \in Range(rules) : ~r.inverted})
      deny  == TranslateRuleSet(record, {r \in Range(rules) : r.inverted})
  IN  /\ \E r \in Range(rules) : ~r.inverted
      /\ ~deny.always
      /\ allow.always \/ allow.sql = "true"
      /\ deny.sql = "false"

ApplyAbilityToUserQuery(rules, record) ==
  LET allow == TranslateRuleSet(record, {r \in Range(rules) : ~r.inverted})
      deny  == TranslateRuleSet(record, {r \in Range(rules) : r.inverted})
  IN  /\ \E r \in Range(rules) : ~r.inverted
      /\ ~deny.always /\ ~deny.skipped
      /\ allow.always \/ allow.sql = "true"
      /\ deny.sql = "false"

\* The script that looks for custom conditions the list would drop.
CheckConditionsNode(query) ==
  \A k \in DOMAIN query :
    /\ k \in USER_FIELD_MAP
    /\ \A t \in query[k] : \/ t[1] \in Comparisons /\ t[2].kind = "scalar"
                           \/ t[1] \in Lists /\ t[2].kind = "list" /\ Nested \notin t[2].of

Flagged(c) ==
  c.custom \notin {None, EmptyText} /\
  (c.custom = Unparsable \/ c.custom = NotObject \/ ~CheckConditionsNode(c.custom))
------------------------------------------------------------------------------
\* A grant written through the API is checked; one that was stored before is not.
GrantInit == granted = <<>>

Fits(c) == Cardinality(Branches(c)) + Len(granted) <= MaxBranches

Assign(c) ==
  /\ Fits(c)
  /\ Accepts(c)
  /\ granted' = Append(granted, c)

Inherit(c) ==
  /\ Fits(c)
  /\ ~Accepts(c)
  /\ granted' = Append(granted, c)

Revoke == granted # <<>> /\ granted' = Tail(granted)

GrantNext ==
  \/ Len(granted) < MaxGrants /\ \E c \in Conditions : Assign(c) \/ Inherit(c)
  \/ Revoke

GrantSpec == GrantInit /\ [][GrantNext]_granted
------------------------------------------------------------------------------
(* The list of users never shows a record that the check of that one record   *)
(* would refuse, whatever is stored (applyAbilityToUserQuery beside can()).    *)
ListWithinCheck ==
  \A u \in Records :
    ApplyAbilityToUserQuery(Ability(granted), u) => Can(Ability(granted), u)

(* A grant that is scoped to its owner never reaches another user's record,    *)
(* whichever other branches it carries (the ownership key is protected).       *)
OwnersOnly ==
  (\A i \in DOMAIN granted : granted[i].effect = "deny" \/ granted[i].ownership = "id")
  => \A u \in Records : Can(Ability(granted), u) => u.id = UserId

(* What a deny says is withheld, in the check and in the list, wherever it     *)
(* stands among the grants; a deny that cannot be read withholds everything.   *)
DenyWithholds ==
  \A i \in DOMAIN granted : granted[i].effect = "deny" =>
    \A u \in Records :
      LET resolved == ResolveConditions(granted[i])
      IN  resolved.skipPermission \/ Matches(u, resolved.query)
          => ~Can(Ability(granted), u) /\ ~ApplyAbilityToUserQuery(Ability(granted), u)

(* The copies agree with the server: the mock takes every condition the server *)
(* takes and packs for the client the rules the server would (state.ts), and   *)
(* the script flags no custom condition that the server reads and its list     *)
(* honours.                                                                    *)
MirrorsAgree ==
  \A i \in DOMAIN granted :
    LET resolved == ResolveConditions(granted[i])
    IN  /\ Accepts(granted[i]) => MockAccepts(granted[i])
        /\ PackedRules(granted[i]) = Rules(granted[i], resolved)
        /\ Flagged(granted[i]) => resolved.skipPermission \/ Skipped(resolved.query)

=============================================================================
