-------------------------- MODULE ConditionBuilder --------------------------
(* The visual builder of a custom condition: a tree of groups and rules, the   *)
(* JSON text it stands for, and the switch between the two.                    *)
(*                                                                             *)
(* A JSON value is [type, text]: its JavaScript type and, as a sequence of     *)
(* items, the text it prints as; a text that is one number reads back as one.  *)
(* A JSON object maps its fields to values, or holds one group of objects.     *)
EXTENDS Naturals, Sequences, SequencesExt, FiniteSets

CONSTANTS
  Loaded,        \* the texts the builder may be opened with
  Fields,        \* field names a rule may be given
  Items,         \* items a value may be typed with
  Numerals,      \* those that read as a number
  Typed,         \* the texts that may be typed in raw mode
  MaxChildren,   \* bound on the children of a group
  MaxEdits       \* bound on edits

\* Texts: empty, no JSON, or an object.  An operand: bare, under one operator, or "many".
Empty  == [kind |-> "empty"]
NoJson == [kind |-> "noJson"]
Text(o) == [kind |-> "object", object |-> o]

Value(type, text) == [type |-> type, text |-> text]
Bare(v)           == [op |-> "$eq", bare |-> TRUE, values |-> <<v>>]
Under(op, vs)     == [op |-> op, bare |-> FALSE, values |-> vs]
Many              == [op |-> "many", bare |-> FALSE, values |-> <<>>]

Flat(fields)        == [logic |-> "", fields |-> fields, members |-> <<>>]
Group(logic, objs)  == [logic |-> logic, fields |-> [f \in {} |-> Many], members |-> objs]
Mixed(logic, objs, fields) == [logic |-> logic, fields |-> fields, members |-> objs]

CONDITION_OPERATORS == {"$eq", "$ne", "$in"}

VARIABLES
  value,        \* the text the parent holds
  opened,       \* the text it held when the builder was created
  view,         \* "visual" or "raw"
  rootGroup, rawText, parseError,
  edits

vars == <<value, opened, view, rootGroup, rawText, parseError, edits>>
------------------------------------------------------------------------------
CreateRule         == [type |-> "rule", field |-> "", op |-> "$eq", value |-> <<>>]
CreateGroup(l, ch) == [type |-> "group", logic |-> l, children |-> ch]
EmptyGroup         == CreateGroup("$and", <<>>)

ParseValue(text) ==
  Value(IF Len(text) = 1 /\ text[1] \in Numerals THEN "number" ELSE "string", text)
ParseArrayValue(text) == [i \in DOMAIN text |-> ParseValue(<<text[i]>>)]

RuleToValue(rule) ==
  CASE rule.op = "$eq" -> Bare(ParseValue(rule.value))
    [] rule.op = "$in" -> Under("$in", ParseArrayValue(rule.value))
    [] OTHER           -> Under(rule.op, <<ParseValue(rule.value)>>)

\* A bug: rules on the same field are put into one object.
RECURSIVE ModelToJsonMerged(_)
ModelToJsonMerged(group) ==
  LET children == group.children
      fields   == [i \in DOMAIN children |-> children[i].field]
      NodeToJson(node) ==
        IF node.type = "group" THEN ModelToJsonMerged(node)
        ELSE Flat([f \in {node.field} |-> RuleToValue(node)])
  IN  IF group.logic = "$and" /\ \A i \in DOMAIN children : children[i].type = "rule"
      THEN Flat([f \in ToSet(fields) |->
                   RuleToValue(children[CHOOSE i \in DOMAIN children : fields[i] = f])])
      ELSE IF children = <<>> THEN Flat([f \in {} |-> Many])
      ELSE Group(group.logic, [i \in DOMAIN children |-> NodeToJson(children[i])])

\* A plain conjunction of rules on different fields is one object; else a list of members.
RECURSIVE ModelToJson(_)
ModelToJson(group) ==
  LET children == group.children
      fields   == [i \in DOMAIN children |-> children[i].field]
      plain    == group.logic = "$and" /\ \A i \in DOMAIN children : children[i].type = "rule"
      NodeToJson(node) ==
        IF node.type = "group" THEN ModelToJson(node)
        ELSE Flat([f \in {node.field} |-> RuleToValue(node)])
  IN  CASE children = <<>> -> Flat([f \in {} |-> Many])
        [] plain /\ IsInjective(fields) ->
             Flat([f \in ToSet(fields) |->
                     RuleToValue(children[CHOOSE i \in DOMAIN children : fields[i] = f])])
        [] OTHER -> Group(group.logic, [i \in DOMAIN children |-> NodeToJson(children[i])])

\* jsonToModel gives up on what the tree has no place for.
ParsableField(v) == v.op \in CONDITION_OPERATORS /\ \A i \in DOMAIN v.values : v.values[i].type # "object"

RECURSIVE Representable(_)
Representable(object) ==
  IF object.logic = "" THEN \A f \in DOMAIN object.fields : ParsableField(object.fields[f])
  ELSE DOMAIN object.fields = {} /\ \A i \in DOMAIN object.members : Representable(object.members[i])

ParseFieldNode(f, v) ==
  [type |-> "rule", field |-> f, op |-> v.op,
   value |-> FlattenSeq([i \in DOMAIN v.values |-> v.values[i].text])]

RECURSIVE ParseGroup(_)
ParseGroup(object) ==
  LET FieldNodes(o) == [i \in DOMAIN SetToSeq(DOMAIN o.fields) |->
                          ParseFieldNode(SetToSeq(DOMAIN o.fields)[i],
                                         o.fields[SetToSeq(DOMAIN o.fields)[i]])]
      ParseNode(o)  == IF o.logic # "" THEN ParseGroup(o)
                       ELSE IF Cardinality(DOMAIN o.fields) = 1 THEN FieldNodes(o)[1]
                       ELSE CreateGroup("$and", FieldNodes(o))
  IN  IF object.logic # ""
      THEN CreateGroup(object.logic, [i \in DOMAIN object.members |-> ParseNode(object.members[i])])
      ELSE CreateGroup("$and", FieldNodes(object))

TextOf(group) == IF ModelToJson(group) = Flat([f \in {} |-> Many]) THEN Empty ELSE Text(ModelToJson(group))
------------------------------------------------------------------------------
\* A text read into the builder: the tree, or raw mode when there is none.
Readable(text) == text.kind = "object" /\ Representable(text.object)
Tree(text)     == IF text = Empty THEN EmptyGroup ELSE ParseGroup(text.object)

LoadFrom(text) ==
  /\ view = IF text = Empty \/ Readable(text) THEN "visual" ELSE "raw"
  /\ rootGroup = IF text = Empty \/ Readable(text) THEN Tree(text) ELSE EmptyGroup
  /\ rawText = text

BuilderInit ==
  /\ opened \in Loaded /\ value = opened
  /\ LoadFrom(opened)
  /\ parseError = FALSE /\ edits = 0

SetMode ==
  /\ IF view = "visual"
     THEN /\ view' = "raw" /\ rawText' = TextOf(rootGroup)
          /\ UNCHANGED <<rootGroup, parseError>>
     ELSE IF rawText = Empty \/ Readable(rawText)
     THEN /\ rootGroup' = Tree(rawText)
          /\ view' = "visual" /\ parseError' = FALSE
          /\ UNCHANGED rawText
     ELSE parseError' = TRUE /\ UNCHANGED <<view, rootGroup, rawText>>
  /\ UNCHANGED <<value, opened, edits>>

Edit == edits < MaxEdits /\ edits' = edits + 1

\* Typing keeps the text; leaving the box emits it if it parses.
OnRawInput(text) ==
  /\ Edit
  /\ view = "raw" /\ rawText' = text
  /\ parseError' = FALSE
  /\ UNCHANGED <<value, opened, view, rootGroup>>

ApplyRaw ==
  /\ view = "raw" /\ rawText # value
  /\ value' = IF rawText = NoJson THEN value ELSE rawText
  /\ UNCHANGED <<opened, view, rootGroup, rawText, parseError, edits>>

\* An edit of the tree, at the root or in one of its groups, is emitted at once.
Paths      == {<<>>} \cup {<<i>> : i \in {j \in DOMAIN rootGroup.children : rootGroup.children[j].type = "group"}}
At(path)   == IF path = <<>> THEN rootGroup ELSE rootGroup.children[path[1]]
Rules(g)   == {i \in DOMAIN g.children : g.children[i].type = "rule"}

PatchGroup(path, group) ==
  /\ Edit
  /\ view = "visual"
  /\ rootGroup' = IF path = <<>> THEN group ELSE [rootGroup EXCEPT !.children[path[1]] = group]
  /\ value' = TextOf(rootGroup')
  /\ UNCHANGED <<opened, view, rawText, parseError>>

WithChild(g, child) == [g EXCEPT !.children = Append(@, child)]

SetGroupLogic(path) == \E l \in {"$and", "$or"} : PatchGroup(path, [At(path) EXCEPT !.logic = l])
AddRule(path)  == Len(At(path).children) < MaxChildren /\ PatchGroup(path, WithChild(At(path), CreateRule))
\* Groups are added at the root: one level is enough to nest a logic in the other.
AddGroup == /\ Len(rootGroup.children) < MaxChildren
            /\ PatchGroup(<<>>, WithChild(rootGroup, CreateGroup("$and", <<CreateRule>>)))
RemoveChild(path) ==
  \E i \in DOMAIN At(path).children :
    PatchGroup(path, [At(path) EXCEPT !.children = RemoveAt(@, i)])

PatchRule(path, i, rule) == PatchGroup(path, [At(path) EXCEPT !.children[i] = rule])

SetField(path)    == \E i \in Rules(At(path)), f \in Fields :
                       PatchRule(path, i, [At(path).children[i] EXCEPT !.field = f])
SetOperator(path) == \E i \in Rules(At(path)), op \in CONDITION_OPERATORS :
                       PatchRule(path, i, [At(path).children[i] EXCEPT !.op = op])
SetValue(path)    == \E i \in Rules(At(path)), t \in {<<x>> : x \in Items} \cup {SetToSeq(Items)} :
                       PatchRule(path, i, [At(path).children[i] EXCEPT !.value = t])

BuilderNext ==
  \/ SetMode \/ ApplyRaw \/ AddGroup
  \/ \E t \in Typed : OnRawInput(t)
  \/ /\ view = "visual" /\ edits < MaxEdits
     /\ \E path \in Paths : \/ SetGroupLogic(path) \/ AddRule(path) \/ RemoveChild(path)
                            \/ SetField(path) \/ SetOperator(path) \/ SetValue(path)

BuilderSpec == BuilderInit /\ [][BuilderNext]_vars
------------------------------------------------------------------------------
\* What a condition means for a record that holds one value in every field.
Tests(v, x) ==
  CASE v.op = "$eq" -> v.values[1] = x
    [] v.op = "$ne" -> v.values[1] # x
    [] OTHER        -> \E i \in DOMAIN v.values : v.values[i] = x

RECURSIVE Satisfies(_, _)
Satisfies(record, object) ==
  /\ \A f \in DOMAIN object.fields : Tests(object.fields[f], record[f])
  /\ CASE object.logic = "$or"  -> \E i \in DOMAIN object.members : Satisfies(record, object.members[i])
       [] object.logic = "$and" -> \A i \in DOMAIN object.members : Satisfies(record, object.members[i])
       [] OTHER -> TRUE

Values  == {Value("string", <<x>>) : x \in Items} \cup {Value("number", <<x>>) : x \in Numerals}
RecordsOf == [Fields \cup {""} -> Values]

\* What the tree on screen says: an empty group restricts nothing.
RECURSIVE Says(_, _)
Says(node, record) ==
  CASE node.type = "rule"   -> Tests(RuleToValue(node), record[node.field])
    [] node.children = <<>> -> TRUE
    [] node.logic = "$and"  -> \A i \in DOMAIN node.children : Says(node.children[i], record)
    [] OTHER                -> \E i \in DOMAIN node.children : Says(node.children[i], record)

(* What is emitted means what the tree shows, and reads back as a tree that    *)
(* means the same: no edit, and no switch to the text and back, changes it.    *)
TreeIsKept ==
  view = "visual" =>
    LET emitted == ModelToJson(rootGroup)
    IN  /\ Representable(emitted)
        /\ \A record \in RecordsOf :
             /\ Satisfies(record, emitted) = Says(rootGroup, record)
             /\ Satisfies(record, ModelToJson(ParseGroup(emitted))) = Says(rootGroup, record)

(* UnrepresentableConditionError: a text that would be corrupted stays in raw *)
(* mode; one shown as a tree means what the text said.                         *)
ShownWithoutCorruption ==
  edits = 0 /\ view = "visual" /\ opened # Empty =>
    \A record \in RecordsOf : Satisfies(record, opened.object) = Says(rootGroup, record)

=============================================================================
