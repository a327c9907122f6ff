---------------------------- MODULE RoutingRules ----------------------------
(***************************************************************************)
(* Routing rules: what RuleEvaluatorService accepts and how it matches a   *)
(* ticket, and what RuleValidatorService tells an admin of a rule: whether *)
(* it can match at all, and with which other rules it overlaps. A tree is  *)
(* a sequence of groups, a group a sequence of conditions; the groups are  *)
(* alternatives, the conditions of one all have to hold.                   *)
(*                                                                         *)
(* Values: <<"number", n>>, <<"text", a sequence of words>>, <<"list", a   *)
(* sequence of texts>>. Case is left out, and so are fractions, which the  *)
(* evaluator accepts as numbers.                                           *)
(***************************************************************************)
EXTENDS Integers, Sequences, FiniteSets, SequencesExt, FiniteSetsExt

CONSTANTS ChannelTypes, LastHour, LastDay
ASSUME RangesAssumption == LastHour \in Nat /\ LastDay \in Nat

IntOps == {"eq", "neq", "gt", "gte", "lt", "lte"}
EnumOps == {"eq", "neq"}
StringOps == {"eq", "neq", "contains", "starts_with", "ends_with"}
ArrayOps == {"contains", "not_contains", "contains_any"}
Integer(last) == [type |-> "integer", ops |-> IntOps, max |-> last]
Text == [type |-> "string", ops |-> StringOps, max |-> 0]
Attributes ==
  [created_hour |-> Integer(LastHour), latest_hour |-> Integer(LastHour), dow |-> Integer(LastDay),
   channel_type |-> [type |-> "enum", ops |-> EnumOps, max |-> 0],
   channel_id |-> [type |-> "channel", ops |-> EnumOps, max |-> 0],
   sender_email |-> Text, subject |-> Text,
   tags |-> [type |-> "string_array", ops |-> ArrayOps, max |-> 0]]

Is(v, kind) == v[1] = kind
(***************************************************************************)
(* The evaluator                                                           *)
(***************************************************************************)
ValueValid(v, attr) ==
  CASE attr.type = "integer" -> Is(v, "number") /\ v[2] \in 0..attr.max
    [] attr.type = "enum" -> Is(v, "text") /\ v[2] \in ChannelTypes
    [] attr.type = "string" -> Is(v, "text")
    [] attr.type = "string_array" -> Is(v, "text") \/ Is(v, "list")
    [] OTHER -> TRUE  \* the id of a channel is not looked at
ConditionValid(c) ==
  /\ c.attribute \in DOMAIN Attributes /\ c.operator \in Attributes[c.attribute].ops
  /\ ValueValid(c.value, Attributes[c.attribute])
TreeValid(tree) ==
  /\ tree # <<>>
  /\ \A i \in DOMAIN tree : tree[i] # <<>> /\ \A j \in DOMAIN tree[i] : ConditionValid(tree[i][j])

Within(part, whole) == \E i \in 1..Len(whole) + 1 - Len(part) : SubSeq(whole, i, i + Len(part) - 1) = part
Compares(op, m, n) ==
  CASE op = "gt" -> m > n [] op = "gte" -> m >= n [] op = "lt" -> m < n [] OTHER -> m <= n
(* Operators on texts look at the texts, those on tags at the list.        *)
TextHolds(op, text, part) ==
  CASE op = "contains" -> Within(part, text) [] op = "not_contains" -> ~Within(part, text)
    [] op = "starts_with" -> IsPrefix(part, text) [] OTHER -> IsSuffix(part, text)
ListHolds(op, list, v) ==
  CASE op = "contains" -> Is(v, "text") /\ v[2] \in list
    [] op = "not_contains" -> ~(Is(v, "text") /\ v[2] \in list)
    [] op = "contains_any" -> Is(v, "list") /\ \E i \in DOMAIN v[2] : v[2][i] \in list
    [] OTHER -> FALSE

(* A ticket has a value for some attributes; tags are a set of texts.      *)
Holds(c, actual) ==
  \/ c.operator = "eq" /\ actual = c.value
  \/ c.operator = "neq" /\ actual # c.value
  \/ /\ c.operator \in IntOps \ EnumOps
     /\ Is(actual, "number") /\ Is(c.value, "number") /\ Compares(c.operator, actual[2], c.value[2])
  \/ c.operator \notin IntOps /\ Is(actual, "tags") /\ ListHolds(c.operator, actual[2], c.value)
  \/ /\ c.operator \notin IntOps /\ Is(actual, "text")
     /\ Is(c.value, "text") /\ TextHolds(c.operator, actual[2], c.value[2])
Condition(c, ctx) == c.attribute \in DOMAIN ctx /\ Holds(c, ctx[c.attribute])
Group(conds, ctx) == \A j \in DOMAIN conds : Condition(conds[j], ctx)
Evaluate(tree, ctx) == \E i \in DOMAIN tree : Group(tree[i], ctx)

(***************************************************************************)
(* The validator: a value for an attribute that its conditions accept, {}  *)
(* when it finds none                                                      *)
(***************************************************************************)
About(name, conds) == {conds[j] : j \in {k \in DOMAIN conds : conds[k].attribute = name}}
Of(on, op) == {c.value[2] : c \in {d \in on : d.operator = op}}

(* The range the comparisons leave, without what neq bans.                 *)
FreeAtBounds(attr, on) ==
  {n \in 0..attr.max : /\ \A m \in Of(on, "gt") \cup Of(on, "gte") : n >= m
                       /\ \A m \in Of(on, "lt") \cup Of(on, "lte") : n <= m} \ Of(on, "neq")
Free(attr, on) ==
  {n \in 0..attr.max : /\ \A m \in Of(on, "gt") : n > m
                       /\ \A m \in Of(on, "gte") : n >= m
                       /\ \A m \in Of(on, "lt") : n < m
                       /\ \A m \in Of(on, "lte") : n <= m} \ Of(on, "neq")

(* Its least number; eq takes its own value if that is left, and nothing   *)
(* when there are two.                                                     *)
Anchored(anchors, free) == {n \in anchors \cap free : anchors = {n}}
PickInteger(attr, on) ==
  LET free == Free(attr, on)
      eqs == Of(on, "eq") IN
  {<<"number", n>> : n \in IF eqs = {} THEN {n \in free : \A m \in free : n <= m} ELSE Anchored(eqs, free)}

(* Without an eq there is no value to offer, nor beside what is no text.   *)
PickEnum(on) ==
  IF \E c \in on : ~Is(c.value, "text") THEN {}
  ELSE LET eqs == Of(on, "eq") IN {<<"text", w>> : w \in Anchored(eqs, eqs \ Of(on, "neq"))}

(* A text put together condition by condition, then held against them all. *)
PickString(conds) ==
  LET Extend(c, text) ==
        CASE c.operator = "eq" -> c.value[2]
          [] c.operator = "contains" -> IF Within(c.value[2], text) THEN text ELSE text \o <<"-">> \o c.value[2]
          [] c.operator = "starts_with" -> IF IsPrefix(c.value[2], text) THEN text ELSE c.value[2] \o text
          [] c.operator = "ends_with" -> IF IsSuffix(c.value[2], text) THEN text ELSE text \o c.value[2]
          [] OTHER -> text
      made == <<"text", FoldLeft(LAMBDA text, c : Extend(c, text), <<"sample">>, conds)>> IN
  {t \in {made} : \A j \in DOMAIN conds : Condition(conds[j], [a \in {conds[j].attribute} |-> t])}

(* All the tags required, and of every choice the first that is not        *)
(* banned; an empty one is taken for none.                                 *)
FirstLeft(l, banned) == {l[i] : i \in {k \in DOMAIN l : l[k] \notin banned /\ \A j \in DOMAIN l : j < k => l[j] \in banned}}
PickArray(on) ==
  LET texts == {c \in on : Is(c.value, "text")}
      required == Of(texts, "contains")
      banned == Of(texts, "not_contains")
      choices == Of({c \in on : Is(c.value, "list")}, "contains_any") IN
  IF required \cap banned # {} \/ \E l \in choices : FirstLeft(l, banned) \subseteq {<<>>} THEN {}
  ELSE {<<"tags", required \cup UNION {FirstLeft(l, banned) : l \in choices}>>}

PickValue(name, conds) ==
  CASE Attributes[name].type = "integer" -> PickInteger(Attributes[name], About(name, conds))
    [] Attributes[name].type \in {"enum", "channel"} -> PickEnum(About(name, conds))
    [] Attributes[name].type = "string" -> PickString(SelectSeq(conds, LAMBDA c : c.attribute = name))
    [] OTHER -> PickArray(About(name, conds))

(* A ticket for a group, attribute by attribute.                           *)
Synthesised(conds) ==
  LET named == {conds[j].attribute : j \in DOMAIN conds}
      pick == [a \in named |-> PickValue(a, conds)] IN
  IF \E a \in named : pick[a] = {} THEN {} ELSE {[a \in named |-> CHOOSE v \in pick[a] : TRUE]}

(* validate: the first group's ticket that the evaluator accepts.          *)
Matchable(tree) == \E i \in DOMAIN tree : \E ctx \in Synthesised(tree[i]) : Evaluate(tree, ctx)

OverlapsApart(a, b) ==
  \E i \in DOMAIN a : \E ctx \in Synthesised(a[i]) : Evaluate(a, ctx) /\ Evaluate(b, ctx)

(* checkOverlap: a ticket for a group of each, taken together.             *)
Overlaps(a, b) ==
  \E i \in DOMAIN a : \E j \in DOMAIN b :
    \E ctx \in Synthesised(a[i] \o b[j]) : Evaluate(a, ctx) /\ Evaluate(b, ctx)

(* validateCandidate: nothing stands in the way of saving the rule.        *)
Candidate(tree, others) ==
  IF ~TreeValid(tree) THEN [valid |-> FALSE, matchable |-> FALSE, overlaps |-> {}]
  ELSE [valid |-> TRUE, matchable |-> Matchable(tree),
        overlaps |-> {o \in others : TreeValid(o) /\ Overlaps(tree, o)}]

(***************************************************************************)
(* The rules there are, and what the admin has been told of a tree         *)
(***************************************************************************)
CONSTANTS Trees,   \* the trees an admin may write
          Samples, \* the tickets there may be, [Attributes -> value]
          MaxSaved

Values == ({"number"} \X Nat) \cup ({"text"} \X Seq(STRING)) \cup ({"list"} \X Seq(Seq(STRING)))
WrittenTrees == Seq(Seq([attribute: STRING, operator: STRING, value: Values]))
ASSUME TreesAssumption == Trees \subseteq WrittenTrees

VARIABLES saved, \* trees of the saved rules
          told   \* what validateCandidate answered last, with its tree

ruleVars == <<saved, told>>
Silent == [tree |-> <<>>, answer |-> Candidate(<<>>, {})]
RulesInit == saved = {} /\ told = Silent
(* create and update refuse what is malformed, and nothing else.           *)
SavesRule(tree) ==
  /\ TreeValid(tree) /\ Cardinality(saved) < MaxSaved
  /\ saved' = saved \cup {tree} /\ told' = Silent
AsksMatch(tree) == told' = [tree |-> tree, answer |-> Candidate(tree, saved)] /\ UNCHANGED saved
RulesNext == \E tree \in Trees : SavesRule(tree) \/ AsksMatch(tree)

RulesSpec == RulesInit /\ [][RulesNext]_ruleVars

(* The conditions the validator decides: an enum is anchored by an eq, the *)
(* id of a channel is a text, no tag to choose is empty, and other texts   *)
(* are left out.                                                           *)
DecidedValue(c) ==
  LET type == Attributes[c.attribute].type IN
  /\ type # "string"
  /\ type = "channel" => Is(c.value, "text")
  /\ Is(c.value, "list") => \A i \in DOMAIN c.value[2] : c.value[2][i] # <<>>
Decided(conds) ==
  \A j \in DOMAIN conds :
    /\ DecidedValue(conds[j])
    /\ Attributes[conds[j].attribute].type \in {"enum", "channel"} =>
         \E k \in DOMAIN conds : conds[k].attribute = conds[j].attribute /\ conds[k].operator = "eq"
AllDecided(tree) == \A i \in DOMAIN tree : Decided(tree[i])

(* Hours and days are in their ranges, tags are a set; and there may be    *)
(* any ticket that groups of one or two rules can be shown to match by.    *)
TicketFormed(t) ==
  \A a \in DOMAIN t \cap DOMAIN Attributes :
    CASE Attributes[a].type = "integer" -> t[a] \in {"number"} \X (0..Attributes[a].max)
      [] Attributes[a].type = "string_array" -> Is(t[a], "tags")
      [] OTHER -> TRUE
Groups == UNION {{tree[i] : i \in DOMAIN tree} : tree \in {u \in Trees : TreeValid(u) /\ AllDecided(u)}}
ThereIs(ctx) == \E t \in Samples : \A a \in DOMAIN ctx : a \in DOMAIN t /\ t[a] = ctx[a]
ASSUME SamplesAssumption ==
  /\ \A t \in Samples : TicketFormed(t)
  /\ \A g, h \in Groups : \A ctx \in Synthesised(g) \cup Synthesised(g \o h) : ThereIs(ctx)

(* "This rule can never match" is said only of rules that no ticket        *)
(* matches, and every rule that is accepted is told to work or not.        *)
NeverMeansNever ==
  told.answer.valid /\ AllDecided(told.tree) =>
    (told.answer.matchable <=> \E t \in Samples : Evaluate(told.tree, t))

(* The rules shown to overlap with one are those that share a ticket.      *)
OverlapsShared ==
  told.answer.valid => \A o \in saved :
    AllDecided(told.tree) /\ AllDecided(o) =>
      (o \in told.answer.overlaps <=> \E t \in Samples : Evaluate(told.tree, t) /\ Evaluate(o, t))

(* What the rule editor tells the admin about matching and overlaps is     *)
(* true (RuleValidatorService).                                            *)
AnswersTrue == NeverMeansNever /\ OverlapsShared
=============================================================================
