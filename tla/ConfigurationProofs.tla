------------------------- MODULE ConfigurationProofs -------------------------
(***************************************************************************)
(* Theorems about the parser and the planner: which files the parser       *)
(* accepts, which nodes its errors are about, which ids the planner gives, *)
(* and that nothing is lost between the text and the plan.                 *)
(***************************************************************************)
EXTENDS ConfigurationReference, TLAPS, FiniteSetTheorems, WellFoundedInduction

-----------------------------------------------------------------------------
(* The attributes of a node.                                               *)

\* No property is missing that is not optional.
Complete(node, keys, schema) ==
    \A key \in keys : Absent \in schema[key] \/ \E i \in DOMAIN node.props : node.props[i].key = key

\* Attributes are right exactly when they are what a rule asks for: positions and
\* names bind as the schema says, nothing is unknown or given twice, and no property
\* is missing that is not optional.
LEMMA AttributesRead ==
    ASSUME NEW node, IsNode(node), NEW at,
           NEW argNames, Len(argNames) \in Nat, DOMAIN argNames = 1 .. Len(argNames),
           \A i, k \in DOMAIN argNames : argNames[i] = argNames[k] => i = k,
           NEW options, NEW inside,
           \A i \in DOMAIN argNames : argNames[i] \notin DOMAIN options,
           NEW keys, keys = DOMAIN options,
           NEW schema, DOMAIN schema = ToSet(argNames) \cup keys,
           \A i \in DOMAIN argNames : schema[argNames[i]] = Text,
           \A key \in keys : schema[key] \cup { Absent } = options[key] \cup { Absent }
    PROVE  ParseNodeAttributes(node, at, argNames, keys, schema).ok <=>
               /\ AttributesValid(node, Node(Len(argNames), options, inside))
               /\ Complete(node, keys, schema)
<1> DEFINE byArg(key) == { i \in DOMAIN argNames : argNames[i] = key /\ i <= Len(node.args) }
           byProperty(key) ==
               { i \in DOMAIN node.props : node.props[i].key = key /\ key \in keys }
           First(S) == CHOOSE i \in S : \A k \in S : i <= k
           taken(i) == \/ byArg(node.props[i].key) # {}
                       \/ \E k \in byProperty(node.props[i].key) : k < i
           attr(key) == CASE byArg(key) # {} -> node.args[First(byArg(key))]
                          [] byArg(key) = {} /\ byProperty(key) # {} ->
                                 node.props[First(byProperty(key))].value
                          [] OTHER -> Absent
           tooMany == Len(node.args) > Len(argNames)
           unknown == \E i \in DOMAIN node.props : node.props[i].key \notin keys
           twice == \E i \in DOMAIN node.props : node.props[i].key \in keys /\ taken(i)
           wrong == \E key \in DOMAIN schema : attr(key) \notin schema[key]
<1>1. ParseNodeAttributes(node, at, argNames, keys, schema).ok
          <=> ~tooMany /\ ~unknown /\ ~twice /\ ~wrong
  BY DEF ParseNodeAttributes, When
<1>3. /\ Len(node.args) \in Nat /\ DOMAIN node.args = 1 .. Len(node.args)
      /\ DOMAIN node.props \subseteq Nat \ { 0 }
      /\ \A i \in DOMAIN node.props : 1 .. i - 1 \subseteq DOMAIN node.props
      /\ \A i \in DOMAIN node.props : node.props[i].value # Absent
  BY DEF IsNode, IsList
<1>4. \A i \in Nat : First({ i }) = i
  OBVIOUS
<1>5. ASSUME NEW i \in DOMAIN argNames
      PROVE  attr(argNames[i]) = IF i <= Len(node.args) THEN node.args[i] ELSE Absent
  <2>1. byProperty(argNames[i]) = {}
    OBVIOUS
  <2>2. byArg(argNames[i]) = IF i <= Len(node.args) THEN { i } ELSE {}
    OBVIOUS
  <2>3. i \in Nat
    OBVIOUS
  <2> HIDE DEF byProperty, byArg, First
  <2>4. CASE i <= Len(node.args)
    BY <2>2, <2>3, <2>4, <1>4
  <2>5. CASE ~(i <= Len(node.args))
    BY <2>1, <2>2, <2>5
  <2> QED
    BY <2>4, <2>5
<1>6. ASSUME NEW key \in keys
      PROVE  byArg(key) = {}
  OBVIOUS
<1> DEFINE once == \A i \in DOMAIN node.props : \A k \in 1 .. i - 1 :
                       node.props[k].key # node.props[i].key
<1>7. ASSUME ~unknown
      PROVE  ~twice <=> once
  <2>1. \A i \in DOMAIN node.props : node.props[i].key \in keys /\ byArg(node.props[i].key) = {}
    BY <1>6, <1>7
  <2>2. ASSUME NEW i \in DOMAIN node.props
        PROVE  taken(i) <=> \E k \in 1 .. i - 1 : node.props[k].key = node.props[i].key
    <3>1. byProperty(node.props[i].key) =
              { k \in DOMAIN node.props : node.props[k].key = node.props[i].key }
      BY <2>1
    <3>2. taken(i) <=> \E k \in byProperty(node.props[i].key) : k < i
      BY <2>1
    <3>3. \A k \in DOMAIN node.props : k < i <=> k \in 1 .. i - 1
      BY <1>3
    <3>4. 1 .. i - 1 \subseteq DOMAIN node.props
      BY <1>3
    <3> HIDE DEF byProperty, taken
    <3> QED
      BY <3>1, <3>2, <3>3, <3>4
  <2> QED
    BY <2>1, <2>2
<1>8. ASSUME NEW i \in DOMAIN node.props, node.props[i].key \in keys, once
      PROVE  attr(node.props[i].key) = node.props[i].value
  <2>1. byProperty(node.props[i].key) = { i }
    <3>1. ASSUME NEW k \in DOMAIN node.props, node.props[k].key = node.props[i].key, k # i
          PROVE  FALSE
      <4>1. k \in 1 .. i - 1 \/ i \in 1 .. k - 1
        BY <1>3, <3>1
      <4> QED
        BY <4>1, <1>8, <3>1
    <3> QED
      BY <3>1, <1>8
  <2>2. byArg(node.props[i].key) = {} /\ i \in Nat
    BY <1>3, <1>6, <1>8
  <2> HIDE DEF byProperty, byArg, First
  <2> QED
    BY <2>1, <2>2, <1>4
<1>9. ASSUME NEW key \in keys, byProperty(key) = {}
      PROVE  attr(key) = Absent
  <2>1. byArg(key) = {}
    BY <1>6
  <2> HIDE DEF byProperty, byArg, First
  <2> QED
    BY <2>1, <1>9
<1> HIDE DEF attr, byArg, taken, First
<1> DEFINE argsGood == \A i \in DOMAIN argNames :
                           i <= Len(node.args) /\ node.args[i] \in Text
           propsGood == \A i \in DOMAIN node.props :
                            node.props[i].key \in keys =>
                                node.props[i].value \in options[node.props[i].key]
<1> DEFINE present == \A key \in keys : \/ Absent \in schema[key]
                                       \/ \E i \in DOMAIN node.props : node.props[i].key = key
<1>10. ASSUME once
       PROVE  ~wrong <=> argsGood /\ propsGood /\ present
  <2>1. ASSUME NEW i \in DOMAIN argNames
        PROVE  attr(argNames[i]) \in schema[argNames[i]]
                   <=> i <= Len(node.args) /\ node.args[i] \in Text
    <3>1. schema[argNames[i]] = Text
      OBVIOUS
    <3> QED
      BY <3>1, <1>5, ValueKinds
  <2>2. ASSUME NEW i \in DOMAIN node.props, node.props[i].key \in keys
        PROVE  attr(node.props[i].key) \in schema[node.props[i].key]
                   <=> node.props[i].value \in options[node.props[i].key]
    <3>1. schema[node.props[i].key] \cup { Absent } = options[node.props[i].key] \cup { Absent }
      BY <2>2
    <3>2. attr(node.props[i].key) = node.props[i].value /\ node.props[i].value # Absent
      BY <1>3, <1>8, <1>10, <2>2
    <3> QED
      BY <3>1, <3>2
  <2>3. ASSUME NEW key \in keys, byProperty(key) = {}
        PROVE  attr(key) \in schema[key] <=> Absent \in schema[key]
    BY <1>9, <2>3
  <2>4. DOMAIN schema = { argNames[i] : i \in DOMAIN argNames } \cup keys
    BY DEF ToSet
  <2>5. ASSUME NEW key \in keys
        PROVE  byProperty(key) # {} <=> \E i \in DOMAIN node.props : node.props[i].key = key
    OBVIOUS
  <2> HIDE DEF byProperty
  <2>6. ASSUME ~wrong PROVE argsGood /\ propsGood /\ present
    <3>1. argsGood /\ propsGood
      BY <2>1, <2>2, <2>4, <2>6
    <3>2. present
      BY <2>3, <2>4, <2>5, <2>6
    <3> QED
      BY <3>1, <3>2
  <2>7. ASSUME argsGood, propsGood, present, NEW key \in DOMAIN schema
        PROVE  attr(key) \in schema[key]
    BY <2>1, <2>2, <2>3, <2>4, <2>5, <2>7
  <2> QED
    BY <2>6, <2>7
<1>11. ~tooMany /\ argsGood <=>
           Len(node.args) = Len(argNames) /\ ToSet(node.args) \subseteq Text
  <2> DEFINE n == Len(node.args)
             m == Len(argNames)
  <2>1. n \in Nat /\ m \in Nat /\ DOMAIN node.args = 1 .. n /\ DOMAIN argNames = 1 .. m
    BY <1>3
  <2>2. ToSet(node.args) \subseteq Text <=> \A i \in 1 .. n : node.args[i] \in Text
    BY <2>1 DEF ToSet
  <2>3. argsGood <=> m <= n /\ \A i \in 1 .. m : node.args[i] \in Text
    <3>1. ASSUME argsGood PROVE m <= n
      <4>1. CASE m = 0
        BY <4>1, <2>1
      <4>2. CASE m # 0
        BY <4>2, <3>1, <2>1
      <4> QED
        BY <4>1, <4>2
    <3> HIDE DEF n, m
    <3>2. ASSUME m <= n PROVE \A i \in 1 .. m : i <= n
      BY <3>2, <2>1
    <3> QED
      BY <3>1, <3>2, <2>1 DEF n
  <2>4. tooMany <=> n > m
    OBVIOUS
  <2> HIDE DEF n, m, tooMany, argsGood
  <2>5. ASSUME n = m PROVE ~tooMany /\ argsGood <=> ToSet(node.args) \subseteq Text
    BY <2>1, <2>2, <2>3, <2>4, <2>5
  <2>6. ASSUME n # m PROVE ~(~tooMany /\ argsGood)
    BY <2>1, <2>3, <2>4, <2>6
  <2> QED
    BY <2>5, <2>6 DEF n, m
<1>12. AttributesValid(node, Node(Len(argNames), options, inside)) <=>
           /\ Len(node.args) = Len(argNames) /\ ToSet(node.args) \subseteq Text
           /\ ~unknown /\ once /\ propsGood
  BY DEF AttributesValid, Node
<1> HIDE DEF tooMany, unknown, twice, wrong, once, argsGood, propsGood
<1>13. ParseNodeAttributes(node, at, argNames, keys, schema).ok <=>
           AttributesValid(node, Node(Len(argNames), options, inside)) /\ present
  BY <1>1, <1>7, <1>10, <1>11, <1>12
<1> QED
  BY <1>13 DEF Complete

SchemaFor(argNames, options) ==
    [key \in ToSet(argNames) \cup DOMAIN options |->
        IF key \in DOMAIN options THEN options[key] \cup { Absent } ELSE Text]

\* The nodes below the header: what is no argument is optional.
THEOREM AttributesAccepted ==
    ASSUME NEW node, IsNode(node), NEW at,
           NEW argNames, Len(argNames) \in Nat, DOMAIN argNames = 1 .. Len(argNames),
           \A i, k \in DOMAIN argNames : argNames[i] = argNames[k] => i = k,
           NEW options, NEW inside,
           \A i \in DOMAIN argNames : argNames[i] \notin DOMAIN options,
           NEW keys, keys = DOMAIN options, NEW schema, schema = SchemaFor(argNames, options)
    PROVE  ParseNodeAttributes(node, at, argNames, keys, schema).ok
               <=> AttributesValid(node, Node(Len(argNames), options, inside))
<1>1. /\ DOMAIN schema = ToSet(argNames) \cup keys
      /\ \A i \in DOMAIN argNames : schema[argNames[i]] = Text
      /\ \A key \in keys : schema[key] \cup { Absent } = options[key] \cup { Absent }
      /\ \A key \in keys : Absent \in schema[key]
  BY DEF SchemaFor, ToSet
<1>2. ParseNodeAttributes(node, at, argNames, keys, schema).ok <=>
          /\ AttributesValid(node, Node(Len(argNames), options, inside))
          /\ Complete(node, keys, schema)
  BY <1>1, AttributesRead
<1> QED
  BY <1>1, <1>2 DEF Complete

\* A result is right exactly when there are no errors, and a leaf has no block.
LEMMA NoErrors ==
    ASSUME NEW node, NEW at, NEW argNames, NEW keys, NEW schema
    PROVE  ParseNodeAttributes(node, at, argNames, keys, schema).errors
               \cup EnsureNoChildren(node, at) = {}
               <=> ParseNodeAttributes(node, at, argNames, keys, schema).ok /\ ~node.block
<1> DEFINE result == ParseNodeAttributes(node, at, argNames, keys, schema)
<1>1. result.ok <=> result.errors = {}
  BY DEF ParseNodeAttributes
<1>2. EnsureNoChildren(node, at) = {} <=> ~node.block
  BY DEF EnsureNoChildren, When
<1> HIDE DEF result
<1>3. result.errors \cup EnsureNoChildren(node, at) = {} <=> result.ok /\ ~node.block
  BY <1>1, <1>2
<1> QED
  BY <1>3 DEF result

\* A node without a block is without errors exactly when it is valid.
LEMMA LeafAccepted ==
    ASSUME NEW node, IsNode(node), node.block \in BOOLEAN, NEW at,
           NEW argNames, Len(argNames) \in Nat, DOMAIN argNames = 1 .. Len(argNames),
           \A i, k \in DOMAIN argNames : argNames[i] = argNames[k] => i = k,
           NEW options,
           \A i \in DOMAIN argNames : argNames[i] \notin DOMAIN options,
           NEW keys, keys = DOMAIN options, NEW schema, schema = SchemaFor(argNames, options)
    PROVE  ParseNodeAttributes(node, at, argNames, keys, schema).ok /\ ~node.block
               <=> Valid(node, Node(Len(argNames), options, "leaf"))
<1>1. ParseNodeAttributes(node, at, argNames, keys, schema).ok
          <=> AttributesValid(node, Node(Len(argNames), options, "leaf"))
  BY AttributesAccepted
<1>2. Node(Len(argNames), options, "leaf").inside = "leaf"
  BY DEF Node
<1> QED
  BY <1>1, <1>2 DEF Valid

\* The parser accepts of each kind of node what the grammar says: the attributes of
\* stages and jobs, and steps, needs and declarations of use blocks as a whole.
THEOREM NodesAccepted ==
    ASSUME NEW node, IsNode(node), node.block \in BOOLEAN, NEW at
    PROVE  /\ ParseName(node, at).ok <=> AttributesValid(node, Grammar.file.stage)
           /\ ParseName(node, at).ok <=> AttributesValid(node, Grammar.file.job)
           /\ ParseName(node, at).ok <=> AttributesValid(node, Grammar.stage.job)
           /\ ParseStep(node, at).errors = {} <=> Valid(node, Grammar.job.step)
           /\ ParseNeeds(node, at).errors = {} <=> Valid(node, Grammar.job.needs)
           /\ node.name \in DOMAIN UseKeys =>
                  (ParseUseDeclaration(node, at).errors = {} <=>
                       Valid(node, Grammar.use[node.name]))
<1>1. /\ Grammar.file.stage = Node(1, << >>, "stage")
      /\ Grammar.file.job = Node(1, << >>, "job")
      /\ Grammar.stage.job = Node(1, << >>, "job")
      /\ Grammar.job.step = Node(1, [image |-> Text], "leaf")
      /\ Grammar.job.needs = Node(1, [allow_failed |-> Flags], "leaf")
      /\ \A kind \in DOMAIN UseKeys : Grammar.use[kind] = Node(2, << >>, "leaf")
  BY DEF Grammar, UseKeys
<1>2. ASSUME NEW inside
      PROVE  ParseName(node, at).ok <=> AttributesValid(node, Node(1, << >>, inside))
  <2> DEFINE names == << "name" >>
             options == << >>
             keys == { }
             schema == [name |-> Text]
  <2>1. schema = SchemaFor(names, options) /\ keys = DOMAIN options
    BY DEF SchemaFor, ToSet
  <2>2. /\ Len(names) = 1 /\ DOMAIN names = 1 .. Len(names)
        /\ \A i, k \in DOMAIN names : names[i] = names[k] => i = k
        /\ \A i \in DOMAIN names : names[i] \notin DOMAIN options
    OBVIOUS
  <2>3. ParseName(node, at) = ParseNodeAttributes(node, at, names, keys, schema)
    BY DEF ParseName
  <2> HIDE DEF names, options, keys, schema
  <2>4. Len(names) \in Nat
    BY <2>2
  <2>5. ParseNodeAttributes(node, at, names, keys, schema).ok <=>
            AttributesValid(node, Node(Len(names), options, inside))
    BY <2>1, <2>2, <2>4, AttributesAccepted
  <2> QED
    BY <2>2, <2>3, <2>5 DEF options
<1>3. ParseStep(node, at).errors = {} <=> Valid(node, Node(1, [image |-> Text], "leaf"))
  <2> DEFINE names == << "command" >>
             options == [image |-> Text]
             keys == { "image" }
             schema == [command |-> Text, image |-> Text \cup { Absent }]
  <2>1. schema = SchemaFor(names, options) /\ keys = DOMAIN options
    BY DEF SchemaFor, ToSet
  <2>2. /\ Len(names) = 1 /\ DOMAIN names = 1 .. Len(names)
        /\ \A i, k \in DOMAIN names : names[i] = names[k] => i = k
        /\ \A i \in DOMAIN names : names[i] \notin DOMAIN options
    OBVIOUS
  <2>3. ParseStep(node, at).errors =
            ParseNodeAttributes(node, at, names, keys, schema).errors
                \cup EnsureNoChildren(node, at)
    BY DEF ParseStep, Declare
  <2> HIDE DEF names, options, keys, schema
  <2>4. Len(names) \in Nat
    BY <2>2
  <2>5. ParseNodeAttributes(node, at, names, keys, schema).ok /\ ~node.block
            <=> Valid(node, Node(Len(names), options, "leaf"))
    BY <2>1, <2>2, <2>4, LeafAccepted
  <2> QED
    BY <2>2, <2>3, <2>5, NoErrors DEF options
<1>4. ParseNeeds(node, at).errors = {} <=> Valid(node, Node(1, [allow_failed |-> Flags], "leaf"))
  <2> DEFINE names == << "job" >>
             options == [allow_failed |-> Flags]
             keys == { "allow_failed" }
             schema == [job |-> Text, allow_failed |-> Flags \cup { Absent }]
  <2>1. schema = SchemaFor(names, options) /\ keys = DOMAIN options
    BY DEF SchemaFor, ToSet
  <2>2. /\ Len(names) = 1 /\ DOMAIN names = 1 .. Len(names)
        /\ \A i, k \in DOMAIN names : names[i] = names[k] => i = k
        /\ \A i \in DOMAIN names : names[i] \notin DOMAIN options
    OBVIOUS
  <2>3. ParseNeeds(node, at).errors =
            ParseNodeAttributes(node, at, names, keys, schema).errors
                \cup EnsureNoChildren(node, at)
    BY DEF ParseNeeds, Declare
  <2> HIDE DEF names, options, keys, schema
  <2>4. Len(names) \in Nat
    BY <2>2
  <2>5. ParseNodeAttributes(node, at, names, keys, schema).ok /\ ~node.block
            <=> Valid(node, Node(Len(names), options, "leaf"))
    BY <2>1, <2>2, <2>4, LeafAccepted
  <2> QED
    BY <2>2, <2>3, <2>5, NoErrors DEF options
<1>5. ASSUME node.name \in DOMAIN UseKeys
      PROVE  ParseUseDeclaration(node, at).errors = {} <=> Valid(node, Node(2, << >>, "leaf"))
  <2> DEFINE names == UseKeys[node.name]
             options == << >>
             keys == { }
             schema == [key \in ToSet(names) |-> Text]
  <2>1. schema = SchemaFor(names, options) /\ keys = DOMAIN options
    BY DEF SchemaFor
  <2>2. /\ Len(names) = 2 /\ DOMAIN names = 1 .. Len(names)
        /\ \A i, k \in DOMAIN names : names[i] = names[k] => i = k
        /\ \A i \in DOMAIN names : names[i] \notin DOMAIN options
    BY <1>5 DEF UseKeys
  <2>3. ParseUseDeclaration(node, at).errors =
            ParseNodeAttributes(node, at, names, keys, schema).errors
                \cup EnsureNoChildren(node, at)
    BY <1>5 DEF ParseUseDeclaration, Declare
  <2> HIDE DEF names, options, keys, schema
  <2>4. Len(names) \in Nat
    BY <2>2
  <2>5. ParseNodeAttributes(node, at, names, keys, schema).ok /\ ~node.block
            <=> Valid(node, Node(Len(names), options, "leaf"))
    BY <2>1, <2>2, <2>4, LeafAccepted
  <2> QED
    BY <2>2, <2>3, <2>5, NoErrors DEF options
<1> QED
  BY <1>1, <1>2, <1>3, <1>4, <1>5

-----------------------------------------------------------------------------
(* Where the errors are.                                                   *)

Places(errors) == { e.at : e \in errors }

LEMMA ErrorsAt ==
    ASSUME NEW errors, NEW at, \A e \in errors : e.at = at
    PROVE  Places(errors) = IF errors = {} THEN {} ELSE { at }
BY DEF Places

LEMMA OneError ==
    ASSUME NEW at, NEW what
    PROVE  Places({ Err(at, what) }) = { at }
BY DEF Places, Err

\* The errors of a node's attributes, and of a block it may not have, are about it.
LEMMA WhenErrors ==
    ASSUME NEW condition, NEW at, NEW what
    PROVE  \A e \in When(condition, at, what) : e.at = at
BY DEF When, Err

LEMMA BlockErrors ==
    ASSUME NEW node, NEW at
    PROVE  \A e \in EnsureNoChildren(node, at) : e.at = at
BY WhenErrors DEF EnsureNoChildren

LEMMA AttributeErrors ==
    ASSUME NEW node, NEW at, NEW argNames, NEW keys, NEW schema
    PROVE  \A e \in ParseNodeAttributes(node, at, argNames, keys, schema).errors : e.at = at
BY WhenErrors DEF ParseNodeAttributes

LEMMA NameErrors ==
    ASSUME NEW node, NEW at
    PROVE  Places(ParseName(node, at).errors) = IF ParseName(node, at).ok THEN {} ELSE { at }
<1>1. ParseName(node, at).ok <=> ParseName(node, at).errors = {}
  BY DEF ParseName, ParseNodeAttributes
<1>2. \A e \in ParseName(node, at).errors : e.at = at
  BY AttributeErrors DEF ParseName
<1> QED
  BY <1>1, <1>2, ErrorsAt

LEMMA JobChildErrors ==
    ASSUME NEW node, IsNode(node), NEW at
    PROVE  Places(ParseJobChild(node, at).errors) = IF Good(node, "job") THEN {} ELSE { at }
<1>1. node.block \in BOOLEAN
  BY DEF IsNode, IsList
<1>2. Known(node, "job") <=> node.name \in { "step", "needs" }
  BY DEF Known, Grammar
<1>3. CASE node.name = "step"
  <2>1. ParseStep(node, at).errors = {} <=> Good(node, "job")
    BY <1>1, <1>2, <1>3, NodesAccepted DEF Good
  <2>2. \A e \in ParseStep(node, at).errors : e.at = at
    BY AttributeErrors, BlockErrors DEF ParseStep, Declare
  <2> QED
    BY <1>3, <2>1, <2>2, ErrorsAt DEF ParseJobChild
<1>4. CASE node.name = "needs"
  <2>1. ParseNeeds(node, at).errors = {} <=> Good(node, "job")
    BY <1>1, <1>2, <1>4, NodesAccepted DEF Good
  <2>2. \A e \in ParseNeeds(node, at).errors : e.at = at
    BY AttributeErrors, BlockErrors DEF ParseNeeds, Declare
  <2> QED
    BY <1>4, <2>1, <2>2, ErrorsAt DEF ParseJobChild
<1>5. CASE node.name \notin { "step", "needs" }
  <2>1. ParseJobChild(node, at).errors = { Err(at, "unexpected node") }
    BY <1>5 DEF ParseJobChild, Nothing
  <2> QED
    BY <1>2, <1>5, <2>1, OneError DEF Good
<1> QED
  BY <1>3, <1>4, <1>5

LEMMA UseChildErrors ==
    ASSUME NEW node, IsNode(node), NEW at
    PROVE  Places(ParseUseDeclaration(node, at).errors) = IF Good(node, "use") THEN {} ELSE { at }
<1>1. node.block \in BOOLEAN
  BY DEF IsNode, IsList
<1>2. Known(node, "use") <=> node.name \in DOMAIN UseKeys
  BY DEF Known, Grammar, UseKeys
<1>3. CASE node.name \in DOMAIN UseKeys
  <2>1. ParseUseDeclaration(node, at).errors = {} <=> Good(node, "use")
    BY <1>1, <1>2, <1>3, NodesAccepted DEF Good
  <2>2. \A e \in ParseUseDeclaration(node, at).errors : e.at = at
    BY <1>3, AttributeErrors, BlockErrors DEF ParseUseDeclaration, Declare
  <2> QED
    BY <2>1, <2>2, ErrorsAt
<1>4. CASE node.name \notin DOMAIN UseKeys
  <2>1. ParseUseDeclaration(node, at).errors
            = EnsureNoChildren(node, at) \cup { Err(at, "unexpected declaration") }
    BY <1>4 DEF ParseUseDeclaration
  <2>2. Err(at, "unexpected declaration").at = at
    BY DEF Err
  <2>3. \A e \in ParseUseDeclaration(node, at).errors : e.at = at
    BY <2>1, <2>2, BlockErrors
  <2>4. ParseUseDeclaration(node, at).errors # {}
    BY <2>1
  <2> QED
    BY <1>2, <1>4, <2>3, <2>4, ErrorsAt DEF Good
<1> QED
  BY <1>3, <1>4

\* The nodes in a job or in a use block have no names of their own.
LEMMA NothingTaken ==
    ASSUME NEW nodes, NEW inside \in { "job", "use" }, NEW i
    PROVE  ~Taken(nodes, inside, i)
<1>1. \A name \in DOMAIN Grammar[inside] : Grammar[inside][name].inside = "leaf"
  BY DEF Grammar, Node
<1> QED
  BY <1>1 DEF Taken, Declares, Good, Known

AreNodes(nodes) ==
    /\ Len(nodes) \in Nat /\ DOMAIN nodes = 1 .. Len(nodes)
    /\ \A i \in DOMAIN nodes : IsNode(nodes[i])

LEMMA JobBlockErrors ==
    ASSUME NEW nodes, AreNodes(nodes), NEW at
    PROVE  Places(Errors(ParseAll(nodes, at, ParseJobChild))) = WrongInJob(nodes, at)
<1>1. ASSUME NEW p
      PROVE  p \in Places(Errors(ParseAll(nodes, at, ParseJobChild))) <=>
                 \E i \in DOMAIN nodes : p \in Places(ParseJobChild(nodes[i], Append(at, i)).errors)
  BY DEF Places, Errors, ParseAll
<1>2. ASSUME NEW i \in DOMAIN nodes, NEW p
      PROVE  p \in Places(ParseJobChild(nodes[i], Append(at, i)).errors)
                 <=> ~Good(nodes[i], "job") /\ p = Append(at, i)
  <2>1. IsNode(nodes[i])
    BY DEF AreNodes
  <2>2. Places(ParseJobChild(nodes[i], Append(at, i)).errors)
            = IF Good(nodes[i], "job") THEN {} ELSE { Append(at, i) }
    BY <2>1, JobChildErrors
  <2>3. CASE Good(nodes[i], "job")
    BY <2>2, <2>3
  <2>4. CASE ~Good(nodes[i], "job")
    BY <2>2, <2>4
  <2> QED
    BY <2>3, <2>4
<1>3. WrongInJob(nodes, at)
          = { Append(at, i) : i \in { i \in DOMAIN nodes : ~Good(nodes[i], "job") } }
  BY NothingTaken DEF WrongInJob, WrongNodes
<1>4. ASSUME NEW p
      PROVE  p \in WrongInJob(nodes, at) <=>
                 \E i \in DOMAIN nodes : ~Good(nodes[i], "job") /\ p = Append(at, i)
  BY <1>3
<1>5. ASSUME NEW p
      PROVE  p \in Places(Errors(ParseAll(nodes, at, ParseJobChild)))
                 <=> p \in WrongInJob(nodes, at)
  BY <1>1, <1>2, <1>4
<1> QED
  BY <1>5

LEMMA UseBlockErrors ==
    ASSUME NEW nodes, AreNodes(nodes), NEW at
    PROVE  Places(Errors(ParseAll(nodes, at, ParseUseDeclaration))) = WrongInUse(nodes, at)
<1>1. ASSUME NEW p
      PROVE  p \in Places(Errors(ParseAll(nodes, at, ParseUseDeclaration))) <=>
                 \E i \in DOMAIN nodes :
                     p \in Places(ParseUseDeclaration(nodes[i], Append(at, i)).errors)
  BY DEF Places, Errors, ParseAll
<1>2. ASSUME NEW i \in DOMAIN nodes, NEW p
      PROVE  p \in Places(ParseUseDeclaration(nodes[i], Append(at, i)).errors)
                 <=> ~Good(nodes[i], "use") /\ p = Append(at, i)
  <2>1. IsNode(nodes[i])
    BY DEF AreNodes
  <2>2. Places(ParseUseDeclaration(nodes[i], Append(at, i)).errors)
            = IF Good(nodes[i], "use") THEN {} ELSE { Append(at, i) }
    BY <2>1, UseChildErrors
  <2>3. CASE Good(nodes[i], "use")
    BY <2>2, <2>3
  <2>4. CASE ~Good(nodes[i], "use")
    BY <2>2, <2>4
  <2> QED
    BY <2>3, <2>4
<1>3. WrongInUse(nodes, at)
          = { Append(at, i) : i \in { i \in DOMAIN nodes : ~Good(nodes[i], "use") } }
  BY NothingTaken DEF WrongInUse, WrongNodes
<1>4. ASSUME NEW p
      PROVE  p \in WrongInUse(nodes, at) <=>
                 \E i \in DOMAIN nodes : ~Good(nodes[i], "use") /\ p = Append(at, i)
  BY <1>3
<1>5. ASSUME NEW p
      PROVE  p \in Places(Errors(ParseAll(nodes, at, ParseUseDeclaration)))
                 <=> p \in WrongInUse(nodes, at)
  BY <1>1, <1>2, <1>4
<1> QED
  BY <1>5

\* The names that the declarations of a result reserve.
DeclNames(decls) == { d.name : d \in ToSet(decls) }

NameOf(node) == node.args[1]

LEMMA ArgumentRead ==
    ASSUME NEW node, NEW at, NEW argNames, Len(argNames) \in Nat,
           DOMAIN argNames = 1 .. Len(argNames),
           \A i, k \in DOMAIN argNames : argNames[i] = argNames[k] => i = k,
           NEW keys, NEW schema,
           NEW i \in DOMAIN argNames, i <= Len(node.args), argNames[i] \in DOMAIN schema
    PROVE  ParseNodeAttributes(node, at, argNames, keys, schema).attrs[argNames[i]]
               = node.args[i]
<1> DEFINE byArg(key) == { k \in DOMAIN argNames : argNames[k] = key /\ k <= Len(node.args) }
           First(S) == CHOOSE k \in S : \A l \in S : k <= l
<1>1. byArg(argNames[i]) = { i }
  OBVIOUS
<1>2. First({ i }) = i
  OBVIOUS
<1>3. byArg(argNames[i]) # {} =>
          ParseNodeAttributes(node, at, argNames, keys, schema).attrs[argNames[i]]
              = node.args[First(byArg(argNames[i]))]
  BY DEF ParseNodeAttributes
<1> HIDE DEF byArg, First
<1> QED
  BY <1>1, <1>2, <1>3

LEMMA NameRead ==
    ASSUME NEW node, IsNode(node), NEW at, ParseName(node, at).ok
    PROVE  ParseName(node, at).attrs.name = NameOf(node)
<1> DEFINE names == << "name" >>
           schema == [name |-> Text]
<1>1. Len(node.args) = 1
  BY NodesAccepted DEF IsNode, IsList, AttributesValid, Grammar, Node
<1>2. /\ Len(names) \in Nat /\ DOMAIN names = 1 .. Len(names) /\ names[1] = "name"
      /\ \A i, k \in DOMAIN names : names[i] = names[k] => i = k
      /\ 1 \in DOMAIN names /\ 1 <= Len(node.args) /\ names[1] \in DOMAIN schema
  BY <1>1
<1>3. ParseName(node, at) = ParseNodeAttributes(node, at, names, {}, schema)
  BY DEF ParseName
<1> HIDE DEF names, schema
<1>4. ParseNodeAttributes(node, at, names, {}, schema).attrs[names[1]] = node.args[1]
  BY <1>2, ArgumentRead
<1> QED
  BY <1>2, <1>3, <1>4 DEF NameOf

LEMMA OneName ==
    ASSUME NEW d
    PROVE  DeclNames(<< d >>) = { d.name }
BY DEF DeclNames, ToSet

LEMMA NoNames == DeclNames(<< >>) = {}
BY DEF DeclNames, ToSet

\* A stage or a job as a node of a block: its own errors, and those inside it.
OwnPlace(node, inside, at) == IF Good(node, inside) THEN {} ELSE { at }

OwnName(node, inside) == IF Declares(node, inside) THEN { NameOf(node) } ELSE {}

\* A job in a stage or at the top of a file.
LEMMA JobParsed ==
    ASSUME NEW node, IsNode(node), AreNodes(node.nodes), NEW at, node.name = "job",
           NEW inside \in { "file", "stage" }
    PROVE  /\ Places(ParseJob(node, at).errors)
                  = OwnPlace(node, inside, at) \cup WrongInJob(node.nodes, at)
           /\ DeclNames(ParseJob(node, at).decls) = OwnName(node, inside)
<1> DEFINE parsed == ParseAll(node.nodes, at, ParseJobChild)
<1>1. node.block \in BOOLEAN
  BY DEF IsNode, IsList
<1>2. /\ "job" \in DOMAIN Grammar[inside]
      /\ Grammar[inside].job = Node(1, << >>, "job")
      /\ Grammar[inside].job.inside = "job"
      /\ Grammar[inside].job = Grammar.file.job
  BY DEF Grammar, Node
<1>3. ParseName(node, at).ok <=> AttributesValid(node, Grammar[inside].job)
  BY <1>1, <1>2, NodesAccepted
<1>4. Good(node, inside) <=> node.block /\ ParseName(node, at).ok
  BY <1>1, <1>2, <1>3 DEF Good, Known, Valid
<1>5. Declares(node, inside) <=> Good(node, inside)
  BY <1>2 DEF Declares
<1>6. CASE ~node.block
  <2>1. /\ ParseJob(node, at).errors = { Err(at, "no block") }
        /\ ParseJob(node, at).decls = << >>
    BY <1>6 DEF ParseJob, Nothing
  <2>2. Places(ParseJob(node, at).errors) = { at } /\ DeclNames(ParseJob(node, at).decls) = {}
    BY <2>1, OneError, NoNames
  <2>3. WrongInJob(node.nodes, at) = {}
    BY <1>6 DEF WrongInJob, WrongNodes, IsNode, IsList
  <2> QED
    BY <1>4, <1>5, <1>6, <2>2, <2>3 DEF OwnPlace, OwnName
<1>7. CASE node.block
  <2>1. ParseJob(node, at).errors = ParseName(node, at).errors \cup Errors(parsed)
    BY <1>7 DEF ParseJob, Declare
  <2>2. Places(ParseJob(node, at).errors) = Places(ParseName(node, at).errors) \cup Places(Errors(parsed))
    BY <2>1 DEF Places
  <2>3. Places(Errors(parsed)) = WrongInJob(node.nodes, at)
    BY JobBlockErrors
  <2>4. DeclNames(ParseJob(node, at).decls)
            = IF ParseName(node, at).ok THEN { ParseName(node, at).attrs.name } ELSE {}
    BY <1>7, OneName, NoNames DEF ParseJob, Declare
  <2> HIDE DEF parsed
  <2> QED
    BY <1>4, <1>5, <1>7, <2>2, <2>3, <2>4, NameErrors, NameRead DEF OwnPlace, OwnName
<1> QED
  BY <1>1, <1>6, <1>7


\* The jobs in a stage, the second of a name reported.
LEMMA StageChildParsed ==
    ASSUME NEW node, IsNode(node), AreNodes(node.nodes), NEW at
    PROVE  /\ Places(ParseStageChild(node, at).errors)
                  = OwnPlace(node, "stage", at)
                        \cup IF node.name = "job" THEN WrongInJob(node.nodes, at) ELSE {}
           /\ DeclNames(ParseStageChild(node, at).decls) = OwnName(node, "stage")
<1>1. CASE node.name = "job"
  <2>1. ParseStageChild(node, at) = ParseJob(node, at)
    BY <1>1 DEF ParseStageChild
  <2> QED
    BY <1>1, <2>1, JobParsed
<1>2. CASE node.name # "job"
  <2>1. /\ ParseStageChild(node, at).errors = { Err(at, "unexpected node") }
        /\ ParseStageChild(node, at).decls = << >>
    BY <1>2 DEF ParseStageChild, Nothing
  <2>2. ~Good(node, "stage") /\ ~Declares(node, "stage")
    BY <1>2 DEF Good, Declares, Known, Grammar
  <2>3. /\ Places(ParseStageChild(node, at).errors) = { at }
        /\ DeclNames(ParseStageChild(node, at).decls) = {}
    BY <2>1, OneError, NoNames
  <2> QED
    BY <1>2, <2>2, <2>3 DEF OwnPlace, OwnName
<1> QED
  BY <1>1, <1>2

\* A declaration is a duplicate if an earlier one has its name.
LEMMA RepeatedPlaces ==
    ASSUME NEW parsed, NEW at, NEW p
    PROVE  p \in Places(Repeated(parsed, at)) <=>
               \E i \in DOMAIN parsed :
                   /\ p = Append(at, i)
                   /\ \E l \in 1 .. i - 1 :
                          DeclNames(parsed[l].decls) \cap DeclNames(parsed[i].decls) # {}
<1> DEFINE twice(i) == \E l \in 1 .. i - 1 : \E d \in ToSet(parsed[l].decls) :
                           \E e \in ToSet(parsed[i].decls) : d.name = e.name
<1>1. Repeated(parsed, at)
          = { Err(Append(at, i), "duplicate name") : i \in { k \in DOMAIN parsed : twice(k) } }
  BY DEF Repeated
<1>2. \A i : Err(Append(at, i), "duplicate name").at = Append(at, i)
  BY DEF Err
<1>3. ASSUME NEW i
      PROVE  twice(i) <=> \E l \in 1 .. i - 1 :
                 DeclNames(parsed[l].decls) \cap DeclNames(parsed[i].decls) # {}
  BY DEF DeclNames
<1> HIDE DEF twice
<1>4. p \in Places(Repeated(parsed, at))
          <=> \E i \in DOMAIN parsed : twice(i) /\ p = Append(at, i)
  BY <1>1, <1>2 DEF Places
<1> QED
  BY <1>3, <1>4

\* The names that are taken in a block of stages and jobs.
LEMMA TakenNames ==
    ASSUME NEW nodes, AreNodes(nodes), NEW inside, NEW i \in DOMAIN nodes
    PROVE  Taken(nodes, inside, i) <=>
               \E k \in 1 .. i - 1 : OwnName(nodes[k], inside) \cap OwnName(nodes[i], inside) # {}
<1>1. ASSUME NEW k
      PROVE  OwnName(nodes[k], inside) \cap OwnName(nodes[i], inside) # {} <=>
                 /\ Declares(nodes[i], inside) /\ Declares(nodes[k], inside)
                 /\ NameOf(nodes[k]) = NameOf(nodes[i])
  BY DEF OwnName
<1> QED
  BY <1>1 DEF Taken, NameOf

LEMMA StageBlockErrors ==
    ASSUME NEW nodes, AreNodes(nodes), \A i \in DOMAIN nodes : AreNodes(nodes[i].nodes), NEW at
    PROVE  Places(Errors(ParseAll(nodes, at, ParseStageChild))
                      \cup Repeated(ParseAll(nodes, at, ParseStageChild), at))
               = WrongInStage(nodes, at)
<1> DEFINE parsed == ParseAll(nodes, at, ParseStageChild)
<1>1. DOMAIN parsed = DOMAIN nodes
  BY DEF ParseAll
<1>2. \A i \in DOMAIN nodes : parsed[i] = ParseStageChild(nodes[i], Append(at, i))
  BY DEF ParseAll
<1> HIDE DEF parsed
<1>3. ASSUME NEW i \in DOMAIN nodes
      PROVE  /\ Places(parsed[i].errors)
                    = OwnPlace(nodes[i], "stage", Append(at, i))
                        \cup IF nodes[i].name = "job" THEN WrongInJob(nodes[i].nodes, Append(at, i))
                             ELSE {}
             /\ DeclNames(parsed[i].decls) = OwnName(nodes[i], "stage")
  <2>1. IsNode(nodes[i]) /\ AreNodes(nodes[i].nodes)
    BY DEF AreNodes
  <2> QED
    BY <1>2, <2>1, StageChildParsed
<1>4. ASSUME NEW p
      PROVE  p \in Places(Errors(parsed)) <=> \E i \in DOMAIN nodes : p \in Places(parsed[i].errors)
  BY <1>1 DEF Places, Errors
<1>5. ASSUME NEW p
      PROVE  p \in Places(Repeated(parsed, at)) <=>
                 \E i \in DOMAIN nodes : Taken(nodes, "stage", i) /\ p = Append(at, i)
  <2>1. ASSUME NEW i \in DOMAIN nodes
        PROVE  Taken(nodes, "stage", i) <=>
                   \E l \in 1 .. i - 1 :
                       DeclNames(parsed[l].decls) \cap DeclNames(parsed[i].decls) # {}
    <3>1. \A l \in 1 .. i - 1 : l \in DOMAIN nodes
      BY DEF AreNodes
    <3> QED
      BY <1>3, <3>1, TakenNames
  <2>2. p \in Places(Repeated(parsed, at)) <=>
            \E i \in DOMAIN parsed :
                /\ p = Append(at, i)
                /\ \E l \in 1 .. i - 1 :
                       DeclNames(parsed[l].decls) \cap DeclNames(parsed[i].decls) # {}
    BY RepeatedPlaces
  <2> QED
    BY <1>1, <2>1, <2>2
<1>6. ASSUME NEW p
      PROVE  p \in WrongInStage(nodes, at) <=>
                 \/ \E i \in DOMAIN nodes : ~Good(nodes[i], "stage") /\ p = Append(at, i)
                 \/ \E i \in DOMAIN nodes : Taken(nodes, "stage", i) /\ p = Append(at, i)
                 \/ \E i \in DOMAIN nodes : /\ nodes[i].name = "job"
                                           /\ p \in WrongInJob(nodes[i].nodes, Append(at, i))
  BY DEF WrongInStage, WrongNodes
<1>7. ASSUME NEW p, NEW i \in DOMAIN nodes
      PROVE  p \in Places(parsed[i].errors) <=>
                 \/ ~Good(nodes[i], "stage") /\ p = Append(at, i)
                 \/ nodes[i].name = "job" /\ p \in WrongInJob(nodes[i].nodes, Append(at, i))
  BY <1>3 DEF OwnPlace
<1>8. ASSUME NEW p
      PROVE  p \in Places(Errors(parsed) \cup Repeated(parsed, at)) <=> p \in WrongInStage(nodes, at)
  <2>1. p \in Places(Errors(parsed) \cup Repeated(parsed, at)) <=>
            p \in Places(Errors(parsed)) \/ p \in Places(Repeated(parsed, at))
    BY DEF Places
  <2> QED
    BY <2>1, <1>4, <1>5, <1>6, <1>7
<1> QED
  BY <1>8 DEF parsed

LEMMA StageParsed ==
    ASSUME NEW node, IsNode(node), AreNodes(node.nodes),
           \A i \in DOMAIN node.nodes : AreNodes(node.nodes[i].nodes),
           NEW at, node.name = "stage"
    PROVE  /\ Places(ParseStage(node, at).errors)
                  = OwnPlace(node, "file", at) \cup WrongInStage(node.nodes, at)
           /\ DeclNames(ParseStage(node, at).decls) = OwnName(node, "file")
<1> DEFINE parsed == ParseAll(node.nodes, at, ParseStageChild)
<1>1. node.block \in BOOLEAN
  BY DEF IsNode, IsList
<1>2. /\ "stage" \in DOMAIN Grammar.file
      /\ Grammar.file["stage"] = Grammar.file.stage
      /\ Grammar.file.stage.inside = "stage"
  BY DEF Grammar, Node
<1>3. ParseName(node, at).ok <=> AttributesValid(node, Grammar.file.stage)
  BY <1>1, NodesAccepted
<1>4. Good(node, "file") <=> node.block /\ ParseName(node, at).ok
  BY <1>1, <1>2, <1>3 DEF Good, Known, Valid
<1>5. Declares(node, "file") <=> Good(node, "file")
  BY <1>2 DEF Declares
<1>6. CASE ~node.block
  <2>1. /\ ParseStage(node, at).errors = { Err(at, "no block") }
        /\ ParseStage(node, at).decls = << >>
    BY <1>6 DEF ParseStage, Nothing
  <2>2. Places(ParseStage(node, at).errors) = { at } /\ DeclNames(ParseStage(node, at).decls) = {}
    BY <2>1, OneError, NoNames
  <2>3. WrongInStage(node.nodes, at) = {}
    BY <1>6 DEF WrongInStage, WrongNodes, IsNode, IsList
  <2> QED
    BY <1>4, <1>5, <1>6, <2>2, <2>3 DEF OwnPlace, OwnName
<1>7. CASE node.block
  <2>1. ParseStage(node, at).errors
            = ParseName(node, at).errors \cup (Errors(parsed) \cup Repeated(parsed, at))
    BY <1>7 DEF ParseStage, Declare
  <2>2. Places(ParseStage(node, at).errors)
            = Places(ParseName(node, at).errors)
                  \cup Places(Errors(parsed) \cup Repeated(parsed, at))
    BY <2>1 DEF Places
  <2>3. Places(Errors(parsed) \cup Repeated(parsed, at)) = WrongInStage(node.nodes, at)
    BY StageBlockErrors
  <2>4. DeclNames(ParseStage(node, at).decls)
            = IF ParseName(node, at).ok THEN { ParseName(node, at).attrs.name } ELSE {}
    BY <1>7, OneName, NoNames DEF ParseStage, Declare
  <2> HIDE DEF parsed
  <2> QED
    BY <1>4, <1>5, <1>7, <2>2, <2>3, <2>4, NameErrors, NameRead DEF OwnPlace, OwnName
<1> QED
  BY <1>1, <1>6, <1>7

LEMMA UseParsed ==
    ASSUME NEW node, IsNode(node), AreNodes(node.nodes), NEW at, node.name = "use"
    PROVE  /\ Places(ParseUseBlock(node, at).errors)
                  = OwnPlace(node, "file", at) \cup WrongInUse(node.nodes, at)
           /\ DeclNames(ParseUseBlock(node, at).decls) = OwnName(node, "file")
<1>1. Good(node, "file") <=> node.block
  <2>1. /\ "use" \in DOMAIN Grammar.file
        /\ Grammar.file["use"].inside = "use"
    BY DEF Grammar, Node
  <2> QED
    BY <2>1 DEF Good, Known, Valid, IsNode, IsList
<1>2. ~Declares(node, "file")
  BY DEF Declares, Grammar, Node
<1>3. DeclNames(ParseUseBlock(node, at).decls) = {}
  <2>1. ParseUseBlock(node, at).decls = << >>
    BY DEF ParseUseBlock
  <2> QED
    BY <2>1, NoNames
<1>4. CASE ~node.block
  <2>1. ParseUseBlock(node, at).errors = { Err(at, "no block") }
    BY <1>4 DEF ParseUseBlock
  <2>2. Places(ParseUseBlock(node, at).errors) = { at }
    BY <2>1, OneError
  <2>3. WrongInUse(node.nodes, at) = {}
    BY <1>4 DEF WrongInUse, WrongNodes, IsNode, IsList
  <2> QED
    BY <1>1, <1>2, <1>3, <1>4, <2>2, <2>3 DEF OwnPlace, OwnName
<1>5. CASE node.block
  <2>1. ParseUseBlock(node, at).errors = Errors(ParseAll(node.nodes, at, ParseUseDeclaration))
    BY <1>5 DEF ParseUseBlock
  <2>2. Places(ParseUseBlock(node, at).errors) = WrongInUse(node.nodes, at)
    BY <2>1, UseBlockErrors
  <2> QED
    BY <1>1, <1>2, <1>3, <1>5, <2>2 DEF OwnPlace, OwnName
<1> QED
  BY <1>4, <1>5 DEF IsNode, IsList

\* A job is wrapped in a stage that has its name.
LEMMA WrappedNames ==
    ASSUME NEW parsed
    PROVE  DeclNames(Wrapped(parsed).decls) = DeclNames(parsed.decls)
<1> DEFINE decls == parsed.decls
           wrapped == Wrapped(parsed).decls
<1>1. DOMAIN wrapped = DOMAIN decls /\ \A i \in DOMAIN decls : wrapped[i].name = decls[i].name
  BY DEF Wrapped
<1> HIDE DEF decls, wrapped
<1>2. \A ds : DeclNames(ds) = { ds[i].name : i \in DOMAIN ds }
  BY DEF DeclNames, ToSet
<1>3. DeclNames(wrapped) = DeclNames(decls)
  BY <1>1, <1>2
<1> QED
  BY <1>3 DEF decls, wrapped

LEMMA TopParsed ==
    ASSUME NEW node, IsTree(node), NEW at
    PROVE  /\ Places(ParseTopLevel(node, at).errors)
                  = OwnPlace(node, "file", at) \cup WrongInTop(node, at)
           /\ DeclNames(ParseTopLevel(node, at).decls) = OwnName(node, "file")
<1>1. /\ IsNode(node) /\ AreNodes(node.nodes)
      /\ \A i \in DOMAIN node.nodes : AreNodes(node.nodes[i].nodes)
  BY DEF IsTree, IsNode, IsList, AreNodes
<1>2. CASE node.name = "use"
  <2>1. ParseTopLevel(node, at) = ParseUseBlock(node, at)
    BY <1>2 DEF ParseTopLevel
  <2>2. WrongInTop(node, at) = WrongInUse(node.nodes, at)
    BY <1>2 DEF WrongInTop
  <2> QED
    BY <1>1, <1>2, <2>1, <2>2, UseParsed
<1>3. CASE node.name = "stage"
  <2>1. /\ ParseTopLevel(node, at).errors = ParseStage(node, at).errors
        /\ ParseTopLevel(node, at).decls = ParseStage(node, at).decls
    BY <1>3 DEF ParseTopLevel, NoUses
  <2>2. WrongInTop(node, at) = WrongInStage(node.nodes, at)
    BY <1>3 DEF WrongInTop
  <2> QED
    BY <1>1, <1>3, <2>1, <2>2, StageParsed
<1>4. CASE node.name = "job"
  <2>1. /\ ParseTopLevel(node, at).errors = Wrapped(ParseJob(node, at)).errors
        /\ ParseTopLevel(node, at).decls = Wrapped(ParseJob(node, at)).decls
    BY <1>4 DEF ParseTopLevel, NoUses
  <2>2. Wrapped(ParseJob(node, at)).errors = ParseJob(node, at).errors
    BY DEF Wrapped
  <2>3. WrongInTop(node, at) = WrongInJob(node.nodes, at)
    BY <1>4 DEF WrongInTop
  <2> QED
    BY <1>1, <1>4, <2>1, <2>2, <2>3, JobParsed, WrappedNames
<1>5. CASE node.name \notin { "use", "stage", "job" }
  <2>1. /\ ParseTopLevel(node, at).errors = { Err(at, "unexpected node") }
        /\ ParseTopLevel(node, at).decls = << >>
    BY <1>5 DEF ParseTopLevel, NoUses, Nothing
  <2>2. /\ Places(ParseTopLevel(node, at).errors) = { at }
        /\ DeclNames(ParseTopLevel(node, at).decls) = {}
    BY <2>1, OneError, NoNames
  <2>3. WrongInTop(node, at) = {}
    BY <1>5 DEF WrongInTop
  <2>4. ~Good(node, "file") /\ ~Declares(node, "file")
    BY <1>5 DEF Good, Declares, Known, Grammar
  <2> QED
    BY <2>2, <2>3, <2>4 DEF OwnPlace, OwnName
<1> QED
  BY <1>2, <1>3, <1>4, <1>5

LEMMA FileBlockErrors ==
    ASSUME NEW nodes, Len(nodes) \in Nat, DOMAIN nodes = 1 .. Len(nodes),
           \A i \in DOMAIN nodes : IsTree(nodes[i])
    PROVE  Places(Errors(ParseAll(nodes, << >>, ParseTopLevel))
                      \cup Repeated(ParseAll(nodes, << >>, ParseTopLevel), << >>))
               = WrongInFile(nodes)
<1> DEFINE parsed == ParseAll(nodes, << >>, ParseTopLevel)
           at(i) == Append(<< >>, i)
<1>1. DOMAIN parsed = DOMAIN nodes
  BY DEF ParseAll
<1>2. \A i \in DOMAIN nodes : parsed[i] = ParseTopLevel(nodes[i], at(i))
  BY DEF ParseAll
<1>3. AreNodes(nodes)
  BY DEF AreNodes, IsTree
<1>4. \A i : at(i) = << i >>
  OBVIOUS
<1> HIDE DEF parsed
<1>5. ASSUME NEW i \in DOMAIN nodes
      PROVE  /\ Places(parsed[i].errors)
                    = OwnPlace(nodes[i], "file", at(i)) \cup WrongInTop(nodes[i], at(i))
             /\ DeclNames(parsed[i].decls) = OwnName(nodes[i], "file")
  BY <1>2, TopParsed
<1>6. ASSUME NEW p
      PROVE  p \in Places(Errors(parsed)) <=> \E i \in DOMAIN nodes : p \in Places(parsed[i].errors)
  BY <1>1 DEF Places, Errors
<1>7. ASSUME NEW p
      PROVE  p \in Places(Repeated(parsed, << >>)) <=>
                 \E i \in DOMAIN nodes : Taken(nodes, "file", i) /\ p = at(i)
  <2>1. ASSUME NEW i \in DOMAIN nodes
        PROVE  Taken(nodes, "file", i) <=>
                   \E l \in 1 .. i - 1 :
                       DeclNames(parsed[l].decls) \cap DeclNames(parsed[i].decls) # {}
    <3>1. \A l \in 1 .. i - 1 : l \in DOMAIN nodes
      OBVIOUS
    <3> QED
      BY <1>3, <1>5, <3>1, TakenNames
  <2>2. p \in Places(Repeated(parsed, << >>)) <=>
            \E i \in DOMAIN parsed :
                /\ p = at(i)
                /\ \E l \in 1 .. i - 1 :
                       DeclNames(parsed[l].decls) \cap DeclNames(parsed[i].decls) # {}
    BY RepeatedPlaces
  <2> QED
    BY <1>1, <2>1, <2>2
<1>8. ASSUME NEW p
      PROVE  p \in WrongInFile(nodes) <=>
                 \/ \E i \in DOMAIN nodes : ~Good(nodes[i], "file") /\ p = at(i)
                 \/ \E i \in DOMAIN nodes : Taken(nodes, "file", i) /\ p = at(i)
                 \/ \E i \in DOMAIN nodes : p \in WrongInTop(nodes[i], at(i))
  BY <1>4 DEF WrongInFile, WrongNodes
<1> HIDE DEF at
<1>9. ASSUME NEW p, NEW i \in DOMAIN nodes
      PROVE  p \in Places(parsed[i].errors) <=>
                 (~Good(nodes[i], "file") /\ p = at(i)) \/ p \in WrongInTop(nodes[i], at(i))
  BY <1>5 DEF OwnPlace
<1>10. ASSUME NEW p
       PROVE  p \in Places(Errors(parsed) \cup Repeated(parsed, << >>)) <=> p \in WrongInFile(nodes)
  <2>1. p \in Places(Errors(parsed) \cup Repeated(parsed, << >>)) <=>
            p \in Places(Errors(parsed)) \/ p \in Places(Repeated(parsed, << >>))
    BY DEF Places
  <2> QED
    BY <2>1, <1>6, <1>7, <1>8, <1>9
<1> QED
  BY <1>10 DEF parsed

LEMMA HeaderParsed ==
    ASSUME NEW nodes, nodes # << >>, IsNode(nodes[1])
    PROVE  ParseHeader(nodes) = {} <=> HeaderValid(nodes[1])
<1> DEFINE node == nodes[1]
           options == [version |-> { "v0" }]
           keys == { "version" }
           names == << >>
           at == << 0 >>
           result == ParseNodeAttributes(node, at, names, keys, options)
<1>1. ParseHeader(nodes) = When(node.name # "corncrake", at, "not a header") \cup result.errors
  BY DEF ParseHeader
<1>2. result.ok <=> result.errors = {}
  BY DEF ParseNodeAttributes
<1>3. When(node.name # "corncrake", at, "not a header") = {} <=> node.name = "corncrake"
  BY DEF When
<1>4. /\ Len(names) = 0 /\ DOMAIN names = 1 .. Len(names)
      /\ \A i, k \in DOMAIN names : names[i] = names[k] => i = k
      /\ \A i \in DOMAIN names : names[i] \notin DOMAIN options
      /\ \A i \in DOMAIN names : options[names[i]] = Text
      /\ ToSet(names) = {}
  BY DEF ToSet
<1>5. /\ keys = DOMAIN options
      /\ DOMAIN options = ToSet(names) \cup keys
      /\ \A key \in keys : Absent \notin options[key]
  BY <1>4 DEF Absent
<1> HIDE DEF options, names, result, node, at
<1>6. result.ok <=>
          AttributesValid(node, Node(0, options, "leaf")) /\ Complete(node, keys, options)
  <2>1. Len(names) \in Nat /\ IsNode(node)
    BY <1>4 DEF node
  <2> HIDE DEF keys
  <2>2. ParseNodeAttributes(node, at, names, keys, options).ok <=>
            AttributesValid(node, Node(Len(names), options, "leaf")) /\ Complete(node, keys, options)
    BY <1>4, <1>5, <2>1, AttributesRead
  <2> QED
    BY <1>4, <2>2 DEF result
<1>7. ASSUME AttributesValid(node, Node(0, options, "leaf"))
      PROVE  (\E i \in DOMAIN node.props : node.props[i].key = "version") <=> Len(node.props) = 1
  <2> DEFINE n == Len(node.props)
  <2>1. n \in Nat /\ DOMAIN node.props = 1 .. n
    BY DEF IsNode, IsList, node
  <2>2. /\ \A i \in DOMAIN node.props : node.props[i].key = "version"
        /\ \A i \in DOMAIN node.props : \A k \in 1 .. i - 1 : node.props[k].key # node.props[i].key
    BY <1>7 DEF AttributesValid, Node, options
  <2> HIDE DEF n
  <2>3. ~(n >= 2)
    <3>1. SUFFICES ASSUME n >= 2
                   PROVE  FALSE
      OBVIOUS
    <3>2. 2 \in DOMAIN node.props /\ 1 \in DOMAIN node.props /\ 1 \in 1 .. 2 - 1
      BY <2>1, <3>1
    <3> QED
      BY <2>2, <3>2
  <2>4. (\E i \in DOMAIN node.props : TRUE) <=> n = 1
    BY <2>1, <2>3
  <2> QED
    BY <2>2, <2>4 DEF n
<1>8. HeaderValid(node) <=>
          /\ node.name = "corncrake" /\ AttributesValid(node, Node(0, options, "leaf"))
          /\ Len(node.props) = 1
  BY DEF HeaderValid, options
<1>9. result.ok <=> AttributesValid(node, Node(0, options, "leaf")) /\ Len(node.props) = 1
  BY <1>5, <1>6, <1>7 DEF Complete
<1> QED
  BY <1>1, <1>2, <1>3, <1>8, <1>9 DEF node

LEMMA HeaderErrors ==
    ASSUME NEW nodes
    PROVE  \A e \in ParseHeader(nodes) : e.at = << 0 >>
<1> DEFINE at == << 0 >>
<1>1. CASE nodes = << >>
  <2>1. ParseHeader(nodes) = When(TRUE, at, "missing header")
    BY <1>1 DEF ParseHeader, When
  <2> HIDE DEF at
  <2>2. \A e \in ParseHeader(nodes) : e.at = at
    BY <2>1, WhenErrors
  <2> QED
    BY <2>2 DEF at
<1>2. CASE nodes # << >>
  <2> DEFINE schema == [version |-> { "v0" }]
  <2>1. ParseHeader(nodes)
            = When(nodes[1].name # "corncrake", at, "not a header")
                  \cup ParseNodeAttributes(nodes[1], at, << >>, { "version" }, schema).errors
    BY <1>2 DEF ParseHeader
  <2> HIDE DEF at, schema
  <2>2. \A e \in When(nodes[1].name # "corncrake", at, "not a header") : e.at = at
    BY WhenErrors
  <2>3. \A e \in ParseNodeAttributes(nodes[1], at, << >>, { "version" }, schema).errors : e.at = at
    BY AttributeErrors
  <2>4. \A e \in ParseHeader(nodes) : e.at = at
    BY <2>1, <2>2, <2>3
  <2> QED
    BY <2>4 DEF at
<1> QED
  BY <1>1, <1>2

\* The errors of a file are about exactly the nodes that break the grammar, wherever
\* they are nested: a file is accepted if and only if none does.
THEOREM ErrorsAreFaults ==
    ASSUME NEW file, IsDocument(file)
    PROVE  Places(ParseConfig(file).errors) = FaultyPlaces(file)
<1>1. CASE ~file.isKdl
  <2>1. ParseConfig(file).errors = { Err(<< >>, "no KDL") }
    BY <1>1 DEF ParseConfig
  <2>2. FaultyPlaces(file) = { << >> }
    BY <1>1 DEF FaultyPlaces
  <2> QED
    BY <2>1, <2>2, OneError
<1>2. CASE file.isKdl /\ file.nodes = << >>
  <2>1. ParseHeader(file.nodes) = { Err(<< 0 >>, "missing header") }
    BY <1>2 DEF ParseHeader
  <2>2. ParseConfig(file).errors = ParseHeader(file.nodes)
    BY <1>2, <2>1 DEF ParseConfig, ParseFile
  <2>3. FaultyPlaces(file) = { << 0 >> }
    BY <1>2 DEF FaultyPlaces
  <2> QED
    BY <2>1, <2>2, <2>3, OneError
<1>3. CASE file.isKdl /\ file.nodes # << >>
  <2> DEFINE nodes == file.nodes
             rest == Tail(nodes)
  <2>1. /\ IsNode(nodes[1]) /\ Len(rest) \in Nat /\ DOMAIN rest = 1 .. Len(rest)
        /\ \A i \in DOMAIN rest : IsTree(rest[i])
    BY <1>3 DEF IsDocument, IsList
  <2>2. FaultyPlaces(file) = IF HeaderValid(nodes[1]) THEN WrongInFile(rest) ELSE { << 0 >> }
    BY <1>3 DEF FaultyPlaces
  <2>3. ParseConfig(file).errors
            = IF ParseHeader(nodes) # {} THEN ParseHeader(nodes)
              ELSE Errors(ParseAll(rest, << >>, ParseTopLevel))
                       \cup Repeated(ParseAll(rest, << >>, ParseTopLevel), << >>)
    BY <1>3 DEF ParseConfig, ParseFile
  <2> HIDE DEF rest
  <2>4. ParseHeader(nodes) = {} <=> HeaderValid(nodes[1])
    BY <1>3, <2>1, HeaderParsed
  <2>5. ParseHeader(nodes) # {} => Places(ParseHeader(nodes)) = { << 0 >> }
    <3> DEFINE at == << 0 >>
               header == ParseHeader(nodes)
    <3>1. \A e \in header : e.at = at
      BY HeaderErrors
    <3> HIDE DEF at, header
    <3>2. header # {} => Places(header) = { at }
      BY <3>1, ErrorsAt
    <3> QED
      BY <3>2 DEF at, header
  <2>6. Places(Errors(ParseAll(rest, << >>, ParseTopLevel))
                   \cup Repeated(ParseAll(rest, << >>, ParseTopLevel), << >>)) = WrongInFile(rest)
    BY <2>1, FileBlockErrors
  <2> QED
    BY <2>2, <2>3, <2>4, <2>5, <2>6
<1> QED
  BY <1>1, <1>2, <1>3

-----------------------------------------------------------------------------
(* What is reported of a delivery.                                         *)

\* What the files were found to be stays as it was reported.
Reported ==
    /\ files \in Configurations
    /\ phase # "received" => results = ParseKdlConfigs(files).results

LEMMA ReportedStays == Spec => []Reported
<1>1. Init => Reported
  BY DEF Init, Reported
<1>2. Reported /\ [Next]_vars => Reported'
  <2> SUFFICES ASSUME Reported, [Next]_vars
               PROVE  Reported'
    OBVIOUS
  <2>1. CASE Check
    BY <2>1 DEF Check, Reported
  <2>2. CASE Launch \/ LaunchFails
    BY <2>2 DEF Launch, LaunchFails, Reported
  <2>3. CASE UNCHANGED handler
    BY <2>3 DEF handler, Reported
  <2>4. ASSUME NEW r \in Rows, NEW success \in BOOLEAN,
               StepStarts(r) \/ StepEnds(r, success) \/ JobEnds(r, success) \/ GetJob(r)
        PROVE  UNCHANGED handler
    BY <2>4 DEF StepStarts, StepEnds, JobEnds, GetJob, Asked
  <2>5. CASE GetPipeline \/ ReadWorkflows \/ ReadJobs \/ ReadSteps \/ ListPipelines
    <3>1. UNCHANGED handler
      BY <2>5 DEF GetPipeline, ReadWorkflows, ReadJobs, ReadSteps, ListPipelines, Asked
    <3> QED
      BY <2>3, <3>1
  <2>6. CASE UNCHANGED vars
    BY <2>3, <2>6 DEF vars
  <2> QED
    BY <2>1, <2>2, <2>3, <2>4, <2>5, <2>6 DEF Next
<1> QED
  BY <1>1, <1>2, PTL DEF Spec

\* "allowing multiple issues to be reported at once": what a delivery reports of its
\* files is every fault in them and nothing else.
THEOREM FaultsAreReported == Spec => []FaultsReported
<1>1. Reported => FaultsReported
  <2> SUFFICES ASSUME Reported, phase = "checked", NEW f \in DOMAIN files
               PROVE  { e.at : e \in results[f] } = FaultyPlaces(files[f])
    BY DEF FaultsReported
  <2>1. IsDocument(files[f])
    BY FilesAreDocuments DEF Reported
  <2>2. results[f] = ParseConfig(files[f]).errors
    BY DEF Reported, ParseKdlConfigs
  <2> QED
    BY <2>1, <2>2, ErrorsAreFaults DEF Places
<1> QED
  BY <1>1, ReportedStays, PTL

-----------------------------------------------------------------------------
(* The ids of planned jobs.                                                *)

\* What the parser gives the planner: stages in order, each with its jobs in order.
AreStages(stages) ==
    /\ IsList(stages)
    /\ \A s \in DOMAIN stages : IsList(stages[s].jobs)

JobsIn(stages, t) == { << t, l >> : l \in DOMAIN stages[t].jobs }

JobsBefore(stages, s) == UNION { JobsIn(stages, t) : t \in 1 .. s - 1 }

\* The facts about finite sets and numbers that the ids need.
LEMMA Interval ==
    ASSUME NEW n \in Nat
    PROVE  IsFiniteSet(1 .. n) /\ Cardinality(1 .. n) = n
<1>1. IsFiniteSet(1 .. n) /\ Cardinality(1 .. n) = IF 1 > n THEN 0 ELSE n - 1 + 1
  BY FS_Interval
<1> QED
  BY <1>1

LEMMA SmallestOf ==
    ASSUME NEW S, S \subseteq Nat, S # {}
    PROVE  \E x \in S : \A y \in S : x <= y
<1>1. PICK x \in S : \A y \in S : << y, x >> \notin OpToRel(<, Nat)
  BY NatLessThanWellFounded, WFMin
<1>2. \A y \in S : ~(y < x)
  BY <1>1 DEF OpToRel
<1> QED
  BY <1>2

LEMMA JobsInStage ==
    ASSUME NEW stages, AreStages(stages), NEW t \in DOMAIN stages
    PROVE  /\ IsFiniteSet(JobsIn(stages, t))
           /\ Cardinality(JobsIn(stages, t)) = Len(stages[t].jobs)
<1> DEFINE m == Len(stages[t].jobs)
           f == [l \in 1 .. m |-> << t, l >>]
<1>1. m \in Nat /\ DOMAIN stages[t].jobs = 1 .. m
  BY DEF AreStages, IsList
<1>2. JobsIn(stages, t) = { << t, l >> : l \in 1 .. m }
  BY <1>1 DEF JobsIn
<1>3. f \in Bijection(1 .. m, JobsIn(stages, t))
  BY <1>2 DEF Bijection, Injection, Surjection, IsInjective
<1>4. IsFiniteSet(1 .. m) /\ Cardinality(1 .. m) = m
  BY <1>1, Interval
<1> QED
  BY <1>3, <1>4, FS_Bijection DEF ExistsBijection

LEMMA JobsBeforeStage ==
    ASSUME NEW stages, AreStages(stages), NEW s \in DOMAIN stages
    PROVE  /\ IsFiniteSet(JobsBefore(stages, s))
           /\ Cardinality(JobsBefore(stages, s)) \in Nat
<1> DEFINE T == { JobsIn(stages, t) : t \in 1 .. s - 1 }
           f == [t \in 1 .. s - 1 |-> JobsIn(stages, t)]
<1>1. s \in Nat /\ 1 .. s - 1 \subseteq DOMAIN stages
  BY DEF AreStages, IsList
<1>2. f \in Surjection(1 .. s - 1, T)
  BY DEF Surjection
<1>3. IsFiniteSet(1 .. s - 1)
  BY <1>1, FS_Interval
<1>4. IsFiniteSet(T)
  BY <1>2, <1>3, FS_Surjection
<1>5. \A U \in T : IsFiniteSet(U)
  BY <1>1, JobsInStage
<1>6. IsFiniteSet(JobsBefore(stages, s))
  BY <1>4, <1>5, FS_UNION DEF JobsBefore
<1> QED
  BY <1>6, FS_CardinalityType

\* The generator counts the jobs of a workflow in the order of its text.
THEOREM IdsFollowTheText ==
    ASSUME NEW stages, AreStages(stages),
           NEW s \in DOMAIN stages, NEW k \in DOMAIN stages[s].jobs,
           NEW t \in DOMAIN stages, NEW l \in DOMAIN stages[t].jobs,
           s < t \/ (s = t /\ k < l)
    PROVE  NextId(stages, s, k) < NextId(stages, t, l)
<1>1. /\ NextId(stages, s, k) = k + Cardinality(JobsBefore(stages, s))
      /\ NextId(stages, t, l) = l + Cardinality(JobsBefore(stages, t))
  BY DEF NextId, JobsBefore, JobsIn
<1>2. /\ Cardinality(JobsBefore(stages, s)) \in Nat /\ IsFiniteSet(JobsBefore(stages, s))
      /\ Cardinality(JobsBefore(stages, t)) \in Nat /\ IsFiniteSet(JobsBefore(stages, t))
  BY JobsBeforeStage
<1>3. /\ s \in Nat \ { 0 } /\ t \in Nat
      /\ Len(stages[s].jobs) \in Nat
      /\ k \in 1 .. Len(stages[s].jobs) /\ l \in Nat /\ l > 0
  BY DEF AreStages, IsList
<1>4. CASE s = t /\ k < l
  BY <1>1, <1>2, <1>3, <1>4
<1>5. CASE s < t
  <2> DEFINE both == JobsBefore(stages, s) \cup JobsIn(stages, s)
  <2>1. JobsBefore(stages, s) \cap JobsIn(stages, s) = {}
    BY <1>3 DEF JobsBefore, JobsIn
  <2>2. both \subseteq JobsBefore(stages, t)
    <3>1. 1 .. s - 1 \subseteq 1 .. t - 1 /\ s \in 1 .. t - 1
      BY <1>3, <1>5
    <3> QED
      BY <3>1 DEF JobsBefore
  <2>3. /\ IsFiniteSet(JobsIn(stages, s))
        /\ Cardinality(JobsIn(stages, s)) = Len(stages[s].jobs)
    BY JobsInStage
  <2>4. Cardinality(both) = Cardinality(JobsBefore(stages, s)) + Cardinality(JobsIn(stages, s))
                                - Cardinality(JobsBefore(stages, s) \cap JobsIn(stages, s))
    BY <2>3, <1>2, FS_Union
  <2>5. Cardinality(both) = Cardinality(JobsBefore(stages, s)) + Len(stages[s].jobs)
    <3>1. Cardinality(JobsBefore(stages, s) \cap JobsIn(stages, s)) = 0
      BY <2>1, FS_EmptySet
    <3> QED
      BY <3>1, <2>3, <2>4, <1>2, <1>3
  <2>6. Cardinality(both) <= Cardinality(JobsBefore(stages, t))
    BY <2>2, <1>2, FS_Subset
  <2> QED
    BY <2>5, <2>6, <1>1, <1>2, <1>3
<1> QED
  BY <1>4, <1>5

\* Of the declarations with one name the map keeps the last.
LEMMA LastNamedIsLast ==
    ASSUME NEW decls, Len(decls) \in Nat, DOMAIN decls = 1 .. Len(decls),
           NEW n \in Names(decls)
    PROVE  /\ LastNamed(decls, n) \in DOMAIN decls
           /\ decls[LastNamed(decls, n)].name = n
           /\ \A k \in DOMAIN decls : k > LastNamed(decls, n) => decls[k].name # n
<1> DEFINE last(i) == decls[i].name = n /\ \A k \in DOMAIN decls : k > i => decls[k].name # n
           distance == { Len(decls) - i : i \in { i \in DOMAIN decls : decls[i].name = n } }
<1>1. distance \in SUBSET Nat /\ distance # {}
  BY DEF Names
<1>2. PICK d \in distance : \A e \in distance : d <= e
  BY <1>1, SmallestOf
<1>3. \E i \in DOMAIN decls : last(i)
  <2>1. PICK i \in DOMAIN decls : decls[i].name = n /\ d = Len(decls) - i
    BY <1>2
  <2>2. ASSUME NEW k \in DOMAIN decls, k > i, decls[k].name = n PROVE FALSE
    <3>1. Len(decls) - k \in distance
      BY <2>2
    <3>2. d <= Len(decls) - k
      BY <1>2, <3>1
    <3> QED
      BY <3>2, <2>1, <2>2
  <2> QED
    BY <2>1, <2>2
<1> QED
  BY <1>3 DEF LastNamed

\* Two jobs of a workflow never get one id, whatever names repeat: their rows do not
\* collide when the launch inserts them.
THEOREM PlannedIdsDiffer ==
    ASSUME NEW workflow, AreStages(workflow.stages),
           NEW s \in DOMAIN PlanWorkflow(workflow),
           NEW j \in DOMAIN PlanWorkflow(workflow)[s],
           NEW t \in DOMAIN PlanWorkflow(workflow),
           NEW k \in DOMAIN PlanWorkflow(workflow)[t],
           PlanWorkflow(workflow)[s][j].id = PlanWorkflow(workflow)[t][k].id
    PROVE  s = t /\ j = k
<1> DEFINE stages == workflow.stages
           at(n) == LastNamed(stages, n)
           jobAt(n, i) == LastNamed(stages[at(n)].jobs, i)
<1>1. ASSUME NEW n \in DOMAIN PlanWorkflow(workflow),
             NEW i \in DOMAIN PlanWorkflow(workflow)[n]
      PROVE  /\ at(n) \in DOMAIN stages /\ stages[at(n)].name = n
             /\ jobAt(n, i) \in DOMAIN stages[at(n)].jobs
             /\ stages[at(n)].jobs[jobAt(n, i)].name = i
             /\ PlanWorkflow(workflow)[n][i].id = NextId(stages, at(n), jobAt(n, i))
  <2>1. n \in Names(stages) /\ PlanWorkflow(workflow)[n] = PlanStage(stages, at(n))
    BY DEF PlanWorkflow
  <2>2. at(n) \in DOMAIN stages /\ stages[at(n)].name = n
    BY <2>1, LastNamedIsLast DEF AreStages, IsList
  <2>3. /\ i \in Names(stages[at(n)].jobs)
        /\ PlanStage(stages, at(n))[i].id = NextId(stages, at(n), jobAt(n, i))
    BY <2>1 DEF PlanStage, PlanJob
  <2>4. /\ jobAt(n, i) \in DOMAIN stages[at(n)].jobs
        /\ stages[at(n)].jobs[jobAt(n, i)].name = i
    BY <2>2, <2>3, LastNamedIsLast DEF AreStages, IsList
  <2> QED
    BY <2>1, <2>2, <2>3, <2>4
<1>2. /\ at(s) \in Int /\ at(t) \in Int /\ jobAt(s, j) \in Int /\ jobAt(t, k) \in Int
  <2>1. /\ DOMAIN stages \subseteq Int
        /\ \A l \in DOMAIN stages : DOMAIN stages[l].jobs \subseteq Int
    BY DEF AreStages, IsList
  <2> QED
    BY <1>1, <2>1
<1>3. NextId(stages, at(s), jobAt(s, j)) = NextId(stages, at(t), jobAt(t, k))
  BY <1>1
<1>4. NextId(stages, at(s), jobAt(s, j)) \in Int
  <2>1. NextId(stages, at(s), jobAt(s, j)) = jobAt(s, j) + Cardinality(JobsBefore(stages, at(s)))
    BY DEF NextId, JobsBefore, JobsIn
  <2>2. Cardinality(JobsBefore(stages, at(s))) \in Nat
    BY <1>1, JobsBeforeStage
  <2> QED
    BY <2>1, <2>2, <1>2
<1> HIDE DEF at, jobAt, stages
<1>5. at(s) = at(t) /\ jobAt(s, j) = jobAt(t, k)
  <2> SUFFICES ASSUME ~(at(s) = at(t) /\ jobAt(s, j) = jobAt(t, k))
               PROVE  FALSE
    OBVIOUS
  <2>1. \/ at(s) < at(t) \/ (at(s) = at(t) /\ jobAt(s, j) < jobAt(t, k))
        \/ at(t) < at(s) \/ (at(t) = at(s) /\ jobAt(t, k) < jobAt(s, j))
    BY <1>2
  <2> QED
    BY <2>1, <1>1, <1>3, <1>4, IdsFollowTheText DEF stages
<1> QED
  BY <1>1, <1>5

-----------------------------------------------------------------------------
(* Lists.                                                                  *)

LEMMA InSeq ==
    ASSUME NEW S, NEW s \in Seq(S)
    PROVE  IsList(s)
BY DEF IsList

LEMMA ListConcat ==
    ASSUME NEW s, IsList(s), NEW t, IsList(t)
    PROVE  /\ IsList(s \o t)
           /\ Len(s \o t) = Len(s) + Len(t)
           /\ \A i \in 1 .. Len(s) : (s \o t)[i] = s[i]
           /\ \A i \in 1 .. Len(t) : (s \o t)[Len(s) + i] = t[i]
<1> DEFINE S == { s[i] : i \in 1 .. Len(s) } \cup { t[i] : i \in 1 .. Len(t) }
<1>1. s \in Seq(S) /\ t \in Seq(S)
  BY DEF IsList
<1> HIDE DEF S
<1>2. s \o t \in Seq(S)
  BY <1>1
<1>3. IsList(s \o t)
  BY <1>2, InSeq
<1>4. /\ Len(s \o t) = Len(s) + Len(t)
      /\ \A i \in 1 .. Len(s) : (s \o t)[i] = s[i]
      /\ \A i \in 1 .. Len(t) : (s \o t)[Len(s) + i] = t[i]
  BY <1>1
<1> QED
  BY <1>3, <1>4

LEMMA EmptyList == IsList(<< >>) /\ Len(<< >>) = 0
BY DEF IsList

LEMMA OneItem ==
    ASSUME NEW x
    PROVE  IsList(<< x >>) /\ Len(<< x >>) = 1 /\ << x >>[1] = x
BY DEF IsList

LEMMA ListDomain ==
    ASSUME NEW s, IsList(s)
    PROVE  Len(s) \in Nat /\ DOMAIN s = 1 .. Len(s)
BY DEF IsList

LEMMA ListOf ==
    ASSUME NEW n \in Nat, NEW s, s = [i \in 1 .. n |-> s[i]]
    PROVE  IsList(s) /\ Len(s) = n
BY DEF IsList

LEMMA SameList ==
    ASSUME NEW s, IsList(s), NEW t, IsList(t), Len(s) = Len(t),
           \A i \in 1 .. Len(s) : s[i] = t[i]
    PROVE  s = t
BY DEF IsList

\* Induction over the numbers up to n, for a set given by what it holds.
LEMMA UpTo ==
    ASSUME NEW n \in Nat, NEW S, 0 \in S, \A m \in 1 .. n : m - 1 \in S => m \in S
    PROVE  \A m \in 0 .. n : m \in S
<1> DEFINE bad == { m \in 0 .. n : m \notin S }
<1> SUFFICES ASSUME bad # {} PROVE FALSE
  OBVIOUS
<1>1. bad \subseteq Nat
  OBVIOUS
<1>2. PICK m \in bad : \A k \in bad : m <= k
  <2> HIDE DEF bad
  <2> QED
    BY <1>1, SmallestOf
<1>3. m \in 1 .. n
  BY <1>2
<1>4. m - 1 \in 0 .. n /\ m - 1 \notin bad
  BY <1>2, <1>3
<1> QED
  BY <1>2, <1>3, <1>4

-----------------------------------------------------------------------------
(* Lists of lists, one after the other.                                    *)

AreLists(lists) ==
    /\ Len(lists) \in Nat /\ DOMAIN lists = 1 .. Len(lists)
    /\ \A i \in DOMAIN lists : IsList(lists[i])

JoinOf(f, lists, n) == IF n = 0 THEN << >> ELSE f[n - 1] \o lists[n]

\* By the number of them that are taken.
Joined(lists) == CHOOSE f : f = [n \in 0 .. Len(lists) |-> JoinOf(f, lists, n)]

LEMMA JoinedExists ==
    ASSUME NEW lists, Len(lists) \in Nat
    PROVE  \E f : f = [n \in 0 .. Len(lists) |-> JoinOf(f, lists, n)]
<1> DEFINE S == { m \in Nat : \E f : f = [n \in 0 .. m |-> JoinOf(f, lists, n)] }
<1>1. 0 \in S
  <2> DEFINE f == [n \in 0 .. 0 |-> << >>]
  <2>1. f = [n \in 0 .. 0 |-> JoinOf(f, lists, n)]
    BY DEF JoinOf
  <2> QED
    BY <2>1
<1>2. ASSUME NEW m \in 1 .. Len(lists), m - 1 \in S PROVE m \in S
  <2>1. PICK f : f = [n \in 0 .. m - 1 |-> JoinOf(f, lists, n)]
    BY <1>2
  <2> DEFINE g == [n \in 0 .. m |-> IF n = m THEN f[m - 1] \o lists[m] ELSE f[n]]
  <2>2. g[m] = f[m - 1] \o lists[m]
    OBVIOUS
  <2>3. \A n \in 0 .. m - 1 : g[n] = f[n]
    OBVIOUS
  <2>4. g = [n \in 0 .. m |-> g[n]]
    OBVIOUS
  <2> HIDE DEF g
  <2>5. g[m] = JoinOf(g, lists, m)
    <3>1. m # 0 /\ m - 1 \in 0 .. m - 1
      OBVIOUS
    <3> QED
      BY <2>2, <2>3, <3>1 DEF JoinOf
  <2>6. ASSUME NEW n \in 0 .. m - 1 PROVE g[n] = JoinOf(g, lists, n)
    <3>1. f[n] = JoinOf(f, lists, n)
      BY <2>1
    <3>2. CASE n = 0
      BY <2>3, <3>1, <3>2 DEF JoinOf
    <3>3. CASE n # 0
      <4>1. n - 1 \in 0 .. m - 1
        BY <3>3
      <4>2. g[n] = f[n] /\ g[n - 1] = f[n - 1]
        BY <2>3, <4>1
      <4> QED
        BY <3>1, <3>3, <4>2 DEF JoinOf
    <3> QED
      BY <3>2, <3>3
  <2>7. \A n \in 0 .. m : n = m \/ n \in 0 .. m - 1
    OBVIOUS
  <2>8. g = [n \in 0 .. m |-> JoinOf(g, lists, n)]
    BY <2>4, <2>5, <2>6, <2>7
  <2> QED
    BY <2>8
<1> HIDE DEF S
<1>3. \A m \in 0 .. Len(lists) : m \in S
  BY <1>1, <1>2, UpTo
<1>4. Len(lists) \in S
  BY <1>3
<1> QED
  BY <1>4 DEF S

LEMMA JoinedStep ==
    ASSUME NEW lists, Len(lists) \in Nat
    PROVE  /\ Joined(lists)[0] = << >>
           /\ \A n \in 1 .. Len(lists) : Joined(lists)[n] = Joined(lists)[n - 1] \o lists[n]
<1>1. Joined(lists) = [n \in 0 .. Len(lists) |-> JoinOf(Joined(lists), lists, n)]
  BY JoinedExists DEF Joined
<1> QED
  BY <1>1 DEF JoinOf

\* The flattened list is all of them.
LEMMA Flattened ==
    ASSUME NEW lists, AreLists(lists)
    PROVE  FlattenSeq(lists) = Joined(lists)[Len(lists)]
<1>1. CASE Len(lists) = 0
  <2>1. lists = << >>
    BY <1>1 DEF AreLists
  <2>2. FlattenSeq(lists) = lists
    BY <1>1 DEF FlattenSeq
  <2> QED
    BY <1>1, <2>1, <2>2, JoinedStep
<1>2. CASE Len(lists) # 0
  <2> DEFINE n == Len(lists)
             Flat(f, i) == IF i = 1 THEN lists[i] ELSE f[i - 1] \o lists[i]
             flat == CHOOSE f : f = [i \in 1 .. n |-> IF i = 1 THEN lists[i] ELSE f[i - 1] \o lists[i]]
             g == [i \in 1 .. n |-> Joined(lists)[i]]
  <2>1. FlattenSeq(lists) = flat[n]
    BY <1>2 DEF FlattenSeq
  <2>2. n \in Nat /\ 1 \in 1 .. n /\ n \in 1 .. n
    BY <1>2 DEF AreLists
  <2>3. \A i \in 1 .. n : Joined(lists)[i] = Joined(lists)[i - 1] \o lists[i]
    BY <2>2, JoinedStep
  <2>4. Joined(lists)[1] = lists[1]
    <3>1. IsList(lists[1])
      BY <2>2 DEF AreLists
    <3>2. << >> \o lists[1] = lists[1]
      <4>1. /\ IsList(<< >> \o lists[1]) /\ Len(<< >> \o lists[1]) = Len(lists[1])
            /\ \A i \in 1 .. Len(lists[1]) : (<< >> \o lists[1])[i] = lists[1][i]
        <5>1. Len(lists[1]) \in Nat
          BY <3>1 DEF IsList
        <5> QED
          BY <3>1, <5>1, EmptyList, ListConcat
      <4> QED
        BY <3>1, <4>1, SameList
    <3>3. Joined(lists)[0] = << >>
      BY <2>2, JoinedStep
    <3>4. Joined(lists)[1] = Joined(lists)[0] \o lists[1]
      <4>1. Joined(lists)[1] = Joined(lists)[1 - 1] \o lists[1]
        BY <2>2, <2>3
      <4>2. 1 - 1 = 0
        OBVIOUS
      <4> QED
        BY <4>1, <4>2
    <3> QED
      BY <3>2, <3>3, <3>4
  <2>5. g = [i \in 1 .. n |-> IF i = 1 THEN lists[i] ELSE g[i - 1] \o lists[i]]
    <3>1. \A i \in 1 .. n : g[i] = IF i = 1 THEN lists[i] ELSE g[i - 1] \o lists[i]
      <4> SUFFICES ASSUME NEW i \in 1 .. n
                   PROVE  g[i] = IF i = 1 THEN lists[i] ELSE g[i - 1] \o lists[i]
        OBVIOUS
      <4>1. CASE i = 1
        BY <2>4, <4>1
      <4>2. CASE i # 1
        <5>1. i - 1 \in 1 .. n
          BY <2>2, <4>2
        <5>2. g[i - 1] = Joined(lists)[i - 1] /\ g[i] = Joined(lists)[i]
          BY <5>1
        <5> HIDE DEF g
        <5> QED
          BY <2>3, <4>2, <5>2
      <4> QED
        BY <4>1, <4>2
    <3>2. g = [i \in 1 .. n |-> g[i]]
      OBVIOUS
    <3> HIDE DEF g
    <3> QED
      BY <3>1, <3>2
  <2>6. flat = [i \in 1 .. n |-> IF i = 1 THEN lists[i] ELSE flat[i - 1] \o lists[i]]
    <3> HIDE DEF g
    <3> QED
      BY <2>5
  <2> HIDE DEF flat
  <2>7. \A m \in 0 .. n : m \in { m1 \in Nat : m1 = 0 \/ flat[m1] = Joined(lists)[m1] }
    <3> DEFINE S == { m1 \in Nat : m1 = 0 \/ flat[m1] = Joined(lists)[m1] }
    <3>1. 0 \in S
      OBVIOUS
    <3>2. ASSUME NEW m \in 1 .. n, m - 1 \in S PROVE m \in S
      <4>1. CASE m = 1
        <5>1. flat[1] = lists[1]
          BY <2>2, <2>6
        <5> QED
          BY <2>4, <4>1, <5>1
      <4>2. CASE m # 1
        <5>1. m - 1 # 0 /\ flat[m - 1] = Joined(lists)[m - 1]
          BY <3>2, <4>2
        <5>2. flat[m] = flat[m - 1] \o lists[m]
          BY <2>6, <4>2
        <5>3. Joined(lists)[m] = Joined(lists)[m - 1] \o lists[m]
          BY <2>3
        <5>4. flat[m] = Joined(lists)[m]
          BY <5>1, <5>2, <5>3, Zenon
        <5>5. m \in Nat
          BY <2>2
        <5> QED
          BY <5>4, <5>5
      <4> QED
        BY <4>1, <4>2
    <3> HIDE DEF S
    <3>3. \A m \in 0 .. n : m \in S
      BY <2>2, <3>1, <3>2, UpTo
    <3> QED
      BY <3>3 DEF S
  <2>8. flat[n] = Joined(lists)[n]
    BY <1>2, <2>2, <2>7
  <2> QED
    BY <2>1, <2>8
<1> QED
  BY <1>1, <1>2

\* Each of them adds its length.
LEMMA JoinedLists ==
    ASSUME NEW lists, AreLists(lists)
    PROVE  /\ \A n \in 0 .. Len(lists) : IsList(Joined(lists)[n])
           /\ Len(Joined(lists)[0]) = 0
           /\ \A n \in 1 .. Len(lists) :
                  Len(Joined(lists)[n]) = Len(Joined(lists)[n - 1]) + Len(lists[n])
<1> DEFINE S == { n \in Nat : IsList(Joined(lists)[n]) }
<1>1. Len(lists) \in Nat
  BY DEF AreLists
<1>2. 0 \in S /\ Len(Joined(lists)[0]) = 0
  BY <1>1, JoinedStep, EmptyList
<1>3. ASSUME NEW n \in 1 .. Len(lists), n - 1 \in S
      PROVE  n \in S /\ Len(Joined(lists)[n]) = Len(Joined(lists)[n - 1]) + Len(lists[n])
  <2>1. Joined(lists)[n] = Joined(lists)[n - 1] \o lists[n]
    BY <1>1, JoinedStep
  <2>2. IsList(lists[n])
    BY DEF AreLists
  <2>3. IsList(Joined(lists)[n - 1])
    BY <1>3
  <2>4. /\ IsList(Joined(lists)[n])
        /\ Len(Joined(lists)[n]) = Len(Joined(lists)[n - 1]) + Len(lists[n])
    BY <2>1, <2>2, <2>3, ListConcat
  <2> QED
    BY <2>4
<1> HIDE DEF S
<1>4. \A n \in 0 .. Len(lists) : n \in S
  BY <1>1, <1>2, <1>3, UpTo
<1>5. \A n \in 1 .. Len(lists) : n - 1 \in 0 .. Len(lists)
  BY <1>1
<1> QED
  BY <1>2, <1>3, <1>4, <1>5 DEF S

\* How many items there are before the i-th list.
Before(lists, i) == Len(Joined(lists)[i - 1])

\* An item stays where the join has put it.
LEMMA ItemStays ==
    ASSUME NEW lists, AreLists(lists), NEW i \in DOMAIN lists, NEW k \in DOMAIN lists[i],
           NEW n \in i .. Len(lists)
    PROVE  /\ Before(lists, i) + k \in 1 .. Len(Joined(lists)[n])
           /\ Joined(lists)[n][Before(lists, i) + k] = lists[i][k]
<1> DEFINE place == Before(lists, i) + k
           Stays(n1) == place \in 1 .. Len(Joined(lists)[n1]) /\ Joined(lists)[n1][place] = lists[i][k]
           S == { n1 \in Nat : n1 >= i => Stays(n1) }
<1>1. /\ Len(lists) \in Nat /\ i \in 1 .. Len(lists)
      /\ IsList(lists[i]) /\ Len(lists[i]) \in Nat /\ k \in 1 .. Len(lists[i])
  <2>1. IsList(lists[i])
    BY DEF AreLists
  <2> QED
    BY <2>1, ListDomain DEF AreLists
<1>2. \A m \in 0 .. Len(lists) : IsList(Joined(lists)[m]) /\ Len(Joined(lists)[m]) \in Nat
  BY JoinedLists, ListDomain
<1>3. 0 \in S
  BY <1>1
<1>4. ASSUME NEW m \in 1 .. Len(lists), m - 1 \in S PROVE m \in S
  <2> DEFINE a == Joined(lists)[m - 1]
             b == lists[m]
             c == Joined(lists)[m]
             x == lists[i][k]
  <2>1. c = a \o b
    BY <1>1, JoinedStep
  <2>2. m - 1 \in 0 .. Len(lists) /\ IsList(a) /\ IsList(b)
    BY <1>1, <1>2 DEF AreLists
  <2>3. m = i => place = Len(a) + k /\ x = b[k] /\ k \in 1 .. Len(b)
    BY <1>1 DEF Before
  <2>4. m > i => place \in 1 .. Len(a) /\ a[place] = x
    BY <1>1, <1>4
  <2> HIDE DEF a, b, c, x, place
  <2>5. Len(a) \in Nat /\ Len(b) \in Nat /\ Len(c) = Len(a) + Len(b)
    BY <2>1, <2>2, ListConcat, ListDomain
  <2>6. CASE m = i
    <3>1. place \in 1 .. Len(c)
      BY <1>1, <2>3, <2>5, <2>6
    <3>2. c[Len(a) + k] = b[k]
      BY <2>1, <2>2, <2>3, <2>6, ListConcat
    <3>3. place \in 1 .. Len(c) /\ c[place] = x
      BY <2>3, <2>6, <3>1, <3>2
    <3> QED
      BY <3>3 DEF c, x
  <2>7. CASE m > i
    <3>1. c[place] = a[place]
      BY <2>1, <2>2, <2>4, <2>7, ListConcat
    <3>2. place \in 1 .. Len(c) /\ c[place] = x
      BY <2>4, <2>5, <2>7, <3>1
    <3> QED
      BY <3>2 DEF c, x
  <2>8. CASE m < i
    BY <1>1, <2>8
  <2> QED
    BY <1>1, <2>6, <2>7, <2>8
<1> HIDE DEF S
<1>5. \A m \in 0 .. Len(lists) : m \in S
  BY <1>1, <1>3, <1>4, UpTo
<1>6. n \in S /\ n >= i
  BY <1>1, <1>5
<1> QED
  BY <1>6 DEF S

\* Every item of the join is one of a list.
LEMMA ItemComesFrom ==
    ASSUME NEW lists, AreLists(lists), NEW n \in 0 .. Len(lists),
           NEW j \in 1 .. Len(Joined(lists)[n])
    PROVE  \E i \in DOMAIN lists : \E k \in DOMAIN lists[i] : i <= n /\ j = Before(lists, i) + k
<1> DEFINE Comes(m, j1) ==
               \E i \in DOMAIN lists : \E k \in DOMAIN lists[i] : i <= m /\ j1 = Before(lists, i) + k
           S == { m \in Nat : \A j1 \in 1 .. Len(Joined(lists)[m]) : Comes(m, j1) }
<1>1. Len(lists) \in Nat /\ DOMAIN lists = 1 .. Len(lists)
  BY DEF AreLists
<1>2. 0 \in S
  <2>1. Len(Joined(lists)[0]) = 0
    BY JoinedLists
  <2> QED
    BY <2>1
<1>3. ASSUME NEW m \in 1 .. Len(lists), m - 1 \in S PROVE m \in S
  <2>1. /\ m - 1 \in 0 .. Len(lists) /\ IsList(Joined(lists)[m - 1])
        /\ Len(Joined(lists)[m - 1]) \in Nat
        /\ IsList(lists[m]) /\ Len(lists[m]) \in Nat /\ DOMAIN lists[m] = 1 .. Len(lists[m])
        /\ Len(Joined(lists)[m]) = Len(Joined(lists)[m - 1]) + Len(lists[m])
    <3>1. m - 1 \in 0 .. Len(lists) /\ IsList(lists[m])
      BY <1>1 DEF AreLists
    <3> QED
      BY <3>1, JoinedLists, ListDomain
  <2>2. ASSUME NEW j1 \in 1 .. Len(Joined(lists)[m]) PROVE Comes(m, j1)
    <3>1. CASE j1 <= Len(Joined(lists)[m - 1])
      <4>1. Comes(m - 1, j1)
        BY <1>3, <2>1, <3>1
      <4>2. PICK i \in DOMAIN lists : \E k \in DOMAIN lists[i] :
                     i <= m - 1 /\ j1 = Before(lists, i) + k
        BY <4>1
      <4>3. i <= m
        BY <1>1, <4>2
      <4> QED
        BY <4>2, <4>3
    <3>2. CASE j1 > Len(Joined(lists)[m - 1])
      <4> DEFINE k == j1 - Len(Joined(lists)[m - 1])
      <4>1. k \in DOMAIN lists[m] /\ j1 = Before(lists, m) + k
        <5>1. k \in 1 .. Len(lists[m])
          <6> DEFINE a == Len(Joined(lists)[m - 1])
                     b == Len(lists[m])
          <6>1. a \in Nat /\ b \in Nat /\ j1 \in 1 .. a + b /\ j1 > a
            BY <2>1, <3>2
          <6> HIDE DEF a, b
          <6>2. j1 - a \in 1 .. b
            BY <6>1
          <6> QED
            BY <6>2 DEF a, b
        <5>2. Before(lists, m) = Len(Joined(lists)[m - 1])
          BY DEF Before
        <5> QED
          BY <2>1, <5>1, <5>2
      <4> HIDE DEF k
      <4> QED
        BY <1>1, <4>1
    <3> QED
      BY <2>1, <3>1, <3>2
  <2> QED
    BY <2>2
<1> HIDE DEF S
<1>4. \A m \in 0 .. Len(lists) : m \in S
  BY <1>1, <1>2, <1>3, UpTo
<1> QED
  BY <1>4 DEF S

LEMMA FlatList ==
    ASSUME NEW lists, AreLists(lists)
    PROVE  /\ IsList(FlattenSeq(lists))
           /\ Len(FlattenSeq(lists)) = Len(Joined(lists)[Len(lists)])
<1>1. Len(lists) \in 0 .. Len(lists)
  BY DEF AreLists
<1>2. IsList(Joined(lists)[Len(lists)])
  BY <1>1, JoinedLists
<1>3. FlattenSeq(lists) = Joined(lists)[Len(lists)]
  BY Flattened
<1> QED
  BY <1>2, <1>3

\* Where an item of one of the lists is in the flattened list.
LEMMA FlatItem ==
    ASSUME NEW lists, AreLists(lists), NEW i \in DOMAIN lists, NEW k \in DOMAIN lists[i]
    PROVE  /\ Before(lists, i) + k \in DOMAIN FlattenSeq(lists)
           /\ FlattenSeq(lists)[Before(lists, i) + k] = lists[i][k]
<1>1. Len(lists) \in i .. Len(lists)
  BY DEF AreLists
<1>2. DOMAIN FlattenSeq(lists) = 1 .. Len(Joined(lists)[Len(lists)])
  BY FlatList, ListDomain
<1> QED
  BY <1>1, <1>2, Flattened, ItemStays

LEMMA FlatOrigin ==
    ASSUME NEW lists, AreLists(lists), NEW j \in DOMAIN FlattenSeq(lists)
    PROVE  \E i \in DOMAIN lists : \E k \in DOMAIN lists[i] :
               j = Before(lists, i) + k /\ FlattenSeq(lists)[j] = lists[i][k]
<1>1. Len(lists) \in 0 .. Len(lists)
  BY DEF AreLists
<1>2. j \in 1 .. Len(Joined(lists)[Len(lists)])
  BY FlatList, ListDomain
<1>3. PICK i \in DOMAIN lists : \E k \in DOMAIN lists[i] : j = Before(lists, i) + k
  BY <1>1, <1>2, ItemComesFrom
<1>4. PICK k \in DOMAIN lists[i] : j = Before(lists, i) + k
  BY <1>3
<1>5. FlattenSeq(lists)[j] = lists[i][k]
  BY <1>4, FlatItem
<1> QED
  BY <1>4, <1>5

LEMMA ListsOf ==
    ASSUME NEW n \in Nat, NEW lists, DOMAIN lists = 1 .. n, lists = [i \in 1 .. n |-> lists[i]],
           \A i \in 1 .. n : IsList(lists[i])
    PROVE  AreLists(lists) /\ IsList(lists) /\ Len(lists) = n
<1>1. IsList(lists) /\ Len(lists) = n
  BY ListOf
<1> QED
  BY <1>1 DEF AreLists

\* Lists of one item each.
LEMMA FlatSingletons ==
    ASSUME NEW lists, AreLists(lists), \A i \in DOMAIN lists : Len(lists[i]) = 1
    PROVE  /\ Len(FlattenSeq(lists)) = Len(lists)
           /\ \A i \in DOMAIN lists : FlattenSeq(lists)[i] = lists[i][1]
           /\ \A i \in DOMAIN lists : Before(lists, i) + 1 = i
<1> DEFINE S == { n \in Nat : Len(Joined(lists)[n]) = n }
<1>1. Len(lists) \in Nat /\ DOMAIN lists = 1 .. Len(lists)
  BY DEF AreLists
<1>2. 0 \in S
  BY JoinedLists
<1>3. ASSUME NEW n \in 1 .. Len(lists), n - 1 \in S PROVE n \in S
  <2>1. Len(Joined(lists)[n]) = Len(Joined(lists)[n - 1]) + Len(lists[n])
    BY JoinedLists
  <2>2. Len(Joined(lists)[n - 1]) = n - 1 /\ Len(lists[n]) = 1
    BY <1>1, <1>3
  <2> QED
    BY <1>1, <2>1, <2>2
<1> HIDE DEF S
<1>4. \A n \in 0 .. Len(lists) : n \in S
  BY <1>1, <1>2, <1>3, UpTo
<1>5. \A n \in 0 .. Len(lists) : Len(Joined(lists)[n]) = n
  BY <1>4 DEF S
<1>6. Len(FlattenSeq(lists)) = Len(lists)
  BY <1>1, <1>5, FlatList
<1>7. ASSUME NEW i \in DOMAIN lists
      PROVE  FlattenSeq(lists)[i] = lists[i][1] /\ Before(lists, i) + 1 = i
  <2>1. Before(lists, i) = i - 1
    BY <1>1, <1>5 DEF Before
  <2>2. IsList(lists[i]) /\ Len(lists[i]) = 1
    BY DEF AreLists
  <2>3. 1 \in DOMAIN lists[i]
    BY <2>2, ListDomain
  <2>4. FlattenSeq(lists)[Before(lists, i) + 1] = lists[i][1]
    BY <2>3, FlatItem
  <2> QED
    BY <1>1, <2>1, <2>4
<1> QED
  BY <1>6, <1>7

\* Each item of a list of lists of at most one gives a list itself, and is matched by
\* a list as long as that: both are then flattened in step.
InStep(c, w, a) ==
    /\ AreLists(c) /\ AreLists(w) /\ AreLists(a)
    /\ Len(a) = Len(c) /\ Len(w) = Len(FlattenSeq(c))
    /\ \A i \in DOMAIN c :
           \/ Len(c[i]) = 0 /\ Len(a[i]) = 0
           \/ Len(c[i]) = 1 /\ Len(w[Before(c, i) + 1]) = Len(a[i])

LEMMA FlatInStep ==
    ASSUME NEW c, NEW w, NEW a, InStep(c, w, a)
    PROVE  /\ Len(FlattenSeq(w)) = Len(FlattenSeq(a))
           /\ \A i \in DOMAIN c :
                  Len(c[i]) = 1 => Before(w, Before(c, i) + 1) = Before(a, i)
<1> DEFINE cs(n) == Len(Joined(c)[n])
           S == { n \in Nat : cs(n) \in 0 .. Len(w) /\ Len(Joined(w)[cs(n)]) = Len(Joined(a)[n]) }
<1> USE DEF InStep
<1>1. /\ Len(c) \in Nat /\ DOMAIN c = 1 .. Len(c) /\ DOMAIN a = 1 .. Len(c)
      /\ Len(w) \in Nat /\ DOMAIN w = 1 .. Len(w)
      /\ Len(w) = cs(Len(c))
  BY FlatList DEF AreLists
<1>2. /\ cs(0) = 0 /\ Len(Joined(w)[0]) = 0 /\ Len(Joined(a)[0]) = 0
      /\ \A n \in 0 .. Len(c) : cs(n) \in Nat
  BY JoinedLists, ListDomain
<1>3. \A n \in 1 .. Len(c) :
          /\ cs(n) = cs(n - 1) + Len(c[n])
          /\ Len(Joined(a)[n]) = Len(Joined(a)[n - 1]) + Len(a[n])
  BY JoinedLists
<1>4. \A n \in 1 .. Len(w) : Len(Joined(w)[n]) = Len(Joined(w)[n - 1]) + Len(w[n])
  BY JoinedLists
<1>5. ASSUME NEW n \in 0 .. Len(c), cs(n) # 0 PROVE cs(n) \in 1 .. Len(w)
  <2> DEFINE j == cs(n)
  <2>1. j \in 1 .. Len(Joined(c)[n])
    BY <1>2, <1>5
  <2> HIDE DEF j
  <2>2. PICK i \in DOMAIN c : \E k \in DOMAIN c[i] : i <= n /\ j = Before(c, i) + k
    BY <2>1, ItemComesFrom
  <2>3. PICK k \in DOMAIN c[i] : j = Before(c, i) + k
    BY <2>2
  <2>4. j \in DOMAIN FlattenSeq(c)
    BY <2>3, FlatItem
  <2>5. j \in 1 .. Len(w)
    BY <2>4, FlatList, ListDomain
  <2> QED
    BY <2>5 DEF j
<1>6. 0 \in S
  BY <1>1, <1>2
<1>7. ASSUME NEW n \in 1 .. Len(c), n - 1 \in S
      PROVE  /\ n \in S
             /\ Len(c[n]) = 1 => Len(Joined(w)[cs(n - 1)]) = Len(Joined(a)[n - 1])
  <2> DEFINE s == cs(n)
             r == cs(n - 1)
  <2>1. s = r + Len(c[n]) /\ Len(Joined(a)[n]) = Len(Joined(a)[n - 1]) + Len(a[n])
    BY <1>3
  <2>2. r \in 0 .. Len(w) /\ Len(Joined(w)[r]) = Len(Joined(a)[n - 1])
    BY <1>7
  <2>3. \/ Len(c[n]) = 0 /\ Len(a[n]) = 0
        \/ Len(c[n]) = 1 /\ Len(w[r + 1]) = Len(a[n])
    BY <1>1 DEF Before
  <2>4. Len(Joined(a)[n - 1]) \in Nat
    <3>1. n - 1 \in 0 .. Len(a)
      BY <1>1
    <3> QED
      BY <3>1, JoinedLists, ListDomain
  <2>5. s # 0 => s \in 1 .. Len(w)
    <3>1. n \in 0 .. Len(c)
      BY <1>1
    <3> QED
      BY <1>5, <3>1
  <2> HIDE DEF r, s
  <2>6. CASE Len(c[n]) = 0
    <3>1. s = r /\ Len(Joined(a)[n]) = Len(Joined(a)[n - 1])
      <4>1. Len(a[n]) = 0 /\ r \in Nat
        BY <1>1, <2>2, <2>3, <2>6
      <4> QED
        BY <2>1, <2>4, <2>6, <4>1
    <3>2. s \in 0 .. Len(w) /\ Len(Joined(w)[s]) = Len(Joined(a)[n])
      BY <2>2, <3>1
    <3> QED
      BY <1>1, <2>6, <3>2 DEF s, r
  <2>7. CASE Len(c[n]) = 1
    <3>1. s = r + 1 /\ s \in 1 .. Len(w) /\ s - 1 = r
      <4>1. s = r + 1 /\ r \in Nat
        BY <1>1, <2>1, <2>2, <2>7
      <4>2. s # 0 /\ s - 1 = r
        BY <4>1
      <4> QED
        BY <2>5, <4>1, <4>2
    <3>2. Len(Joined(w)[s]) = Len(Joined(w)[r]) + Len(w[s])
      BY <1>4, <3>1
    <3>3. Len(Joined(w)[s]) = Len(Joined(a)[n])
      <4>1. Len(w[s]) = Len(a[n])
        BY <2>3, <2>7, <3>1
      <4> QED
        BY <2>1, <2>2, <3>2, <4>1
    <3>4. s \in 0 .. Len(w)
      BY <3>1
    <3>5. n \in Nat
      BY <1>1
    <3> QED
      BY <2>2, <3>3, <3>4, <3>5 DEF s, r
  <2> QED
    BY <2>3, <2>6, <2>7
<1> HIDE DEF S
<1>8. \A n \in 0 .. Len(c) : n \in S
  BY <1>1, <1>6, <1>7, UpTo
<1>9. Len(FlattenSeq(w)) = Len(FlattenSeq(a))
  <2>1. Len(c) \in S
    BY <1>1, <1>8
  <2>2. Len(Joined(w)[cs(Len(c))]) = Len(Joined(a)[Len(c)])
    BY <2>1 DEF S
  <2> QED
    BY <1>1, <2>2, FlatList
<1>10. ASSUME NEW i \in DOMAIN c, Len(c[i]) = 1
       PROVE  Before(w, Before(c, i) + 1) = Before(a, i)
  <2>1. i \in 1 .. Len(c) /\ i - 1 \in 0 .. Len(c)
    BY <1>1
  <2>2. Len(Joined(w)[cs(i - 1)]) = Len(Joined(a)[i - 1])
    BY <1>7, <1>8, <1>10, <2>1
  <2>3. cs(i - 1) \in Nat
    BY <1>2, <2>1
  <2>4. cs(i - 1) + 1 - 1 = cs(i - 1)
    BY <2>3
  <2> QED
    BY <2>2, <2>4 DEF Before
<1> QED
  BY <1>9, <1>10

-----------------------------------------------------------------------------
(* Where the planner puts the jobs of a workflow.                          *)

JobLists(stages) == [t \in DOMAIN stages |-> stages[t].jobs]

LEMMA JobListsAreLists ==
    ASSUME NEW stages, AreStages(stages)
    PROVE  /\ AreLists(JobLists(stages))
           /\ Len(JobLists(stages)) = Len(stages) /\ DOMAIN JobLists(stages) = DOMAIN stages
           /\ \A s \in DOMAIN stages : JobLists(stages)[s] = stages[s].jobs
<1> DEFINE lists == JobLists(stages)
           n == Len(stages)
<1>1. n \in Nat /\ DOMAIN stages = 1 .. n
  BY ListDomain DEF AreStages
<1>2. /\ lists = [t \in 1 .. n |-> lists[t]] /\ DOMAIN lists = 1 .. n
      /\ \A t \in 1 .. n : lists[t] = stages[t].jobs
  BY <1>1 DEF JobLists
<1>3. \A t \in 1 .. n : IsList(lists[t])
  BY <1>1, <1>2 DEF AreStages
<1> HIDE DEF lists
<1>4. AreLists(lists) /\ Len(lists) = n
  BY <1>1, <1>2, <1>3, ListsOf
<1> QED
  BY <1>1, <1>2, <1>4 DEF lists

\* The jobs before a stage are as many as the lists before its own hold.
LEMMA JobsCounted ==
    ASSUME NEW stages, AreStages(stages), NEW s \in DOMAIN stages
    PROVE  Cardinality(JobsBefore(stages, s)) = Before(JobLists(stages), s)
<1> DEFINE lists == JobLists(stages)
           n == Len(stages)
           S == { m \in Nat : /\ IsFiniteSet(JobsBefore(stages, m + 1))
                              /\ Cardinality(JobsBefore(stages, m + 1)) = Len(Joined(lists)[m]) }
<1>1. n \in Nat /\ DOMAIN stages = 1 .. n
  BY ListDomain DEF AreStages
<1>2. AreLists(lists) /\ Len(lists) = n /\ \A t \in 1 .. n : lists[t] = stages[t].jobs
  BY <1>1, JobListsAreLists
<1>3. 0 \in S
  <2>1. JobsBefore(stages, 0 + 1) = {}
    BY DEF JobsBefore
  <2>2. Len(Joined(lists)[0]) = 0
    BY <1>2, JoinedLists
  <2> QED
    BY <2>1, <2>2, FS_EmptySet
<1>4. ASSUME NEW m \in 1 .. n, m - 1 \in S PROVE m \in S
  <2> DEFINE before == JobsBefore(stages, m)
             here == JobsIn(stages, m)
  <2>1. JobsBefore(stages, m + 1) = before \cup here
    <3>1. 1 .. m + 1 - 1 = (1 .. m - 1) \cup { m }
      BY <1>1
    <3> QED
      BY <3>1 DEF JobsBefore
  <2>2. before \cap here = {}
    BY <1>1 DEF JobsBefore, JobsIn
  <2>3. m - 1 + 1 = m
    BY <1>1
  <2>4. IsFiniteSet(before) /\ Cardinality(before) = Len(Joined(lists)[m - 1])
    <3>1. /\ IsFiniteSet(JobsBefore(stages, m - 1 + 1))
          /\ Cardinality(JobsBefore(stages, m - 1 + 1)) = Len(Joined(lists)[m - 1])
      <4> HIDE DEF lists
      <4> QED
        BY <1>4
    <3> QED
      BY <2>3, <3>1
  <2>5. IsFiniteSet(here) /\ Cardinality(here) = Len(stages[m].jobs)
    BY <1>1, JobsInStage
  <2>6. Len(Joined(lists)[m]) = Len(Joined(lists)[m - 1]) + Len(stages[m].jobs)
    <3> HIDE DEF lists
    <3>1. m \in 1 .. Len(lists) /\ lists[m] = stages[m].jobs
      BY <1>2
    <3>2. Len(Joined(lists)[m]) = Len(Joined(lists)[m - 1]) + Len(lists[m])
      BY <1>2, <3>1, JoinedLists
    <3> QED
      BY <3>1, <3>2
  <2>7. /\ IsFiniteSet(before \cup here)
        /\ Cardinality(before \cup here)
               = Cardinality(before) + Cardinality(here) - Cardinality(before \cap here)
    BY <2>4, <2>5, FS_Union
  <2>8. Cardinality(before) \in Nat /\ Cardinality(here) \in Nat
    BY <2>4, <2>5, FS_CardinalityType
  <2>9. Cardinality(before \cap here) = 0
    BY <2>2, FS_EmptySet
  <2> HIDE DEF before, here
  <2>10. Cardinality(before \cup here) = Len(Joined(lists)[m])
    BY <2>4, <2>5, <2>6, <2>7, <2>8, <2>9
  <2>11. m \in Nat
    BY <1>1
  <2> QED
    BY <2>1, <2>7, <2>10, <2>11
<1> HIDE DEF S
<1>5. \A m \in 0 .. n : m \in S
  BY <1>1, <1>3, <1>4, UpTo
<1>6. s - 1 \in S /\ s - 1 + 1 = s
  BY <1>1, <1>5
<1> QED
  BY <1>6 DEF S, Before

LEMMA IdCounts ==
    ASSUME NEW stages, AreStages(stages), NEW s \in DOMAIN stages, NEW k
    PROVE  NextId(stages, s, k) = k + Before(JobLists(stages), s)
<1>1. NextId(stages, s, k) = k + Cardinality(JobsBefore(stages, s))
  BY DEF NextId, JobsBefore, JobsIn
<1> QED
  BY <1>1, JobsCounted

UniqueNames(decls) == \A i, k \in DOMAIN decls : decls[i].name = decls[k].name => i = k

\* Of declarations with names of their own the map keeps every one.
LEMMA NamedOnce ==
    ASSUME NEW decls, IsList(decls), UniqueNames(decls), NEW i \in DOMAIN decls
    PROVE  decls[i].name \in Names(decls) /\ LastNamed(decls, decls[i].name) = i
<1>1. Len(decls) \in Nat /\ DOMAIN decls = 1 .. Len(decls)
  BY ListDomain
<1>2. decls[i].name \in Names(decls)
  BY DEF Names
<1> DEFINE last == LastNamed(decls, decls[i].name)
<1>3. last \in DOMAIN decls /\ decls[last].name = decls[i].name
  BY <1>1, <1>2, LastNamedIsLast
<1> HIDE DEF last
<1>4. last = i
  BY <1>3 DEF UniqueNames
<1> QED
  BY <1>2, <1>4 DEF last

AreNamedStages(stages) ==
    /\ AreStages(stages)
    /\ UniqueNames(stages)
    /\ \A s \in DOMAIN stages : UniqueNames(stages[s].jobs)

\* The plan has every job under its names, with the id of its place in the text.
LEMMA JobIsPlanned ==
    ASSUME NEW workflow, NEW stages, stages = workflow.stages, AreNamedStages(stages),
           NEW s \in DOMAIN stages, NEW k \in DOMAIN stages[s].jobs
    PROVE  /\ stages[s].name \in DOMAIN PlanWorkflow(workflow)
           /\ stages[s].jobs[k].name \in DOMAIN PlanWorkflow(workflow)[stages[s].name]
           /\ PlanWorkflow(workflow)[stages[s].name][stages[s].jobs[k].name]
                  = PlanJob(stages[s].jobs[k], k + Before(JobLists(stages), s))
<1> DEFINE n == stages[s].name
           jobs == stages[s].jobs
           j == jobs[k].name
<1>1. IsList(stages) /\ IsList(jobs) /\ UniqueNames(stages) /\ UniqueNames(jobs)
      /\ AreStages(stages)
  BY DEF AreNamedStages, AreStages
<1>2. n \in Names(stages) /\ LastNamed(stages, n) = s
  BY <1>1, NamedOnce
<1>3. j \in Names(jobs) /\ LastNamed(jobs, j) = k
  BY <1>1, NamedOnce
<1> HIDE DEF n, j
<1>4. n \in DOMAIN PlanWorkflow(workflow) /\ PlanWorkflow(workflow)[n] = PlanStage(stages, s)
  BY <1>2 DEF PlanWorkflow
<1>5. /\ j \in DOMAIN PlanStage(stages, s)
      /\ PlanStage(stages, s)[j] = PlanJob(jobs[k], NextId(stages, s, k))
  BY <1>3 DEF PlanStage
<1>6. NextId(stages, s, k) = k + Before(JobLists(stages), s)
  BY <1>1, IdCounts
<1> QED
  BY <1>4, <1>5, <1>6 DEF n, j

\* It has no other jobs.
LEMMA PlannedIsJob ==
    ASSUME NEW workflow, NEW stages, stages = workflow.stages,
           NEW n \in DOMAIN PlanWorkflow(workflow), NEW j \in DOMAIN PlanWorkflow(workflow)[n],
           AreStages(stages)
    PROVE  \E s \in DOMAIN stages : \E k \in DOMAIN stages[s].jobs :
               n = stages[s].name /\ j = stages[s].jobs[k].name
<1>1. n \in Names(stages) /\ PlanWorkflow(workflow)[n] = PlanStage(stages, LastNamed(stages, n))
  BY DEF PlanWorkflow
<1> DEFINE s == LastNamed(stages, n)
<1>2. s \in DOMAIN stages /\ stages[s].name = n
  BY <1>1, LastNamedIsLast, ListDomain DEF AreStages
<1>3. j \in DOMAIN PlanStage(stages, s)
  BY <1>1
<1> HIDE DEF s
<1>4. j \in Names(stages[s].jobs)
  BY <1>3 DEF PlanStage
<1> QED
  BY <1>2, <1>4 DEF Names

-----------------------------------------------------------------------------
(* What the parser makes of a block without errors.                        *)

\* One declaration, which may be asked what it is.
One(decls) == IsList(decls) /\ Len(decls) = 1 /\ decls = << decls[1] >>

LEMMA OneDecl ==
    ASSUME NEW d
    PROVE  One(<< d >>) /\ << d >>[1] = d
BY OneItem DEF One

LEMMA AttributesOk ==
    ASSUME NEW node, NEW at, NEW argNames, NEW keys, NEW schema
    PROVE  ParseNodeAttributes(node, at, argNames, keys, schema).ok
               <=> ParseNodeAttributes(node, at, argNames, keys, schema).errors = {}
BY DEF ParseNodeAttributes

IsStepOf(decl, node) == decl.type = "user" /\ decl.command = node.args[1]

LEMMA StepKept ==
    ASSUME NEW node, IsNode(node), NEW at, ParseStep(node, at).errors = {}
    PROVE  One(ParseStep(node, at).decls) /\ IsStepOf(ParseStep(node, at).decls[1], node)
<1> DEFINE names == << "command" >>
           keys == { "image" }
           schema == [command |-> Text, image |-> Text \cup { Absent }]
           result == ParseNodeAttributes(node, at, names, keys, schema)
           step == [type |-> "user", command |-> result.attrs.command, image |-> result.attrs.image]
<1>1. /\ ParseStep(node, at).errors = result.errors \cup EnsureNoChildren(node, at)
      /\ ParseStep(node, at).decls = IF result.ok THEN << step >> ELSE << >>
  BY DEF ParseStep, Declare
<1>2. result.ok
  <2> HIDE DEF names, keys, schema
  <2> QED
    BY <1>1, AttributesOk
<1>3. Len(node.args) = 1
  <2>1. node.block \in BOOLEAN
    BY DEF IsNode
  <2>2. Valid(node, Grammar.job.step)
    BY <2>1, NodesAccepted
  <2> QED
    BY <2>2 DEF Valid, AttributesValid, Grammar, Node
<1>4. /\ Len(names) \in Nat /\ DOMAIN names = 1 .. Len(names) /\ names[1] = "command"
      /\ \A i, k \in DOMAIN names : names[i] = names[k] => i = k
      /\ 1 \in DOMAIN names /\ 1 <= Len(node.args) /\ names[1] \in DOMAIN schema
  BY <1>3
<1>5. result.attrs[names[1]] = node.args[1]
  <2> HIDE DEF names, keys, schema
  <2> QED
    BY <1>4, ArgumentRead
<1>6. IsStepOf(step, node)
  <2>1. result.attrs.command = node.args[1]
    BY <1>4, <1>5
  <2> HIDE DEF result
  <2> QED
    BY <2>1 DEF IsStepOf
<1> HIDE DEF step
<1>7. ParseStep(node, at).decls = << step >>
  BY <1>1, <1>2
<1> QED
  BY <1>6, <1>7, OneDecl

LEMMA NeedsKept ==
    ASSUME NEW node, NEW at, ParseNeeds(node, at).errors = {}
    PROVE  One(ParseNeeds(node, at).decls) /\ ParseNeeds(node, at).decls[1].type = "needs"
<1> DEFINE names == << "job" >>
           keys == { "allow_failed" }
           schema == [job |-> Text, allow_failed |-> Flags \cup { Absent }]
           result == ParseNodeAttributes(node, at, names, keys, schema)
           needs == [type |-> "needs", job |-> result.attrs.job,
                     allowFailed |-> IF result.attrs.allow_failed = Absent THEN NoFlag
                                     ELSE result.attrs.allow_failed]
<1>1. /\ ParseNeeds(node, at).errors = result.errors \cup EnsureNoChildren(node, at)
      /\ ParseNeeds(node, at).decls = IF result.ok THEN << needs >> ELSE << >>
  BY DEF ParseNeeds, Declare
<1>2. result.ok
  <2> HIDE DEF names, keys, schema
  <2> QED
    BY <1>1, AttributesOk
<1>3. needs.type = "needs"
  OBVIOUS
<1> HIDE DEF needs
<1>4. ParseNeeds(node, at).decls = << needs >>
  BY <1>1, <1>2
<1> QED
  BY <1>3, <1>4, OneDecl

LEMMA JobChildKept ==
    ASSUME NEW node, IsNode(node), NEW at, ParseJobChild(node, at).errors = {}
    PROVE  /\ One(ParseJobChild(node, at).decls)
           /\ IF node.name = "step" THEN IsStepOf(ParseJobChild(node, at).decls[1], node)
              ELSE ParseJobChild(node, at).decls[1].type # "user"
<1>1. CASE node.name = "step"
  <2>1. ParseJobChild(node, at) = ParseStep(node, at)
    BY <1>1 DEF ParseJobChild
  <2> QED
    BY <1>1, <2>1, StepKept
<1>2. CASE node.name = "needs"
  <2>1. ParseJobChild(node, at) = ParseNeeds(node, at)
    BY <1>2 DEF ParseJobChild
  <2> QED
    BY <1>2, <2>1, NeedsKept
<1>3. CASE node.name \notin { "step", "needs" }
  BY <1>3 DEF ParseJobChild, Nothing
<1> QED
  BY <1>1, <1>2, <1>3

\* The results of the nodes of a block, each of one declaration.
LEMMA DeclsOfEach ==
    ASSUME NEW nodes, IsList(nodes), NEW parsed, parsed = [i \in DOMAIN nodes |-> parsed[i]],
           \A i \in DOMAIN nodes : One(parsed[i].decls)
    PROVE  /\ IsList(Decls(parsed))
           /\ Len(Decls(parsed)) = Len(nodes)
           /\ \A i \in DOMAIN nodes : Decls(parsed)[i] = parsed[i].decls[1]
<1> DEFINE lists == [i \in DOMAIN parsed |-> parsed[i].decls]
           n == Len(nodes)
<1>1. n \in Nat /\ DOMAIN nodes = 1 .. n /\ DOMAIN parsed = 1 .. n
  BY ListDomain
<1>2. /\ DOMAIN lists = 1 .. n /\ lists = [i \in 1 .. n |-> lists[i]]
      /\ \A i \in 1 .. n : lists[i] = parsed[i].decls
  BY <1>1
<1>3. \A i \in 1 .. n : IsList(lists[i]) /\ Len(lists[i]) = 1
  BY <1>1, <1>2 DEF One
<1>4. Decls(parsed) = FlattenSeq(lists)
  BY DEF Decls
<1> HIDE DEF lists
<1>5. AreLists(lists) /\ Len(lists) = n
  BY <1>1, <1>2, <1>3, ListsOf
<1>6. Len(FlattenSeq(lists)) = n /\ \A i \in 1 .. n : FlattenSeq(lists)[i] = lists[i][1]
  BY <1>2, <1>3, <1>5, FlatSingletons
<1>7. IsList(FlattenSeq(lists))
  BY <1>5, FlatList
<1> QED
  BY <1>1, <1>2, <1>4, <1>6, <1>7

\* Lists of lists that are as long each.
LEMMA SameShape ==
    ASSUME NEW w, AreLists(w), NEW a, AreLists(a), Len(w) = Len(a),
           \A i \in DOMAIN a : Len(w[i]) = Len(a[i])
    PROVE  /\ Len(FlattenSeq(w)) = Len(FlattenSeq(a))
           /\ \A i \in DOMAIN a : Before(w, i) = Before(a, i)
<1> DEFINE n == Len(a)
           S == { m \in Nat : Len(Joined(w)[m]) = Len(Joined(a)[m]) }
<1>1. n \in Nat /\ DOMAIN a = 1 .. n
  BY DEF AreLists
<1>2. 0 \in S
  BY JoinedLists
<1>3. ASSUME NEW m \in 1 .. n, m - 1 \in S PROVE m \in S
  <2>1. /\ Len(Joined(a)[m]) = Len(Joined(a)[m - 1]) + Len(a[m])
        /\ Len(Joined(w)[m]) = Len(Joined(w)[m - 1]) + Len(w[m])
    BY JoinedLists
  <2>2. Len(w[m]) = Len(a[m]) /\ m \in Nat
    BY <1>1
  <2> QED
    BY <1>3, <2>1, <2>2
<1> HIDE DEF S
<1>4. \A m \in 0 .. n : m \in S
  BY <1>1, <1>2, <1>3, UpTo
<1>5. Len(Joined(w)[n]) = Len(Joined(a)[n])
  <2>1. n \in S
    BY <1>1, <1>4
  <2> QED
    BY <2>1 DEF S
<1>6. \A i \in DOMAIN a : Before(w, i) = Before(a, i)
  <2> SUFFICES ASSUME NEW i \in DOMAIN a PROVE Before(w, i) = Before(a, i)
    OBVIOUS
  <2>1. i - 1 \in S
    BY <1>1, <1>4
  <2> QED
    BY <2>1 DEF S, Before
<1> QED
  BY <1>5, <1>6, FlatList

\* Lists of which the items at the same places are kept.
Kept(list, places) == [i \in DOMAIN list |-> IF i \in places THEN << list[i] >> ELSE << >>]

LEMMA KeptLists ==
    ASSUME NEW list, IsList(list), NEW places
    PROVE  /\ AreLists(Kept(list, places))
           /\ Len(Kept(list, places)) = Len(list) /\ DOMAIN Kept(list, places) = DOMAIN list
           /\ \A i \in DOMAIN list :
                  /\ i \in places => Kept(list, places)[i] = << list[i] >>
                  /\ i \notin places => Kept(list, places)[i] = << >>
                  /\ Len(Kept(list, places)[i]) = IF i \in places THEN 1 ELSE 0
<1> DEFINE lists == Kept(list, places)
           n == Len(list)
<1>1. n \in Nat /\ DOMAIN list = 1 .. n
  BY ListDomain
<1>2. /\ lists = [i \in 1 .. n |-> lists[i]] /\ DOMAIN lists = 1 .. n
      /\ \A i \in 1 .. n : /\ i \in places => lists[i] = << list[i] >>
                           /\ i \notin places => lists[i] = << >>
  BY <1>1 DEF Kept
<1> HIDE DEF lists
<1>3. ASSUME NEW i \in 1 .. n
      PROVE  IsList(lists[i]) /\ Len(lists[i]) = IF i \in places THEN 1 ELSE 0
  <2>1. CASE i \in places
    <3>1. lists[i] = << list[i] >>
      BY <1>2, <2>1
    <3> DEFINE x == list[i]
    <3>2. IsList(<< x >>) /\ Len(<< x >>) = 1
      BY OneItem
    <3> QED
      BY <2>1, <3>1, <3>2
  <2>2. CASE i \notin places
    <3>1. lists[i] = << >>
      BY <1>2, <2>2
    <3> QED
      BY <2>2, <3>1, EmptyList
  <2> QED
    BY <2>1, <2>2
<1>4. AreLists(lists) /\ Len(lists) = n
  BY <1>1, <1>2, <1>3, ListsOf
<1> QED
  BY <1>1, <1>2, <1>3, <1>4 DEF lists

LEMMA KeptTogether ==
    ASSUME NEW list, IsList(list), NEW other, IsList(other), Len(list) = Len(other), NEW places
    PROVE  /\ IsList(FlattenSeq(Kept(list, places))) /\ IsList(FlattenSeq(Kept(other, places)))
           /\ Len(FlattenSeq(Kept(list, places))) = Len(FlattenSeq(Kept(other, places)))
           /\ \A j \in DOMAIN FlattenSeq(Kept(list, places)) :
                  \E i \in DOMAIN list \cap places :
                      /\ FlattenSeq(Kept(list, places))[j] = list[i]
                      /\ FlattenSeq(Kept(other, places))[j] = other[i]
<1> DEFINE w == Kept(list, places)
           a == Kept(other, places)
<1>1. DOMAIN list = DOMAIN other
  BY ListDomain
<1>2. /\ AreLists(w) /\ Len(w) = Len(list) /\ DOMAIN w = DOMAIN list
      /\ AreLists(a) /\ Len(a) = Len(list) /\ DOMAIN a = DOMAIN list
  BY <1>1, KeptLists
<1>3. \A i \in DOMAIN list :
          /\ i \in places => w[i] = << list[i] >> /\ a[i] = << other[i] >>
          /\ Len(w[i]) = IF i \in places THEN 1 ELSE 0
          /\ Len(a[i]) = IF i \in places THEN 1 ELSE 0
  BY <1>1, KeptLists
<1> HIDE DEF w, a
<1>4. /\ IsList(FlattenSeq(w)) /\ IsList(FlattenSeq(a))
      /\ Len(FlattenSeq(w)) = Len(FlattenSeq(a))
      /\ \A i \in DOMAIN list : Before(w, i) = Before(a, i)
  <2>1. \A i \in DOMAIN a : Len(w[i]) = Len(a[i])
    BY <1>2, <1>3
  <2> QED
    BY <1>2, <2>1, SameShape, FlatList
<1>5. ASSUME NEW j \in DOMAIN FlattenSeq(w)
      PROVE  \E i \in DOMAIN list \cap places :
                 FlattenSeq(w)[j] = list[i] /\ FlattenSeq(a)[j] = other[i]
  <2>1. PICK i \in DOMAIN w : \E k \in DOMAIN w[i] :
            j = Before(w, i) + k /\ FlattenSeq(w)[j] = w[i][k]
    BY <1>2, FlatOrigin
  <2>2. PICK k \in DOMAIN w[i] : j = Before(w, i) + k /\ FlattenSeq(w)[j] = w[i][k]
    BY <2>1
  <2>3. i \in DOMAIN list /\ i \in DOMAIN a /\ IsList(w[i]) /\ IsList(a[i])
    BY <1>2 DEF AreLists
  <2>4. DOMAIN w[i] = 1 .. Len(w[i]) /\ DOMAIN a[i] = 1 .. Len(a[i])
    BY <2>3, ListDomain
  <2>5. i \in places
    <3>1. i \notin places => DOMAIN w[i] = {}
      BY <1>3, <2>3, <2>4
    <3> QED
      BY <2>2, <3>1
  <2>6. k = 1 /\ 1 \in DOMAIN a[i]
    BY <1>3, <2>2, <2>3, <2>4, <2>5
  <2>7. FlattenSeq(a)[Before(a, i) + 1] = a[i][1]
    BY <1>2, <2>3, <2>6, FlatItem
  <2>8. FlattenSeq(a)[j] = a[i][1] /\ FlattenSeq(w)[j] = w[i][1]
    BY <1>4, <2>2, <2>3, <2>6, <2>7
  <2>9. w[i] = << list[i] >> /\ a[i] = << other[i] >>
    BY <1>3, <2>3, <2>5
  <2> QED
    BY <2>3, <2>5, <2>8, <2>9
<1> QED
  BY <1>4, <1>5 DEF w, a

StepPlaces(nodes) == { i \in DOMAIN nodes : nodes[i].name = "step" }

CommandsOf(steps) == [i \in DOMAIN steps |-> steps[i].command]

LEMMA CommandsDeclared ==
    ASSUME NEW job, NEW nodes, nodes = job.nodes,
           NEW steps, steps = FlattenSeq(Kept(nodes, StepPlaces(nodes)))
    PROVE  Commands(job) = [i \in DOMAIN steps |-> steps[i].args[1]]
<1> DEFINE lists == [i \in DOMAIN nodes |-> IF nodes[i].name = "step" THEN << nodes[i] >> ELSE << >>]
           found == FlattenSeq(lists)
<1>1. lists = Kept(nodes, StepPlaces(nodes))
  BY DEF Kept, StepPlaces
<1>2. Commands(job) = [i \in DOMAIN found |-> found[i].args[1]]
  BY DEF Commands, Only
<1> HIDE DEF lists
<1> QED
  BY <1>1, <1>2

\* What is kept of a job: its name and the commands of its steps, in order.
JobOf(decl, node) ==
    /\ decl.name = node.args[1]
    /\ IsList(decl.steps)
    /\ CommandsOf(decl.steps) = Commands(node)

LEMMA StepsKept ==
    ASSUME NEW job, NEW nodes, nodes = job.nodes, IsList(nodes),
           NEW decls, IsList(decls), Len(decls) = Len(nodes),
           \A i \in DOMAIN nodes :
               IF nodes[i].name = "step" THEN IsStepOf(decls[i], nodes[i])
               ELSE decls[i].type # "user",
           NEW steps, steps = FlattenSeq([i \in DOMAIN decls |->
                                  IF decls[i].type = "user" THEN << decls[i] >> ELSE << >>])
    PROVE  IsList(steps) /\ CommandsOf(steps) = Commands(job)
<1> DEFINE places == StepPlaces(nodes)
           declared == FlattenSeq(Kept(nodes, places))
<1>1. DOMAIN decls = DOMAIN nodes
  BY ListDomain
<1>2. \A i \in DOMAIN nodes : decls[i].type = "user" <=> i \in places
  BY DEF StepPlaces, IsStepOf
<1>3. [i \in DOMAIN decls |-> IF decls[i].type = "user" THEN << decls[i] >> ELSE << >>]
          = Kept(decls, places)
  <2> HIDE DEF places
  <2> QED
    BY <1>1, <1>2 DEF Kept
<1>4. \A i \in places : decls[i].command = nodes[i].args[1]
  BY DEF StepPlaces, IsStepOf
<1>5. Commands(job) = [j \in DOMAIN declared |-> declared[j].args[1]]
  BY CommandsDeclared
<1> HIDE DEF places, declared
<1>6. steps = FlattenSeq(Kept(decls, places))
  BY <1>3
<1>7. /\ IsList(steps) /\ IsList(declared) /\ Len(steps) = Len(declared)
      /\ \A j \in DOMAIN steps :
             \E i \in DOMAIN decls \cap places : steps[j] = decls[i] /\ declared[j] = nodes[i]
  <2>1. /\ IsList(FlattenSeq(Kept(decls, places))) /\ IsList(FlattenSeq(Kept(nodes, places)))
        /\ Len(FlattenSeq(Kept(decls, places))) = Len(FlattenSeq(Kept(nodes, places)))
        /\ \A j \in DOMAIN FlattenSeq(Kept(decls, places)) :
               \E i \in DOMAIN decls \cap places :
                   /\ FlattenSeq(Kept(decls, places))[j] = decls[i]
                   /\ FlattenSeq(Kept(nodes, places))[j] = nodes[i]
    BY KeptTogether
  <2> QED
    BY <1>6, <2>1 DEF declared
<1>8. DOMAIN steps = DOMAIN declared
  BY <1>7, ListDomain
<1>9. \A j \in DOMAIN steps : steps[j].command = declared[j].args[1]
  BY <1>4, <1>7
<1> QED
  BY <1>5, <1>7, <1>8, <1>9 DEF CommandsOf

\* A union of sets of errors is empty only if each of them is.
LEMMA NoneInAny ==
    ASSUME NEW parsed, Errors(parsed) = {}
    PROVE  \A i \in DOMAIN parsed : parsed[i].errors = {}
BY DEF Errors

LEMMA JobKept ==
    ASSUME NEW node, IsNode(node), AreNodes(node.nodes), NEW at, ParseJob(node, at).errors = {}
    PROVE  One(ParseJob(node, at).decls) /\ JobOf(ParseJob(node, at).decls[1], node)
<1> DEFINE nodes == node.nodes
           parsed == ParseAll(nodes, at, ParseJobChild)
           decls == Decls(parsed)
           needs == FlattenSeq([i \in DOMAIN decls |->
                        IF decls[i].type = "needs" THEN << decls[i] >> ELSE << >>])
           steps == FlattenSeq([i \in DOMAIN decls |->
                        IF decls[i].type = "user" THEN << decls[i] >> ELSE << >>])
           result == ParseName(node, at)
           job == [name |-> result.attrs.name, needs |-> needs, steps |-> steps]
<1>1. /\ node.block
      /\ ParseJob(node, at).errors = result.errors \cup Errors(parsed)
      /\ ParseJob(node, at).decls = IF result.ok THEN << job >> ELSE << >>
  <2>1. node.block
    BY DEF ParseJob, Nothing
  <2> QED
    BY <2>1 DEF ParseJob, Declare, Only
<1>2. result.ok
  BY <1>1, AttributesOk DEF ParseName
<1>3. /\ IsList(nodes) /\ \A i \in DOMAIN nodes : IsNode(nodes[i])
  BY DEF IsNode, AreNodes
<1>4. /\ parsed = [i \in DOMAIN nodes |-> parsed[i]]
      /\ \A i \in DOMAIN nodes : parsed[i] = ParseJobChild(nodes[i], Append(at, i))
  BY DEF ParseAll
<1>5. \A i \in DOMAIN nodes : parsed[i].errors = {}
  <2>1. Errors(parsed) = {} /\ DOMAIN parsed = DOMAIN nodes
    BY <1>1, <1>4
  <2> HIDE DEF parsed
  <2> QED
    BY <2>1, NoneInAny
<1>6. job.name = NameOf(node) /\ job.steps = steps
  BY <1>2, NameRead
<1> HIDE DEF parsed, job, steps, result
<1>7. ASSUME NEW i \in DOMAIN nodes
      PROVE  /\ One(parsed[i].decls)
             /\ IF nodes[i].name = "step" THEN IsStepOf(parsed[i].decls[1], nodes[i])
                ELSE parsed[i].decls[1].type # "user"
  <2> DEFINE child == nodes[i]
             place == Append(at, i)
  <2>1. IsNode(child) /\ parsed[i] = ParseJobChild(child, place) /\ parsed[i].errors = {}
    BY <1>3, <1>4, <1>5
  <2> HIDE DEF child, place
  <2> QED
    BY <2>1, JobChildKept DEF child
<1>8. /\ IsList(decls) /\ Len(decls) = Len(nodes)
      /\ \A i \in DOMAIN nodes : decls[i] = parsed[i].decls[1]
  <2>1. \A i \in DOMAIN nodes : One(parsed[i].decls)
    BY <1>7
  <2> HIDE DEF nodes
  <2> QED
    BY <1>3, <1>4, <2>1, DeclsOfEach
<1>9. \A i \in DOMAIN nodes :
          IF nodes[i].name = "step" THEN IsStepOf(decls[i], nodes[i]) ELSE decls[i].type # "user"
  BY <1>7, <1>8
<1> HIDE DEF decls
<1>10. IsList(steps) /\ CommandsOf(steps) = Commands(node)
  BY <1>3, <1>8, <1>9, StepsKept DEF steps
<1>11. ParseJob(node, at).decls = << job >>
  BY <1>1, <1>2
<1>12. JobOf(job, node)
  BY <1>6, <1>10 DEF JobOf, NameOf
<1> QED
  BY <1>11, <1>12, OneDecl

\* The nodes of a block, and those of each of them.
LEMMA NodesOfTree ==
    ASSUME NEW node, IsTree(node)
    PROVE  /\ IsNode(node) /\ AreNodes(node.nodes)
           /\ \A i \in DOMAIN node.nodes : AreNodes(node.nodes[i].nodes)
BY DEF IsTree, IsNode, IsList, AreNodes

LEMMA NoRepeats ==
    ASSUME NEW parsed, NEW n \in Nat, DOMAIN parsed = 1 .. n, NEW at, Repeated(parsed, at) = {},
           NEW i \in DOMAIN parsed, NEW x \in DOMAIN parsed[i].decls,
           NEW l \in DOMAIN parsed, NEW y \in DOMAIN parsed[l].decls,
           parsed[i].decls[x].name = parsed[l].decls[y].name
    PROVE  i = l
<1>1. ASSUME NEW a \in DOMAIN parsed, NEW b \in DOMAIN parsed, a < b,
             NEW d \in ToSet(parsed[a].decls), NEW e \in ToSet(parsed[b].decls), d.name = e.name
      PROVE  FALSE
  <2>1. a \in 1 .. b - 1
    BY <1>1
  <2>2. Err(Append(at, b), "duplicate name") \in Repeated(parsed, at)
    BY <1>1, <2>1 DEF Repeated
  <2> QED
    BY <2>2
<1>2. parsed[i].decls[x] \in ToSet(parsed[i].decls) /\ parsed[l].decls[y] \in ToSet(parsed[l].decls)
  BY DEF ToSet
<1>3. ~(i < l) /\ ~(l < i)
  BY <1>1, <1>2
<1> QED
  BY <1>3

\* What is kept of a stage: its jobs, which have their names to themselves.
HoldsJobs(decl, nodes) ==
    /\ IsList(decl.jobs) /\ Len(decl.jobs) = Len(nodes)
    /\ UniqueNames(decl.jobs)
    /\ \A k \in DOMAIN decl.jobs : JobOf(decl.jobs[k], nodes[k])

LEMMA StageChildKept ==
    ASSUME NEW node, IsNode(node), AreNodes(node.nodes), NEW at,
           ParseStageChild(node, at).errors = {}
    PROVE  One(ParseStageChild(node, at).decls) /\ JobOf(ParseStageChild(node, at).decls[1], node)
<1>1. node.name = "job"
  BY DEF ParseStageChild, Nothing
<1>2. ParseStageChild(node, at) = ParseJob(node, at)
  BY <1>1 DEF ParseStageChild
<1> QED
  BY <1>2, JobKept

LEMMA StageKept ==
    ASSUME NEW node, IsNode(node), AreNodes(node.nodes),
           \A i \in DOMAIN node.nodes : AreNodes(node.nodes[i].nodes),
           NEW at, ParseStage(node, at).errors = {}
    PROVE  One(ParseStage(node, at).decls) /\ HoldsJobs(ParseStage(node, at).decls[1], node.nodes)
<1> DEFINE nodes == node.nodes
           parsed == ParseAll(nodes, at, ParseStageChild)
           jobs == Decls(parsed)
           result == ParseName(node, at)
           stage == [name |-> result.attrs.name, jobs |-> jobs]
<1>1. /\ node.block
      /\ ParseStage(node, at).errors = result.errors \cup (Errors(parsed) \cup Repeated(parsed, at))
      /\ ParseStage(node, at).decls = IF result.ok THEN << stage >> ELSE << >>
  <2>1. node.block
    BY DEF ParseStage, Nothing
  <2> QED
    BY <2>1 DEF ParseStage, Declare
<1>2. result.ok
  BY <1>1, AttributesOk DEF ParseName
<1>3. /\ IsList(nodes) /\ Len(nodes) \in Nat /\ DOMAIN nodes = 1 .. Len(nodes)
      /\ \A i \in DOMAIN nodes : IsNode(nodes[i]) /\ AreNodes(nodes[i].nodes)
  BY DEF IsNode, AreNodes
<1>4. /\ parsed = [i \in DOMAIN nodes |-> parsed[i]]
      /\ \A i \in DOMAIN nodes : parsed[i] = ParseStageChild(nodes[i], Append(at, i))
  BY DEF ParseAll
<1>5. \A i \in DOMAIN nodes : parsed[i].errors = {}
  <2>1. Errors(parsed) = {} /\ DOMAIN parsed = DOMAIN nodes
    BY <1>1, <1>4
  <2> HIDE DEF parsed
  <2> QED
    BY <2>1, NoneInAny
<1>6. stage.jobs = jobs
  OBVIOUS
<1>7. Repeated(parsed, at) = {}
  BY <1>1
<1> HIDE DEF nodes, parsed, stage, result
<1>8. ASSUME NEW i \in DOMAIN nodes
      PROVE  One(parsed[i].decls) /\ JobOf(parsed[i].decls[1], nodes[i])
  <2> DEFINE child == nodes[i]
             place == Append(at, i)
  <2>1. /\ IsNode(child) /\ AreNodes(child.nodes)
        /\ parsed[i] = ParseStageChild(child, place) /\ parsed[i].errors = {}
    BY <1>3, <1>4, <1>5
  <2> HIDE DEF child, place
  <2> QED
    BY <2>1, StageChildKept DEF child
<1>9. /\ IsList(jobs) /\ Len(jobs) = Len(nodes)
      /\ \A i \in DOMAIN nodes : jobs[i] = parsed[i].decls[1]
  <2>1. \A i \in DOMAIN nodes : One(parsed[i].decls)
    BY <1>8
  <2>2. IsList(nodes) /\ parsed = [i \in DOMAIN nodes |-> parsed[i]]
    BY <1>3, <1>4
  <2>3. /\ IsList(Decls(parsed)) /\ Len(Decls(parsed)) = Len(nodes)
        /\ \A i \in DOMAIN nodes : Decls(parsed)[i] = parsed[i].decls[1]
    BY <2>1, <2>2, DeclsOfEach
  <2> QED
    BY <2>3
<1>10. DOMAIN jobs = DOMAIN nodes
  BY <1>3, <1>9, ListDomain
<1> HIDE DEF jobs
<1>11. UniqueNames(jobs)
  <2> SUFFICES ASSUME NEW i \in DOMAIN jobs, NEW k \in DOMAIN jobs, jobs[i].name = jobs[k].name
               PROVE  i = k
    BY DEF UniqueNames
  <2>1. DOMAIN parsed = 1 .. Len(nodes)
    BY <1>3, <1>4
  <2>2. 1 \in DOMAIN parsed[i].decls /\ 1 \in DOMAIN parsed[k].decls
    BY <1>8, <1>10, ListDomain DEF One
  <2>3. parsed[i].decls[1].name = parsed[k].decls[1].name
    BY <1>9, <1>10
  <2>4. i \in DOMAIN parsed /\ k \in DOMAIN parsed
    BY <1>3, <1>10, <2>1
  <2> QED
    BY <1>3, <1>7, <2>1, <2>2, <2>3, <2>4, NoRepeats
<1>12. HoldsJobs(stage, nodes)
  BY <1>6, <1>8, <1>9, <1>10, <1>11 DEF HoldsJobs
<1>13. ParseStage(node, at).decls = << stage >>
  BY <1>1, <1>2
<1> QED
  BY <1>12, <1>13, OneDecl DEF nodes

\* The jobs that a node below the header declares.
DeclaredIn(node) ==
    CASE node.name = "job" -> << node >>
      [] node.name = "stage" -> node.nodes
      [] OTHER -> << >>

DeclaresJobs(node) == node.name \in { "stage", "job" }

LEMMA WrappedKept ==
    ASSUME NEW parsed, One(parsed.decls), NEW node, JobOf(parsed.decls[1], node)
    PROVE  One(Wrapped(parsed).decls) /\ HoldsJobs(Wrapped(parsed).decls[1], << node >>)
<1> DEFINE d == parsed.decls[1]
           jobs == << d >>
           stage == [name |-> d.name, jobs |-> jobs]
<1>1. DOMAIN parsed.decls = { 1 }
  BY ListDomain DEF One
<1>2. Wrapped(parsed).decls = [i \in { 1 } |-> [name |-> parsed.decls[i].name, jobs |-> << parsed.decls[i] >>]]
  BY <1>1 DEF Wrapped
<1>3. Wrapped(parsed).decls = << stage >>
  BY <1>2
<1>4. stage.jobs = << d >>
  OBVIOUS
<1> HIDE DEF stage, d
<1>5. IsList(jobs) /\ Len(jobs) = 1 /\ jobs[1] = d /\ DOMAIN jobs = { 1 }
  BY OneItem
<1>6. Len(<< node >>) = 1 /\ << node >>[1] = node
  BY OneItem
<1> HIDE DEF jobs
<1>7. UniqueNames(jobs)
  BY <1>5 DEF UniqueNames
<1>8. stage.jobs = jobs /\ JobOf(d, node)
  BY <1>4 DEF jobs, d
<1>9. HoldsJobs(stage, << node >>)
  BY <1>5, <1>6, <1>7, <1>8 DEF HoldsJobs
<1> QED
  BY <1>3, <1>9, OneDecl

LEMMA TopKept ==
    ASSUME NEW node, IsTree(node), NEW at, ParseTopLevel(node, at).errors = {}
    PROVE  IF DeclaresJobs(node)
           THEN /\ One(ParseTopLevel(node, at).decls)
                /\ HoldsJobs(ParseTopLevel(node, at).decls[1], DeclaredIn(node))
           ELSE ParseTopLevel(node, at).decls = << >> /\ DeclaredIn(node) = << >>
<1>1. CASE node.name = "use"
  <2>1. ParseTopLevel(node, at).decls = << >>
    BY <1>1 DEF ParseTopLevel, ParseUseBlock
  <2> QED
    BY <1>1, <2>1 DEF DeclaresJobs, DeclaredIn
<1>2. CASE node.name = "stage"
  <2>1. /\ ParseTopLevel(node, at).decls = ParseStage(node, at).decls
        /\ ParseTopLevel(node, at).errors = ParseStage(node, at).errors
    BY <1>2 DEF ParseTopLevel, NoUses
  <2>2. DeclaredIn(node) = node.nodes /\ DeclaresJobs(node)
    BY <1>2 DEF DeclaresJobs, DeclaredIn
  <2>3. One(ParseStage(node, at).decls) /\ HoldsJobs(ParseStage(node, at).decls[1], node.nodes)
    BY <2>1, NodesOfTree, StageKept
  <2> QED
    BY <2>1, <2>2, <2>3
<1>3. CASE node.name = "job"
  <2> DEFINE job == ParseJob(node, at)
  <2>1. /\ ParseTopLevel(node, at).decls = Wrapped(job).decls
        /\ ParseTopLevel(node, at).errors = job.errors
    BY <1>3 DEF ParseTopLevel, NoUses, Wrapped
  <2>2. DeclaredIn(node) = << node >> /\ DeclaresJobs(node)
    BY <1>3 DEF DeclaresJobs, DeclaredIn
  <2>3. One(job.decls) /\ JobOf(job.decls[1], node)
    BY <2>1, NodesOfTree, JobKept
  <2> HIDE DEF job
  <2>4. One(Wrapped(job).decls) /\ HoldsJobs(Wrapped(job).decls[1], << node >>)
    BY <2>3, WrappedKept
  <2> QED
    BY <2>1, <2>2, <2>4
<1>4. CASE node.name \notin { "use", "stage", "job" }
  BY <1>4 DEF ParseTopLevel, NoUses, Nothing
<1> QED
  BY <1>1, <1>2, <1>3, <1>4

\* The jobs of the stages of a file without errors, and those its text declares: what
\* is at one place in the one list is at that place in the other.
JobsInText(stages, declared) ==
    /\ AreNamedStages(stages)
    /\ IsList(declared)
    /\ Len(FlattenSeq(JobLists(stages))) = Len(declared)
    /\ \A s \in DOMAIN stages : \A k \in DOMAIN stages[s].jobs :
           /\ k + Before(JobLists(stages), s) \in DOMAIN declared
           /\ JobOf(stages[s].jobs[k], declared[k + Before(JobLists(stages), s)])

LEMMA TopDecls ==
    ASSUME NEW nodes, IsList(nodes), \A i \in DOMAIN nodes : IsTree(nodes[i]),
           NEW parsed, parsed = ParseAll(nodes, << >>, ParseTopLevel), Errors(parsed) = {},
           NEW lists, lists = [i \in DOMAIN parsed |-> parsed[i].decls]
    PROVE  /\ AreLists(lists) /\ Len(lists) = Len(nodes) /\ DOMAIN lists = DOMAIN nodes
           /\ Decls(parsed) = FlattenSeq(lists)
           /\ \A i \in DOMAIN nodes :
                  /\ lists[i] = parsed[i].decls
                  /\ DeclaresJobs(nodes[i]) =>
                         One(lists[i]) /\ HoldsJobs(lists[i][1], DeclaredIn(nodes[i]))
                  /\ ~DeclaresJobs(nodes[i]) => lists[i] = << >> /\ DeclaredIn(nodes[i]) = << >>
<1> DEFINE n == Len(nodes)
<1>1. n \in Nat /\ DOMAIN nodes = 1 .. n
  BY ListDomain
<1>2. DOMAIN parsed = 1 .. n /\ \A i \in 1 .. n : parsed[i] = ParseTopLevel(nodes[i], Append(<< >>, i))
  BY <1>1 DEF ParseAll
<1>3. \A i \in 1 .. n : parsed[i].errors = {}
  BY <1>2, NoneInAny
<1>4. Decls(parsed) = FlattenSeq(lists)
  BY DEF Decls
<1>5. /\ lists = [i \in 1 .. n |-> lists[i]] /\ DOMAIN lists = 1 .. n
      /\ \A i \in 1 .. n : lists[i] = parsed[i].decls
  BY <1>2
<1>6. ASSUME NEW i \in 1 .. n
      PROVE  /\ DeclaresJobs(nodes[i]) =>
                    One(lists[i]) /\ HoldsJobs(lists[i][1], DeclaredIn(nodes[i]))
             /\ ~DeclaresJobs(nodes[i]) => lists[i] = << >> /\ DeclaredIn(nodes[i]) = << >>
             /\ IsList(lists[i])
  <2> DEFINE node == nodes[i]
             at == Append(<< >>, i)
  <2>1. /\ IsTree(node) /\ ParseTopLevel(node, at).errors = {}
        /\ lists[i] = ParseTopLevel(node, at).decls
    BY <1>1, <1>2, <1>3, <1>5
  <2> HIDE DEF node, at
  <2>2. /\ DeclaresJobs(node) => One(lists[i]) /\ HoldsJobs(lists[i][1], DeclaredIn(node))
        /\ ~DeclaresJobs(node) => lists[i] = << >> /\ DeclaredIn(node) = << >>
    BY <2>1, TopKept
  <2>3. IsList(lists[i])
    BY <2>2, EmptyList DEF One
  <2> QED
    <3>1. node = nodes[i]
      BY DEF node
    <3> QED
      BY <2>2, <2>3, <3>1
<1>7. AreLists(lists) /\ Len(lists) = n
  BY <1>1, <1>5, <1>6, ListsOf
<1> QED
  BY <1>1, <1>4, <1>5, <1>6, <1>7

LEMMA FileKept ==
    ASSUME NEW nodes, IsList(nodes), \A i \in DOMAIN nodes : IsTree(nodes[i]),
           NEW parsed, parsed = ParseAll(nodes, << >>, ParseTopLevel),
           Errors(parsed) = {}, Repeated(parsed, << >>) = {},
           NEW stages, stages = Decls(parsed)
    PROVE  /\ JobsInText(stages, JobNodes(nodes))
           /\ stages # << >> <=> \E i \in DOMAIN nodes : DeclaresJobs(nodes[i])
<1> DEFINE n == Len(nodes)
           c == [i \in DOMAIN parsed |-> parsed[i].decls]
           a == [i \in DOMAIN nodes |-> DeclaredIn(nodes[i])]
           w == JobLists(stages)
<1>1. n \in Nat /\ DOMAIN nodes = 1 .. n
  BY ListDomain
<1>2. DOMAIN parsed = 1 .. n
  BY <1>1 DEF ParseAll
<1>3. /\ AreLists(c) /\ Len(c) = n /\ DOMAIN c = 1 .. n
      /\ stages = FlattenSeq(c)
      /\ \A i \in 1 .. n : c[i] = parsed[i].decls
  <2> HIDE DEF c
  <2>1. c = [i \in DOMAIN parsed |-> parsed[i].decls]
    BY DEF c
  <2> QED
    BY <1>1, <2>1, TopDecls
<1>4. \A i \in 1 .. n :
          /\ DeclaresJobs(nodes[i]) => One(c[i]) /\ HoldsJobs(c[i][1], DeclaredIn(nodes[i]))
          /\ ~DeclaresJobs(nodes[i]) => c[i] = << >> /\ DeclaredIn(nodes[i]) = << >>
  <2> HIDE DEF c
  <2>1. c = [i \in DOMAIN parsed |-> parsed[i].decls]
    BY DEF c
  <2> QED
    BY <1>1, <2>1, TopDecls
<1>5. /\ a = [i \in 1 .. n |-> a[i]] /\ DOMAIN a = 1 .. n
      /\ \A i \in 1 .. n : a[i] = DeclaredIn(nodes[i])
  BY <1>1
<1>6. JobNodes(nodes) = FlattenSeq(a)
  BY DEF JobNodes, DeclaredIn
<1> HIDE DEF c, a, w
<1>7. \A i \in 1 .. n : IsList(a[i])
  <2> SUFFICES ASSUME NEW i \in 1 .. n PROVE IsList(DeclaredIn(nodes[i]))
    BY <1>5
  <2> DEFINE node == nodes[i]
  <2>1. IsTree(node)
    BY <1>1
  <2> HIDE DEF node
  <2>2. IsList(node.nodes)
    BY <2>1 DEF IsTree, IsNode
  <2>3. IsList(<< node >>) /\ IsList(<< >>)
    BY OneItem, EmptyList
  <2>4. DeclaredIn(node) \in { << node >>, node.nodes, << >> }
    BY DEF DeclaredIn
  <2> QED
    BY <2>2, <2>3, <2>4 DEF node
<1>8. AreLists(a) /\ Len(a) = n
  BY <1>1, <1>5, <1>7, ListsOf
\* Which stage a node has become, and its jobs.
<1>9. ASSUME NEW i \in 1 .. n, DeclaresJobs(nodes[i])
      PROVE  /\ Before(c, i) + 1 \in DOMAIN stages
             /\ stages[Before(c, i) + 1] = c[i][1]
             /\ Len(c[i]) = 1 /\ HoldsJobs(c[i][1], a[i])
  <2>1. One(c[i]) /\ HoldsJobs(c[i][1], a[i])
    BY <1>4, <1>5, <1>9
  <2>2. Len(c[i]) = 1 /\ 1 \in DOMAIN c[i] /\ i \in DOMAIN c
    BY <1>3, <2>1, ListDomain DEF One
  <2>3. Before(c, i) + 1 \in DOMAIN FlattenSeq(c) /\ FlattenSeq(c)[Before(c, i) + 1] = c[i][1]
    BY <1>3, <2>2, FlatItem
  <2> QED
    BY <1>3, <2>1, <2>2, <2>3
<1>10. ASSUME NEW s \in DOMAIN stages
       PROVE  \E i \in 1 .. n : DeclaresJobs(nodes[i]) /\ s = Before(c, i) + 1
  <2>1. PICK i \in DOMAIN c : \E k \in DOMAIN c[i] :
                 s = Before(c, i) + k /\ FlattenSeq(c)[s] = c[i][k]
    BY <1>3, FlatOrigin
  <2>2. PICK k \in DOMAIN c[i] : s = Before(c, i) + k
    BY <2>1
  <2>3. DeclaresJobs(nodes[i])
    <3> SUFFICES ASSUME ~DeclaresJobs(nodes[i]) PROVE FALSE
      OBVIOUS
    <3>1. c[i] = << >>
      BY <1>3, <1>4
    <3>2. DOMAIN c[i] = {}
      BY <3>1
    <3> QED
      BY <3>2
  <2>4. k = 1
    BY <1>3, <1>9, <2>3, ListDomain DEF AreLists
  <2> QED
    BY <1>3, <2>2, <2>3, <2>4
<1>11. /\ IsList(stages) /\ Len(stages) \in Nat /\ DOMAIN stages = 1 .. Len(stages)
  BY <1>3, FlatList, ListDomain
<1>12. ASSUME NEW s \in DOMAIN stages
       PROVE  IsList(stages[s].jobs) /\ UniqueNames(stages[s].jobs)
  BY <1>9, <1>10 DEF HoldsJobs
<1>13. UniqueNames(stages)
  <2> SUFFICES ASSUME NEW s \in DOMAIN stages, NEW t \in DOMAIN stages, stages[s].name = stages[t].name
               PROVE  s = t
    BY DEF UniqueNames
  <2>1. PICK i \in 1 .. n : DeclaresJobs(nodes[i]) /\ s = Before(c, i) + 1
    BY <1>10
  <2>2. PICK l \in 1 .. n : DeclaresJobs(nodes[l]) /\ t = Before(c, l) + 1
    BY <1>10
  <2>3. c[i][1].name = c[l][1].name
    BY <1>9, <2>1, <2>2
  <2>4. /\ 1 \in DOMAIN parsed[i].decls /\ 1 \in DOMAIN parsed[l].decls
        /\ parsed[i].decls[1].name = parsed[l].decls[1].name
    <3>1. One(c[i]) /\ One(c[l])
      BY <1>4, <2>1, <2>2
    <3>2. 1 \in DOMAIN c[i] /\ 1 \in DOMAIN c[l]
      BY <3>1, ListDomain DEF One
    <3> QED
      BY <1>3, <2>3, <3>2
  <2>5. i = l
    <3>1. i \in DOMAIN parsed /\ l \in DOMAIN parsed
      BY <1>2
    <3> DEFINE at == << >>
    <3>2. Repeated(parsed, at) = {}
      OBVIOUS
    <3> HIDE DEF at
    <3> QED
      BY <1>1, <1>2, <2>4, <3>1, <3>2, NoRepeats
  <2> QED
    BY <2>1, <2>2, <2>5
<1>14. AreNamedStages(stages) /\ AreStages(stages)
  BY <1>11, <1>12, <1>13 DEF AreNamedStages, AreStages
<1>15. /\ AreLists(w) /\ Len(w) = Len(stages) /\ DOMAIN w = DOMAIN stages
       /\ \A s \in DOMAIN stages : w[s] = stages[s].jobs
  BY <1>14, JobListsAreLists DEF w
<1>16. /\ Len(FlattenSeq(w)) = Len(FlattenSeq(a))
       /\ \A i \in DOMAIN c : Len(c[i]) = 1 => Before(w, Before(c, i) + 1) = Before(a, i)
  <2>1. ASSUME NEW i \in DOMAIN c
        PROVE  \/ Len(c[i]) = 0 /\ Len(a[i]) = 0
               \/ Len(c[i]) = 1 /\ Len(w[Before(c, i) + 1]) = Len(a[i])
    <3>1. CASE DeclaresJobs(nodes[i])
      BY <1>3, <1>9, <1>15, <3>1 DEF HoldsJobs
    <3>2. CASE ~DeclaresJobs(nodes[i])
      <4>1. c[i] = << >> /\ a[i] = << >>
        BY <1>3, <1>4, <1>5, <3>2
      <4> QED
        BY <4>1, EmptyList
    <3> QED
      BY <3>1, <3>2
  <2>2. Len(a) = Len(c) /\ Len(w) = Len(FlattenSeq(c))
    BY <1>3, <1>8, <1>15
  <2> QED
    <3>1. AreLists(c) /\ AreLists(w) /\ AreLists(a)
      BY <1>3, <1>8, <1>15
    <3>2. InStep(c, w, a)
      BY <2>1, <2>2, <3>1 DEF InStep
    <3> QED
      BY <3>2, FlatInStep
<1>17. ASSUME NEW s \in DOMAIN stages, NEW k \in DOMAIN stages[s].jobs
       PROVE  /\ k + Before(w, s) \in DOMAIN FlattenSeq(a)
              /\ JobOf(stages[s].jobs[k], FlattenSeq(a)[k + Before(w, s)])
  <2>1. PICK i \in 1 .. n : DeclaresJobs(nodes[i]) /\ s = Before(c, i) + 1
    BY <1>10
  <2>2. /\ stages[s] = c[i][1] /\ HoldsJobs(stages[s], a[i]) /\ Before(w, s) = Before(a, i)
    BY <1>3, <1>9, <1>16, <2>1
  <2>3. k \in DOMAIN a[i] /\ JobOf(stages[s].jobs[k], a[i][k])
    <3>1. IsList(stages[s].jobs) /\ IsList(a[i]) /\ Len(stages[s].jobs) = Len(a[i])
      BY <1>7, <2>2 DEF HoldsJobs
    <3>2. DOMAIN stages[s].jobs = DOMAIN a[i]
      BY <3>1, ListDomain
    <3> QED
      BY <2>2, <3>2 DEF HoldsJobs
  <2>4. /\ Before(a, i) + k \in DOMAIN FlattenSeq(a)
        /\ FlattenSeq(a)[Before(a, i) + k] = a[i][k]
    BY <1>5, <1>8, <2>3, FlatItem
  <2>5. k + Before(w, s) = Before(a, i) + k
    <3>1. k \in Nat
      BY <1>7, <2>3, ListDomain
    <3>2. Before(a, i) \in Nat
      <4>1. i - 1 \in 0 .. n
        BY <1>1
      <4> QED
        BY <1>8, <4>1, JoinedLists, ListDomain DEF Before
    <3> QED
      BY <2>2, <3>1, <3>2
  <2> QED
    BY <2>3, <2>4, <2>5
<1>18. stages # << >> <=> \E i \in DOMAIN nodes : DeclaresJobs(nodes[i])
  <2>1. stages # << >> => DOMAIN stages # {}
    BY <1>11 DEF IsList
  <2>2. stages = << >> => DOMAIN stages = {}
    OBVIOUS
  <2> QED
    BY <1>1, <1>9, <1>10, <2>1, <2>2
<1> QED
  BY <1>6, <1>8, <1>14, <1>16, <1>17, <1>18, FlatList DEF JobsInText, w

\* The plan of a workflow says of each job what the text does, and has all of them.
PlansText(planned, declared) ==
    /\ IsList(declared)
    /\ \A n \in DOMAIN planned : \A j \in DOMAIN planned[n] :
           /\ planned[n][j].id \in DOMAIN declared
           /\ j = declared[planned[n][j].id].args[1]
           /\ IsList(planned[n][j].steps)
           /\ CommandsOf(planned[n][j].steps) = Commands(declared[planned[n][j].id])
    /\ \A id \in DOMAIN declared :
           \E n \in DOMAIN planned : \E j \in DOMAIN planned[n] : planned[n][j].id = id

LEMMA TextIsPlanned ==
    ASSUME NEW workflow, NEW stages, stages = workflow.stages,
           NEW declared, JobsInText(stages, declared)
    PROVE  PlansText(PlanWorkflow(workflow), declared)
<1> DEFINE planned == PlanWorkflow(workflow)
           w == JobLists(stages)
<1>1. AreNamedStages(stages) /\ AreStages(stages) /\ IsList(declared)
      /\ Len(FlattenSeq(w)) = Len(declared)
  BY DEF JobsInText, AreNamedStages
<1>2. ASSUME NEW s \in DOMAIN stages, NEW k \in DOMAIN stages[s].jobs
      PROVE  /\ stages[s].name \in DOMAIN planned
             /\ stages[s].jobs[k].name \in DOMAIN planned[stages[s].name]
             /\ planned[stages[s].name][stages[s].jobs[k].name]
                    = PlanJob(stages[s].jobs[k], k + Before(w, s))
  <2>1. AreNamedStages(stages)
    BY <1>1
  <2> QED
    BY <2>1, JobIsPlanned
<1> HIDE DEF planned, w
<1>3. ASSUME NEW n \in DOMAIN planned, NEW j \in DOMAIN planned[n]
      PROVE  /\ planned[n][j].id \in DOMAIN declared
             /\ j = declared[planned[n][j].id].args[1]
             /\ IsList(planned[n][j].steps)
             /\ CommandsOf(planned[n][j].steps) = Commands(declared[planned[n][j].id])
  <2>1. PICK s \in DOMAIN stages : \E k \in DOMAIN stages[s].jobs :
                 n = stages[s].name /\ j = stages[s].jobs[k].name
    BY <1>1, PlannedIsJob DEF planned
  <2>2. PICK k \in DOMAIN stages[s].jobs : n = stages[s].name /\ j = stages[s].jobs[k].name
    BY <2>1
  <2> DEFINE job == stages[s].jobs[k]
             id == k + Before(w, s)
  <2>3. planned[n][j] = PlanJob(job, id)
    BY <1>2, <2>2
  <2>4. id \in DOMAIN declared /\ JobOf(job, declared[id])
    BY DEF JobsInText, w
  <2>5. j = job.name
    BY <2>2
  <2> HIDE DEF job, id
  <2>6. planned[n][j].id = id /\ planned[n][j].steps = job.steps
    BY <2>3 DEF PlanJob
  <2> QED
    BY <2>4, <2>5, <2>6 DEF JobOf
<1>4. ASSUME NEW id \in DOMAIN declared
      PROVE  \E n \in DOMAIN planned : \E j \in DOMAIN planned[n] : planned[n][j].id = id
  <2>1. AreLists(w) /\ DOMAIN w = DOMAIN stages /\ \A s \in DOMAIN stages : w[s] = stages[s].jobs
    BY <1>1, JobListsAreLists DEF w
  <2>2. id \in DOMAIN FlattenSeq(w)
    BY <1>1, <2>1, FlatList, ListDomain
  <2>3. PICK s \in DOMAIN w : \E k \in DOMAIN w[s] : id = Before(w, s) + k
    BY <2>1, <2>2, FlatOrigin
  <2>4. PICK k \in DOMAIN w[s] : id = Before(w, s) + k
    BY <2>3
  <2>5. s \in DOMAIN stages /\ k \in DOMAIN stages[s].jobs
    BY <2>1
  <2> DEFINE n == stages[s].name
             j == stages[s].jobs[k].name
  <2>6. n \in DOMAIN planned /\ j \in DOMAIN planned[n]
        /\ planned[n][j] = PlanJob(stages[s].jobs[k], k + Before(w, s))
    BY <1>2, <2>5
  <2>7. k + Before(w, s) = id
    <3>1. k \in Nat
      BY <2>1, ListDomain DEF AreLists
    <3>2. Before(w, s) \in Nat
      <4>1. s - 1 \in 0 .. Len(w)
        BY <2>1 DEF AreLists
      <4> QED
        BY <2>1, <4>1, JoinedLists, ListDomain DEF Before
    <3> QED
      BY <2>4, <3>1, <3>2
  <2> HIDE DEF n, j
  <2>8. planned[n][j].id = id
    BY <2>6, <2>7 DEF PlanJob
  <2> QED
    BY <2>6, <2>8
<1> QED
  BY <1>1, <1>3, <1>4 DEF PlansText, planned

LEMMA TailOf ==
    ASSUME NEW s, IsList(s), s # << >>
    PROVE  /\ IsList(Tail(s))
           /\ Len(s) \in Nat \ { 0 } /\ Len(Tail(s)) = Len(s) - 1
           /\ \A i \in DOMAIN Tail(s) : i + 1 \in DOMAIN s /\ Tail(s)[i] = s[i + 1]
           /\ \A i \in DOMAIN s : i # 1 => i - 1 \in DOMAIN Tail(s)
<1> DEFINE S == { s[i] : i \in 1 .. Len(s) }
           n == Len(s)
<1>1. s \in Seq(S) /\ n \in Nat \ { 0 } /\ DOMAIN s = 1 .. n
  BY DEF IsList
<1> HIDE DEF S
<1>2. Tail(s) \in Seq(S)
  BY <1>1
<1>3. Len(Tail(s)) = n - 1 /\ \A i \in 1 .. n - 1 : Tail(s)[i] = s[i + 1]
  BY <1>1
<1>4. IsList(Tail(s))
  BY <1>2, InSeq
<1>5. DOMAIN Tail(s) = 1 .. n - 1
  BY <1>3, <1>4, ListDomain
<1> HIDE DEF n
<1>6. \A i \in 1 .. n - 1 : i + 1 \in 1 .. n
  BY <1>1
<1>7. \A i \in 1 .. n : i # 1 => i - 1 \in 1 .. n - 1
  BY <1>1
<1> QED
  BY <1>1, <1>3, <1>4, <1>5, <1>6, <1>7 DEF n

StagesOf(file) == Decls(ParseAll(Tail(file.nodes), << >>, ParseTopLevel))

\* A file that breaks nothing is parsed into its stages, and into no workflow if it has
\* none.
LEMMA FileParsed ==
    ASSUME NEW file, IsDocument(file), FaultyPlaces(file) = {}
    PROVE  /\ ParseConfig(file).errors = {}
           /\ ParseConfig(file).workflows
                  = IF StagesOf(file) = << >> THEN << >> ELSE << [stages |-> StagesOf(file)] >>
           /\ Executable(file) <=> StagesOf(file) # << >>
           /\ JobsInText(StagesOf(file), JobNodes(Tail(file.nodes)))
<1> DEFINE nodes == Tail(file.nodes)
           parsed == ParseAll(nodes, << >>, ParseTopLevel)
           stages == StagesOf(file)
           header == ParseHeader(file.nodes)
<1>1. ParseConfig(file).errors = {}
  BY ErrorsAreFaults DEF Places
<1>2. file.isKdl /\ file.nodes # << >>
  BY DEF FaultyPlaces
<1>3. /\ IsList(file.nodes) /\ IsNode(file.nodes[1])
      /\ \A i \in DOMAIN nodes : IsTree(nodes[i])
  BY <1>2 DEF IsDocument
<1>4. ParseConfig(file) = ParseFile(file.nodes)
  BY <1>2 DEF ParseConfig
<1>5. header = {}
  BY <1>1, <1>4 DEF ParseFile
<1>6. /\ ParseConfig(file).errors = Errors(parsed) \cup Repeated(parsed, << >>)
      /\ ParseConfig(file).workflows = IF stages = << >> THEN << >> ELSE << [stages |-> stages] >>
  BY <1>4, <1>5 DEF ParseFile, StagesOf
<1>7. /\ IsList(nodes)
      /\ \A i \in DOMAIN nodes : i + 1 \in DOMAIN file.nodes /\ nodes[i] = file.nodes[i + 1]
      /\ \A i \in DOMAIN file.nodes : i # 1 => i - 1 \in DOMAIN nodes
      /\ DOMAIN file.nodes \subseteq Nat
  BY <1>2, <1>3, TailOf, ListDomain
<1>8. HeaderValid(file.nodes[1])
  BY <1>2, <1>3, <1>5, HeaderParsed
<1>9. ~DeclaresJobs(file.nodes[1])
  BY <1>8 DEF HeaderValid, DeclaresJobs
<1>10. Errors(parsed) = {} /\ Repeated(parsed, << >>) = {}
  BY <1>1, <1>6
<1>11. stages = Decls(parsed)
  BY DEF StagesOf
<1> HIDE DEF stages
<1>12. /\ JobsInText(stages, JobNodes(nodes))
       /\ stages # << >> <=> \E i \in DOMAIN nodes : DeclaresJobs(nodes[i])
  <2> HIDE DEF nodes
  <2> QED
    BY <1>3, <1>7, <1>10, <1>11, FileKept
<1>13. Executable(file) <=> \E i \in DOMAIN file.nodes : DeclaresJobs(file.nodes[i])
  BY DEF Executable, DeclaresJobs
<1> HIDE DEF nodes, parsed
<1>14. (\E i \in DOMAIN file.nodes : DeclaresJobs(file.nodes[i]))
           <=> \E i \in DOMAIN nodes : DeclaresJobs(nodes[i])
  <2>1. ASSUME NEW i \in DOMAIN file.nodes, DeclaresJobs(file.nodes[i])
        PROVE  \E k \in DOMAIN nodes : DeclaresJobs(nodes[k])
    <3>1. i - 1 \in DOMAIN nodes
      BY <1>7, <1>9, <2>1
    <3>2. i - 1 + 1 = i
      BY <1>7
    <3>3. nodes[i - 1] = file.nodes[i]
      BY <1>7, <3>1, <3>2
    <3> QED
      BY <2>1, <3>1, <3>3
  <2>2. ASSUME NEW i \in DOMAIN nodes, DeclaresJobs(nodes[i])
        PROVE  \E k \in DOMAIN file.nodes : DeclaresJobs(file.nodes[k])
    BY <1>7, <2>2
  <2> QED
    BY <2>1, <2>2
<1> QED
  BY <1>1, <1>6, <1>12, <1>13, <1>14 DEF stages, nodes

\* The workflows that are planned of a parsed file.
PlansOf(config) == [v \in DOMAIN config.workflows |-> PlanWorkflow(config.workflows[v])]

LEMMA PlansOfFile ==
    ASSUME NEW file, IsDocument(file), FaultyPlaces(file) = {}
    PROVE  /\ IsList(PlansOf(ParseConfig(file)))
           /\ Len(PlansOf(ParseConfig(file))) = IF Executable(file) THEN 1 ELSE 0
           /\ Executable(file) =>
                  PlansText(PlansOf(ParseConfig(file))[1], JobNodes(Tail(file.nodes)))
<1> DEFINE config == ParseConfig(file)
           stages == StagesOf(file)
           workflow == [stages |-> stages]
<1>1. /\ config.workflows = IF stages = << >> THEN << >> ELSE << workflow >>
      /\ Executable(file) <=> stages # << >>
      /\ JobsInText(stages, JobNodes(Tail(file.nodes)))
  BY FileParsed
<1>2. stages = workflow.stages
  OBVIOUS
<1> HIDE DEF config, stages, workflow
<1>3. CASE Executable(file)
  <2>1. config.workflows = << workflow >>
    BY <1>1, <1>3
  <2>2. PlansOf(config) = << PlanWorkflow(workflow) >>
    BY <2>1 DEF PlansOf
  <2>3. PlansText(PlanWorkflow(workflow), JobNodes(Tail(file.nodes)))
    BY <1>1, <1>2, TextIsPlanned
  <2> QED
    BY <1>3, <2>2, <2>3, OneItem DEF config
<1>4. CASE ~Executable(file)
  <2>1. config.workflows = << >>
    BY <1>1, <1>4
  <2>2. PlansOf(config) = << >>
    BY <2>1 DEF PlansOf
  <2> QED
    BY <1>4, <2>2, EmptyList DEF config
<1> QED
  BY <1>3, <1>4

Documents(c) == IsList(c) /\ \A f \in DOMAIN c : IsDocument(c[f])

Accepted(c) == Only(c, Executable)

\* Every accepted file that declares a stage or a job is a workflow of the plan, in
\* the order of the files, and its plan follows its text.
THEOREM PlanFollowsText ==
    ASSUME NEW files0, Documents(files0)
    PROVE  /\ IsList(PlanOf(files0)) /\ IsList(Accepted(files0))
           /\ Len(PlanOf(files0)) = Len(Accepted(files0))
           /\ \A w \in DOMAIN Accepted(files0) :
                  PlansText(PlanOf(files0)[w], JobNodes(Tail(Accepted(files0)[w].nodes)))
<1> DEFINE n == Len(files0)
           correct == { i \in DOMAIN files0 : FaultyPlaces(files0[i]) = {} }
           executable == { i \in DOMAIN files0 : Executable(files0[i]) }
           parsed == [i \in DOMAIN files0 |-> ParseConfig(files0[i])]
           c == Kept(parsed, correct)
           a == Kept(files0, executable)
           configs == FlattenSeq(c)
           w == [f \in DOMAIN configs |-> PlansOf(configs[f])]
<1>1. /\ n \in Nat /\ DOMAIN files0 = 1 .. n /\ IsList(files0)
      /\ \A i \in 1 .. n : IsDocument(files0[i])
  BY ListDomain DEF Documents
<1>2. executable \subseteq correct
  BY DEF Executable
<1>3. /\ IsList(parsed) /\ Len(parsed) = n /\ DOMAIN parsed = 1 .. n
      /\ \A i \in 1 .. n : parsed[i] = ParseConfig(files0[i])
  <2>1. parsed = [i \in 1 .. n |-> parsed[i]] /\ DOMAIN parsed = 1 .. n
    BY <1>1
  <2>2. \A i \in 1 .. n : parsed[i] = ParseConfig(files0[i])
    BY <1>1
  <2> HIDE DEF parsed
  <2> QED
    BY <1>1, <2>1, <2>2, ListOf
<1>4. \A i \in 1 .. n : parsed[i].errors = {} <=> i \in correct
  <2> SUFFICES ASSUME NEW i \in 1 .. n
               PROVE  ParseConfig(files0[i]).errors = {} <=> FaultyPlaces(files0[i]) = {}
    BY <1>1, <1>3
  <2> DEFINE file == files0[i]
  <2>1. IsDocument(file)
    BY <1>1
  <2> HIDE DEF file
  <2>2. ParseConfig(file).errors = {} <=> FaultyPlaces(file) = {}
    BY <2>1, ErrorsAreFaults DEF Places
  <2> QED
    BY <2>2 DEF file
<1>5. PlanOf(files0) = FlattenSeq(w)
  <2>1. [i \in DOMAIN parsed |-> IF parsed[i].errors = {} THEN << parsed[i] >> ELSE << >>] = c
    <3> HIDE DEF parsed, correct
    <3> QED
      BY <1>3, <1>4 DEF Kept
  <2>2. ParseKdlConfigs(files0).configs
            = FlattenSeq([i \in DOMAIN parsed |->
                              IF parsed[i].errors = {} THEN << parsed[i] >> ELSE << >>])
    BY DEF ParseKdlConfigs, Only
  <2>3. ParseKdlConfigs(files0).configs = configs
    BY <2>1, <2>2
  <2> HIDE DEF configs
  <2>4. PlanAll(configs) = FlattenSeq(w)
    BY DEF PlanAll, PlansOf
  <2> QED
    BY <2>3, <2>4 DEF PlanOf
<1>6. Accepted(files0) = FlattenSeq(a)
  BY DEF Accepted, Only, Kept
<1>7. /\ AreLists(c) /\ Len(c) = n /\ DOMAIN c = 1 .. n
      /\ \A i \in 1 .. n : /\ i \in correct => c[i] = << parsed[i] >>
                           /\ i \notin correct => c[i] = << >>
                           /\ Len(c[i]) = IF i \in correct THEN 1 ELSE 0
  <2> HIDE DEF parsed, correct
  <2> QED
    BY <1>3, KeptLists
<1>8. /\ AreLists(a) /\ Len(a) = n /\ DOMAIN a = 1 .. n
      /\ \A i \in 1 .. n : /\ i \in executable => a[i] = << files0[i] >>
                           /\ i \notin executable => a[i] = << >>
                           /\ Len(a[i]) = IF i \in executable THEN 1 ELSE 0
  <2> HIDE DEF executable
  <2> QED
    BY <1>1, KeptLists
<1>9. ASSUME NEW i \in 1 .. n, i \in correct
      PROVE  /\ IsList(PlansOf(parsed[i]))
             /\ Len(PlansOf(parsed[i])) = Len(a[i])
             /\ i \in executable =>
                    PlansText(PlansOf(parsed[i])[1], JobNodes(Tail(files0[i].nodes)))
  <2> DEFINE file == files0[i]
  <2>1. IsDocument(file) /\ FaultyPlaces(file) = {} /\ parsed[i] = ParseConfig(file)
    BY <1>1, <1>3, <1>9
  <2>2. i \in executable <=> Executable(file)
    BY <1>1
  <2>3. Len(a[i]) = IF i \in executable THEN 1 ELSE 0
    BY <1>8
  <2> HIDE DEF file, parsed, executable, a
  <2>4. /\ IsList(PlansOf(ParseConfig(file)))
        /\ Len(PlansOf(ParseConfig(file))) = IF Executable(file) THEN 1 ELSE 0
        /\ Executable(file) =>
               PlansText(PlansOf(ParseConfig(file))[1], JobNodes(Tail(file.nodes)))
    BY <2>1, PlansOfFile
  <2> QED
    BY <2>1, <2>2, <2>3, <2>4 DEF file
<1> HIDE DEF parsed, correct, executable, c, a
<1>10. /\ IsList(configs) /\ DOMAIN configs = 1 .. Len(configs) /\ Len(configs) \in Nat
  BY <1>7, FlatList, ListDomain
<1>11. /\ DOMAIN w = 1 .. Len(configs) /\ w = [f \in 1 .. Len(configs) |-> w[f]]
       /\ \A f \in 1 .. Len(configs) : w[f] = PlansOf(configs[f])
  <2> HIDE DEF configs
  <2> QED
    BY <1>10
\* Which of the parsed files a correct file has become.
<1>12. ASSUME NEW i \in 1 .. n, i \in correct
       PROVE  /\ Before(c, i) + 1 \in DOMAIN configs
              /\ configs[Before(c, i) + 1] = parsed[i]
  <2>1. c[i] = << parsed[i] >> /\ i \in DOMAIN c
    BY <1>7, <1>12
  <2>2. 1 \in DOMAIN c[i] /\ c[i][1] = parsed[i]
    BY <2>1
  <2>3. Before(c, i) + 1 \in DOMAIN FlattenSeq(c) /\ FlattenSeq(c)[Before(c, i) + 1] = c[i][1]
    BY <1>7, <2>1, <2>2, FlatItem
  <2> QED
    BY <2>2, <2>3
<1>13. ASSUME NEW f \in DOMAIN configs
       PROVE  IsList(PlansOf(configs[f]))
  <2>1. PICK i \in DOMAIN c : \E k \in DOMAIN c[i] :
                 f = Before(c, i) + k /\ FlattenSeq(c)[f] = c[i][k]
    BY <1>7, FlatOrigin
  <2>2. PICK k \in DOMAIN c[i] : FlattenSeq(c)[f] = c[i][k]
    BY <2>1
  <2>3. i \in correct
    <3> SUFFICES ASSUME i \notin correct PROVE FALSE
      OBVIOUS
    <3>1. c[i] = << >>
      BY <1>7
    <3>2. DOMAIN c[i] = {}
      BY <3>1
    <3> QED
      BY <3>2
  <2>4. c[i] = << parsed[i] >>
    BY <1>7, <2>3
  <2>5. configs[f] = parsed[i]
    <3>1. DOMAIN << parsed[i] >> = { 1 }
      OBVIOUS
    <3> QED
      BY <2>2, <2>4, <3>1
  <2> QED
    BY <1>7, <1>9, <2>3, <2>5
<1> HIDE DEF configs, w
<1>14. AreLists(w) /\ Len(w) = Len(configs)
  BY <1>10, <1>11, <1>13, ListsOf
<1>15. /\ Len(FlattenSeq(w)) = Len(FlattenSeq(a))
       /\ \A i \in DOMAIN c : Len(c[i]) = 1 => Before(w, Before(c, i) + 1) = Before(a, i)
  <2>1. ASSUME NEW i \in DOMAIN c
        PROVE  \/ Len(c[i]) = 0 /\ Len(a[i]) = 0
               \/ Len(c[i]) = 1 /\ Len(w[Before(c, i) + 1]) = Len(a[i])
    <3>1. CASE i \in correct
      <4>1. w[Before(c, i) + 1] = PlansOf(parsed[i])
        BY <1>7, <1>10, <1>11, <1>12, <3>1
      <4> QED
        BY <1>7, <1>9, <3>1, <4>1
    <3>2. CASE i \notin correct
      BY <1>2, <1>7, <1>8, <3>2
    <3> QED
      BY <3>1, <3>2
  <2>2. Len(a) = Len(c) /\ Len(w) = Len(FlattenSeq(c))
    BY <1>7, <1>8, <1>14 DEF configs
  <2>3. InStep(c, w, a)
    BY <1>7, <1>8, <1>14, <2>1, <2>2 DEF InStep
  <2> QED
    BY <2>3, FlatInStep
<1>16. IsList(FlattenSeq(w)) /\ IsList(FlattenSeq(a))
  BY <1>8, <1>14, FlatList
<1>17. ASSUME NEW v \in DOMAIN FlattenSeq(a)
       PROVE  PlansText(FlattenSeq(w)[v], JobNodes(Tail(FlattenSeq(a)[v].nodes)))
  <2>1. PICK i \in DOMAIN a : \E k \in DOMAIN a[i] :
                 v = Before(a, i) + k /\ FlattenSeq(a)[v] = a[i][k]
    BY <1>8, FlatOrigin
  <2>2. PICK k \in DOMAIN a[i] : v = Before(a, i) + k /\ FlattenSeq(a)[v] = a[i][k]
    BY <2>1
  <2>3. i \in executable
    <3> SUFFICES ASSUME i \notin executable PROVE FALSE
      OBVIOUS
    <3>1. a[i] = << >>
      BY <1>8
    <3>2. DOMAIN a[i] = {}
      BY <3>1
    <3> QED
      BY <3>2
  <2>4. a[i] = << files0[i] >> /\ i \in 1 .. n /\ i \in correct
    BY <1>2, <1>8, <2>3
  <2>5. k = 1 /\ FlattenSeq(a)[v] = files0[i]
    <3>1. DOMAIN << files0[i] >> = { 1 } /\ << files0[i] >>[1] = files0[i]
      OBVIOUS
    <3> QED
      BY <2>2, <2>4, <3>1
  <2> DEFINE f == Before(c, i) + 1
  <2>6. f \in DOMAIN w /\ w[f] = PlansOf(parsed[i])
    BY <1>10, <1>11, <1>12, <2>4
  <2>7. Before(w, f) = Before(a, i)
    BY <1>7, <1>15, <2>4
  <2>8. IsList(w[f]) /\ Len(w[f]) = 1
    BY <1>8, <1>9, <2>3, <2>4, <2>6
  <2> HIDE DEF f
  <2>9. 1 \in DOMAIN w[f]
    BY <2>8, ListDomain
  <2>10. FlattenSeq(w)[Before(w, f) + 1] = w[f][1]
    BY <1>14, <2>6, <2>9, FlatItem
  <2>11. FlattenSeq(w)[v] = PlansOf(parsed[i])[1]
    BY <2>2, <2>5, <2>6, <2>7, <2>10
  <2>12. PlansText(PlansOf(parsed[i])[1], JobNodes(Tail(files0[i].nodes)))
    BY <1>9, <2>3, <2>4
  <2> QED
    BY <2>5, <2>11, <2>12
<1> QED
  BY <1>5, <1>6, <1>15, <1>16, <1>17

-----------------------------------------------------------------------------
(* From the plan to the rows.                                              *)

\* The jobs that the text of a workflow declares.
Declared(file) == JobNodes(Tail(file.nodes))

RowSays(row, node) == row = [name |-> node.args[1], steps |-> Commands(node)]

LEMMA PlannedAt ==
    ASSUME NEW workflows, NEW p \in Planned(workflows)
    PROVE  /\ p[1] \in DOMAIN workflows
           /\ p[2] \in DOMAIN workflows[p[1]]
           /\ p[3] \in DOMAIN workflows[p[1]][p[2]]
  BY DEF Planned

\* A job of the plan is one that the text declares, under its id.
LEMMA JobFollowsText ==
    ASSUME NEW files0, Documents(files0), NEW p \in Planned(PlanOf(files0)),
           NEW job, job = JobAt(PlanOf(files0), p)
    PROVE  /\ p[1] \in DOMAIN Accepted(files0)
           /\ job.id \in DOMAIN Declared(Accepted(files0)[p[1]])
           /\ p[3] = Declared(Accepted(files0)[p[1]])[job.id].args[1]
           /\ IsList(job.steps)
           /\ CommandsOf(job.steps) = Commands(Declared(Accepted(files0)[p[1]])[job.id])
<1> DEFINE workflows == PlanOf(files0)
           w == p[1]
           planned == workflows[w]
           declared == Declared(Accepted(files0)[w])
<1>1. /\ w \in DOMAIN workflows /\ p[2] \in DOMAIN planned /\ p[3] \in DOMAIN planned[p[2]]
  BY PlannedAt
<1>2. job = planned[p[2]][p[3]]
  BY DEF JobAt
<1>3. DOMAIN workflows = DOMAIN Accepted(files0)
  BY PlanFollowsText, ListDomain
<1>4. PlansText(planned, declared)
  BY <1>1, <1>3, PlanFollowsText DEF Declared
<1> HIDE DEF workflows, planned, declared
<1> QED
  BY <1>1, <1>2, <1>3, <1>4 DEF PlansText, declared

\* The rows of a plan are those of the jobs that the text declares, one for each.
THEOREM RowsFollowText ==
    ASSUME NEW files0, Documents(files0)
    PROVE  /\ \A w \in DOMAIN Accepted(files0) :
                  \A id \in DOMAIN Declared(Accepted(files0)[w]) :
                      /\ << w, id >> \in DOMAIN RowsOf(PlanOf(files0))
                      /\ RowSays(RowsOf(PlanOf(files0))[<< w, id >>],
                                 Declared(Accepted(files0)[w])[id])
           /\ \A r \in DOMAIN RowsOf(PlanOf(files0)) :
                  /\ r = << r[1], r[2] >>
                  /\ r[1] \in DOMAIN Accepted(files0)
                  /\ r[2] \in DOMAIN Declared(Accepted(files0)[r[1]])
<1> DEFINE workflows == PlanOf(files0)
           accepted == Accepted(files0)
           key(p) == << p[1], JobAt(workflows, p).id >>
           at(k) == CHOOSE p \in Planned(workflows) : key(p) = k
           steps(k) == JobAt(workflows, at(k)).steps
           rows == RowsOf(workflows)
<1>1. /\ DOMAIN rows = { key(p) : p \in Planned(workflows) }
      /\ \A k \in DOMAIN rows :
             rows[k] = [name |-> at(k)[3], steps |-> CommandsOf(steps(k))]
  BY DEF RowsOf, CommandsOf
<1>2. ASSUME NEW p \in Planned(workflows)
      PROVE  /\ key(p) = << key(p)[1], key(p)[2] >> /\ key(p)[1] = p[1]
             /\ key(p)[2] = JobAt(workflows, p).id
             /\ p[1] \in DOMAIN accepted
             /\ JobAt(workflows, p).id \in DOMAIN Declared(accepted[p[1]])
             /\ p[3] = Declared(accepted[p[1]])[JobAt(workflows, p).id].args[1]
             /\ CommandsOf(JobAt(workflows, p).steps)
                    = Commands(Declared(accepted[p[1]])[JobAt(workflows, p).id])
  BY JobFollowsText
<1>3. ASSUME NEW w \in DOMAIN accepted, NEW id \in DOMAIN Declared(accepted[w])
      PROVE  \E p \in Planned(workflows) : key(p) = << w, id >>
  <2>1. DOMAIN workflows = DOMAIN accepted
    BY PlanFollowsText, ListDomain
  <2>2. PlansText(workflows[w], Declared(accepted[w]))
    BY PlanFollowsText DEF Declared
  <2> HIDE DEF workflows, accepted
  <2>3. PICK n \in DOMAIN workflows[w] : \E j \in DOMAIN workflows[w][n] :
                 workflows[w][n][j].id = id
    BY <2>2 DEF PlansText
  <2>4. PICK j \in DOMAIN workflows[w][n] : workflows[w][n][j].id = id
    BY <2>3
  <2>5. << w, n, j >> \in Planned(workflows)
    BY <2>1 DEF Planned
  <2>6. JobAt(workflows, << w, n, j >>).id = id
    BY <2>4 DEF JobAt
  <2>7. key(<< w, n, j >>) = << w, id >>
    BY <2>6
  <2> QED
    BY <2>5, <2>7
<1>4. ASSUME NEW k \in DOMAIN rows
      PROVE  at(k) \in Planned(workflows) /\ key(at(k)) = k
  <2>1. \E p \in Planned(workflows) : key(p) = k
    BY <1>1
  <2> QED
    BY <2>1
<1>5. ASSUME NEW k \in DOMAIN rows
      PROVE  /\ k = << k[1], k[2] >> /\ k[1] \in DOMAIN accepted
             /\ k[2] \in DOMAIN Declared(accepted[k[1]])
             /\ at(k)[3] = Declared(accepted[k[1]])[k[2]].args[1]
             /\ CommandsOf(steps(k)) = Commands(Declared(accepted[k[1]])[k[2]])
  <2> DEFINE p == at(k)
  <2>1. p \in Planned(workflows) /\ key(p) = k
    BY <1>4
  <2> HIDE DEF p, workflows, accepted
  <2>2. /\ k[1] = p[1] /\ k[2] = JobAt(workflows, p).id /\ k = << k[1], k[2] >>
    BY <2>1, <1>2
  <2>3. /\ p[1] \in DOMAIN accepted
        /\ JobAt(workflows, p).id \in DOMAIN Declared(accepted[p[1]])
        /\ p[3] = Declared(accepted[p[1]])[JobAt(workflows, p).id].args[1]
        /\ CommandsOf(JobAt(workflows, p).steps)
               = Commands(Declared(accepted[p[1]])[JobAt(workflows, p).id])
    BY <2>1, <1>2
  <2> QED
    BY <2>2, <2>3 DEF p
<1>6. ASSUME NEW w \in DOMAIN accepted, NEW id \in DOMAIN Declared(accepted[w])
      PROVE  << w, id >> \in DOMAIN rows /\ RowSays(rows[<< w, id >>], Declared(accepted[w])[id])
  <2> DEFINE k == << w, id >>
  <2>1. k \in DOMAIN rows /\ k[1] = w /\ k[2] = id
    BY <1>1, <1>3
  <2> HIDE DEF k, rows, accepted
  <2>2. rows[k] = [name |-> at(k)[3], steps |-> CommandsOf(steps(k))]
    BY <1>1, <2>1
  <2>3. /\ at(k)[3] = Declared(accepted[w])[id].args[1]
        /\ CommandsOf(steps(k)) = Commands(Declared(accepted[w])[id])
    BY <1>5, <2>1
  <2> HIDE DEF at, steps
  <2> QED
    BY <2>1, <2>2, <2>3 DEF RowSays, k
<1> QED
  BY <1>5, <1>6
=============================================================================
