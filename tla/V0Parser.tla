------------------------------ MODULE V0Parser ------------------------------
(***************************************************************************)
(* The parser of configuration files, pipeline/v0/parser.ts, as operators. *)
(*                                                                         *)
(* A KDL node is a record: its name, the values of its arguments, its      *)
(* properties [key, value] in order, whether it has a children block, and  *)
(* the nodes of that block.  A method of the parser that returns a         *)
(* declaration or null returns a sequence of at most one here, beside the  *)
(* errors it adds to parser.errors.  An error is known by the path of the  *)
(* node it is about, <<0>> being the version header, and its kind: of the  *)
(* entry it points at and its wording nothing is kept.                     *)
(***************************************************************************)
EXTENDS Naturals, Sequences, SequencesExt

CONSTANTS
    Text,    \* the values of KDL arguments and properties that are strings
    Flags    \* those that are booleans; the others are numbers or #null

Absent == "absent"
NoFlag == "#false"

ASSUME ValueKinds ==
    /\ "v0" \in Text
    /\ NoFlag \in Flags
    /\ Text \cap Flags = {}
    /\ Absent \notin Text \cup Flags

Err(at, what) == [at |-> at, what |-> what]

When(condition, at, what) == IF condition THEN { Err(at, what) } ELSE {}

-----------------------------------------------------------------------------
(* Arguments and properties.                                               *)

\* The schema gives each key its accepted values, Absent among them if the key
\* is optional.  An argument is bound to the key at its position; a property
\* may give a key no argument and no earlier property has given.
ParseNodeAttributes(node, at, argNames, propertyNames, schema) ==
    LET byArg(key) == { i \in DOMAIN argNames : argNames[i] = key /\ i <= Len(node.args) }
        byProperty(key) ==
            { i \in DOMAIN node.props : node.props[i].key = key /\ key \in propertyNames }
        First(S) == CHOOSE i \in S : \A k \in S : i <= k
        taken(i) == \/ byArg(node.props[i].key) # {}
                    \/ \E k \in byProperty(node.props[i].key) : k < i
        attrs == [key \in DOMAIN schema |->
                     CASE byArg(key) # {} -> node.args[First(byArg(key))]
                       [] byArg(key) = {} /\ byProperty(key) # {} ->
                              node.props[First(byProperty(key))].value
                       [] OTHER -> Absent]
        errors ==
            When(Len(node.args) > Len(argNames), at, "too many arguments")
            \cup When(\E i \in DOMAIN node.props : node.props[i].key \notin propertyNames,
                      at, "unexpected property")
            \cup When(\E i \in DOMAIN node.props :
                          node.props[i].key \in propertyNames /\ taken(i),
                      at, "overwrites an argument")
            \cup When(\E key \in DOMAIN schema : attrs[key] \notin schema[key],
                      at, "invalid value")
    IN  [ok |-> errors = {}, attrs |-> attrs, errors |-> errors]

\* A node that only has a name of its own: a stage or a job.
ParseName(node, at) ==
    ParseNodeAttributes(node, at, << "name" >>, {}, [name |-> Text])

EnsureNoChildren(node, at) == When(node.block, at, "children block")

\* What a loop over nodes gathers from each of them.
ParseAll(nodes, at, Parse(_, _)) == [i \in DOMAIN nodes |-> Parse(nodes[i], Append(at, i))]

Decls(parsed) == FlattenSeq([i \in DOMAIN parsed |-> parsed[i].decls])

\* The items of a list that pass a test, in order.
Only(list, Test(_)) ==
    FlattenSeq([i \in DOMAIN list |-> IF Test(list[i]) THEN << list[i] >> ELSE << >>])

Errors(parsed) == UNION { parsed[i].errors : i \in DOMAIN parsed }

\* (Operators named Mutant... are plausible wrong versions of the definition
\* that follows them; no specification uses them.)

MutantRepeated(parsed, at) == {}      \* nobody looks for duplicates

\* An error for each declaration that has the name of an earlier one.
Repeated(parsed, at) ==
    { Err(Append(at, i), "duplicate name") :
          i \in { k \in DOMAIN parsed :
                      \E l \in 1 .. k - 1 : \E d \in ToSet(parsed[l].decls) :
                          \E e \in ToSet(parsed[k].decls) : d.name = e.name } }

Nothing(at, what) == [decls |-> << >>, errors |-> { Err(at, what) }]

\* A declaration is made from its attributes if these are right, and what is
\* wrong with its children has errors of its own.
Declare(result, Decl(_), childErrors) ==
    [decls |-> IF result.ok THEN << Decl(result.attrs) >> ELSE << >>,
     errors |-> result.errors \cup childErrors]

-----------------------------------------------------------------------------
(* Declarations.                                                           *)

UseKeys == [image |-> << "name", "specifier" >>,
            library |-> << "name", "specifier" >>,
            executor |-> << "name", "type" >>]

ParseUseDeclaration(node, at) ==
    LET keys == UseKeys[node.name]
        use(attrs) == [resourceKind |-> node.name, name |-> attrs[keys[1]],
                       specifier |-> attrs[keys[2]]]
    IN  IF node.name \notin DOMAIN UseKeys
        THEN [decls |-> << >>,
              errors |-> EnsureNoChildren(node, at) \cup { Err(at, "unexpected declaration") }]
        ELSE Declare(ParseNodeAttributes(node, at, keys, {}, [key \in ToSet(keys) |-> Text]),
                     use, EnsureNoChildren(node, at))

\* The result has no name to reserve, so it is told apart as `uses`.
ParseUseBlock(node, at) ==
    LET parsed == ParseAll(node.nodes, at, ParseUseDeclaration) IN
    IF ~node.block
    THEN [uses |-> << >>, decls |-> << >>, errors |-> { Err(at, "no block") }]
    ELSE [uses |-> Decls(parsed), decls |-> << >>, errors |-> Errors(parsed)]

ParseNeeds(node, at) ==
    LET needs(attrs) ==
            [type |-> "needs", job |-> attrs.job,
             allowFailed |-> IF attrs.allow_failed = Absent THEN NoFlag ELSE attrs.allow_failed]
    IN  Declare(ParseNodeAttributes(node, at, << "job" >>, { "allow_failed" },
                    [job |-> Text, allow_failed |-> Flags \cup { Absent }]),
                needs, EnsureNoChildren(node, at))

ParseStep(node, at) ==
    LET step(attrs) == [type |-> "user", command |-> attrs.command, image |-> attrs.image] IN
    Declare(ParseNodeAttributes(node, at, << "command" >>, { "image" },
                [command |-> Text, image |-> Text \cup { Absent }]),
            step, EnsureNoChildren(node, at))

ParseJobChild(node, at) ==
    CASE node.name = "needs" -> ParseNeeds(node, at)
      [] node.name = "step" -> ParseStep(node, at)
      [] OTHER -> Nothing(at, "unexpected node")

\* The children are parsed even if the name is invalid.
ParseJob(node, at) ==
    LET parsed == ParseAll(node.nodes, at, ParseJobChild)
        isNeeds(d) == d.type = "needs"
        isStep(d) == d.type = "user"
        job(attrs) == [name |-> attrs.name,
                       needs |-> Only(Decls(parsed), isNeeds),
                       steps |-> Only(Decls(parsed), isStep)]
    IN  IF ~node.block THEN Nothing(at, "no block")
        ELSE Declare(ParseName(node, at), job, Errors(parsed))

ParseStageChild(node, at) ==
    IF node.name = "job" THEN ParseJob(node, at) ELSE Nothing(at, "unexpected node")

MutantParseStage(node, at) ==      \* an invalid name ends the parsing of the stage
    LET parsed == ParseAll(node.nodes, at, ParseStageChild)
        stage(attrs) == [name |-> attrs.name, jobs |-> Decls(parsed)]
    IN  IF ~node.block THEN Nothing(at, "no block")
        ELSE Declare(ParseName(node, at), stage,
                     IF ParseName(node, at).ok
                     THEN Errors(parsed) \cup Repeated(parsed, at) ELSE {})

\* A job whose name is taken is reported and kept.
ParseStage(node, at) ==
    LET parsed == ParseAll(node.nodes, at, ParseStageChild)
        stage(attrs) == [name |-> attrs.name, jobs |-> Decls(parsed)]
    IN  IF ~node.block THEN Nothing(at, "no block")
        ELSE Declare(ParseName(node, at), stage, Errors(parsed) \cup Repeated(parsed, at))

\* A job outside a stage is wrapped in one of its name.
Wrapped(parsed) ==
    [decls |-> [i \in DOMAIN parsed.decls |->
                   [name |-> parsed.decls[i].name, jobs |-> << parsed.decls[i] >>]],
     errors |-> parsed.errors]

NoUses(parsed) == [uses |-> << >>, decls |-> parsed.decls, errors |-> parsed.errors]

ParseTopLevel(node, at) ==
    CASE node.name = "use" -> ParseUseBlock(node, at)
      [] node.name = "stage" -> NoUses(ParseStage(node, at))
      [] node.name = "job" -> NoUses(Wrapped(ParseJob(node, at)))
      [] OTHER -> NoUses(Nothing(at, "unexpected node"))

-----------------------------------------------------------------------------
(* Files.                                                                  *)

ParseHeader(nodes) ==
    IF nodes = << >> THEN { Err(<< 0 >>, "missing header") }
    ELSE When(nodes[1].name # "corncrake", << 0 >>, "not a header")
         \cup ParseNodeAttributes(nodes[1], << 0 >>, << >>, { "version" },
                                  [version |-> { "v0" }]).errors

\* An error in the header is fatal: the rest is not looked at.  The stages and
\* jobs form one implicit workflow, if there are any.
ParseFile(nodes) ==
    LET header == ParseHeader(nodes)
        parsed == ParseAll(Tail(nodes), << >>, ParseTopLevel)
        stages == Decls(parsed)
    IN  IF header # {} THEN [uses |-> << >>, workflows |-> << >>, errors |-> header]
        ELSE [uses |-> FlattenSeq([i \in DOMAIN parsed |-> parsed[i].uses]),
              workflows |-> IF stages = << >> THEN << >> ELSE << [stages |-> stages] >>,
              errors |-> Errors(parsed) \cup Repeated(parsed, << >>)]

\* A file that is no KDL document gets one error of its own.
ParseConfig(file) ==
    IF file.isKdl THEN ParseFile(file.nodes)
    ELSE [uses |-> << >>, workflows |-> << >>, errors |-> { Err(<< >>, "no KDL") }]

\* The files that go on to be planned, in order: the correct ones.
ParseKdlConfigs(files) ==
    LET parsed == [i \in DOMAIN files |-> ParseConfig(files[i])]
        correct(config) == config.errors = {}
    IN  [configs |-> Only(parsed, correct),
         results |-> [i \in DOMAIN files |-> parsed[i].errors]]
=============================================================================
