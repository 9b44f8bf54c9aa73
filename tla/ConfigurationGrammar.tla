------------------------ MODULE ConfigurationGrammar ------------------------
(***************************************************************************)
(* The grammar of a configuration file, without the parser: which nodes a  *)
(* block may hold, what makes each of them valid, and where a file breaks  *)
(* it.  The reference for what V0Parser accepts and reports.               *)
(***************************************************************************)
EXTENDS V0Parser

\* A kind of node: how many arguments it takes (strings, all of them required),
\* which options, and what is inside it.
Node(args, options, inside) == [args |-> args, options |-> options, inside |-> inside]

Grammar ==
    [file |-> [use |-> Node(0, << >>, "use"),
               stage |-> Node(1, << >>, "stage"),
               job |-> Node(1, << >>, "job")],
     use |-> [image |-> Node(2, << >>, "leaf"),
              library |-> Node(2, << >>, "leaf"),
              executor |-> Node(2, << >>, "leaf")],
     stage |-> [job |-> Node(1, << >>, "job")],
     job |-> [needs |-> Node(1, [allow_failed |-> Flags], "leaf"),
              step |-> Node(1, [image |-> Text], "leaf")]]

\* The arguments and properties that a rule asks for.
AttributesValid(node, rule) ==
    /\ Len(node.args) = rule.args
    /\ ToSet(node.args) \subseteq Text
    /\ \A i \in DOMAIN node.props :
           /\ node.props[i].key \in DOMAIN rule.options
           /\ node.props[i].value \in rule.options[node.props[i].key]
           /\ \A k \in 1 .. i - 1 : node.props[k].key # node.props[i].key

\* What a use block says beside its children is ignored.
Valid(node, rule) ==
    /\ node.block = (rule.inside # "leaf")
    /\ rule.inside = "use" \/ AttributesValid(node, rule)

-----------------------------------------------------------------------------
(* Where a file breaks the grammar.                                        *)

Known(node, inside) == node.name \in DOMAIN Grammar[inside]

Good(node, inside) == Known(node, inside) /\ Valid(node, Grammar[inside][node.name])

\* A stage or a job that is right has its name to itself.
Declares(node, inside) ==
    Good(node, inside) /\ Grammar[inside][node.name].inside \in { "stage", "job" }

Taken(nodes, inside, i) ==
    /\ Declares(nodes[i], inside)
    /\ \E k \in 1 .. i - 1 :
           Declares(nodes[k], inside) /\ nodes[k].args[1] = nodes[i].args[1]

\* The nodes of a block that are wrong, whatever is inside them.
WrongNodes(nodes, inside, at) ==
    { Append(at, i) : i \in { i \in DOMAIN nodes :
                                ~Good(nodes[i], inside) \/ Taken(nodes, inside, i) } }

\* With those inside them: blocks are nested three deep.
WrongInUse(nodes, at) == WrongNodes(nodes, "use", at)

WrongInJob(nodes, at) == WrongNodes(nodes, "job", at)

WrongInStage(nodes, at) ==
    WrongNodes(nodes, "stage", at)
    \cup UNION { WrongInJob(nodes[i].nodes, Append(at, i)) :
                     i \in { i \in DOMAIN nodes : nodes[i].name = "job" } }

WrongInTop(node, at) ==
    CASE node.name = "use" -> WrongInUse(node.nodes, at)
      [] node.name = "stage" -> WrongInStage(node.nodes, at)
      [] node.name = "job" -> WrongInJob(node.nodes, at)
      [] OTHER -> {}

WrongInFile(nodes) ==
    WrongNodes(nodes, "file", << >>)
    \cup UNION { WrongInTop(nodes[i], << i >>) : i \in DOMAIN nodes }

\* The header names the version, and nothing else.
HeaderValid(node) ==
    /\ node.name = "corncrake"
    /\ AttributesValid(node, Node(0, [version |-> { "v0" }], "leaf"))
    /\ Len(node.props) = 1

FaultyPlaces(file) ==
    CASE ~file.isKdl -> { << >> }
      [] file.isKdl /\ file.nodes = << >> -> { << 0 >> }
      [] OTHER -> IF HeaderValid(file.nodes[1]) THEN WrongInFile(Tail(file.nodes))
                  ELSE { << 0 >> }

-----------------------------------------------------------------------------
(* Documents.                                                              *)

IsList(s) == Len(s) \in Nat /\ s = [i \in 1 .. Len(s) |-> s[i]]

\* Lists of arguments, of properties and of the nodes of the block, if there is one.
IsNode(node) ==
    /\ IsList(node.args) /\ IsList(node.props) /\ IsList(node.nodes)
    /\ \A i \in DOMAIN node.props : node.props[i].value # Absent
    /\ node.block \in BOOLEAN
    /\ ~node.block => DOMAIN node.nodes = {}

\* As deep as the parser looks.
IsTree(node) ==
    /\ IsNode(node)
    /\ \A i \in DOMAIN node.nodes :
           /\ IsNode(node.nodes[i])
           /\ \A k \in DOMAIN node.nodes[i].nodes : IsNode(node.nodes[i].nodes[k])

IsDocument(file) ==
    file.isKdl /\ file.nodes # << >> =>
        /\ IsList(file.nodes)
        /\ IsNode(file.nodes[1])
        /\ \A i \in DOMAIN Tail(file.nodes) : IsTree(Tail(file.nodes)[i])
=============================================================================
