-------------------------- MODULE MCPipelineStatus --------------------------
(***************************************************************************)
(* Configurations for PipelineStatus.  Single files of up to two nodes     *)
(* below the header, drawn from nodes that are right or wrong in one way   *)
(* each (and from blocks of them), check the parser; the configurations    *)
(* that are run have one or two files with up to two jobs each.            *)
(***************************************************************************)
EXTENDS ConfigurationReference

Prop(key, value) == [key |-> key, value |-> value]
Leaf(name, args, props) ==
    [name |-> name, args |-> args, props |-> props, block |-> FALSE, nodes |-> << >>]
Block(name, args, nodes) ==
    [name |-> name, args |-> args, props |-> << >>, block |-> TRUE, nodes |-> nodes]
File(nodes) == [isKdl |-> TRUE, nodes |-> nodes]

UpTo2(S) == { << >> } \cup { << x >> : x \in S } \cup { << x, y >> : x, y \in S }

Version == Prop("version", "v0")
Header == Leaf("corncrake", << >>, << Version >>)
Step(command) == Leaf("step", << command >>, << >>)
Needs(job) == Leaf("needs", << job >>, << >>)

Steps ==
    { Step("make"), Step("1"), Leaf("step", << >>, << >>),
      Leaf("step", << "make", "b" >>, << >>),
      Leaf("step", << "make" >>, << Prop("image", "a") >>),
      Leaf("step", << "make" >>, << Prop("image", "#true") >>),
      Leaf("step", << "make" >>, << Prop("image", "a"), Prop("image", "b") >>),
      Leaf("step", << >>, << Prop("command", "make") >>),
      Block("step", << "make" >>, << >>) }

NeedsNodes ==
    { Needs("a"), Leaf("needs", << "a" >>, << Prop("allow_failed", "#true") >>),
      Leaf("needs", << "a" >>, << Prop("allow_failed", "a") >>),
      Leaf("needs", << >>, << >>), Block("needs", << "a" >>, << Step("make") >>) }

JobBodies == UpTo2(Steps \cup NeedsNodes \cup { Leaf("env", << >>, << >>) })

\* Jobs without steps are accepted, and their launch fails.
Jobs ==
    { Block("job", << n >>, << >>) : n \in { "a", "b", "1" } }
    \cup { Block("job", << >>, << Step("1") >>), Leaf("job", << "a" >>, << >>),
           Block("job", << "a" >>, << Needs("b"), Leaf("env", << >>, << >>) >>) }

Stages ==
    { Block("stage", << "a" >>, jobs) : jobs \in UpTo2(Jobs) }
    \cup { Block("stage", << >>, << Leaf("job", << "a" >>, << >>), Step("make") >>),
           Leaf("stage", << "b" >>, << >>), Block("stage", << "b" >>, << >>) }

Uses ==
    { Block("use", << >>, uses) : uses \in UpTo2(
          { Leaf("image", << "a", "b" >>, << >>), Leaf("library", << "a" >>, << >>),
            Leaf("executor", << "a", "b" >>, << Prop("name", "b") >>),
            Block("library", << "a", "b" >>, << >>), Leaf("job", << "a" >>, << >>) }) }
    \cup { Leaf("use", << >>, << >>), Block("use", << "a" >>, << >>) }

Tops == Jobs \cup Stages \cup Uses \cup { Leaf("env", << >>, << >>) }

Headers ==
    { << >>, << Leaf("corncrake", << >>, << >>) >>, << Leaf("job", << >>, << Version >>) >>,
      << Leaf("corncrake", << >>, << Prop("version", "v1") >>) >>,
      << Leaf("corncrake", << "v0" >>, << Version >>) >>,
      << Leaf("corncrake", << >>, << Version, Prop("a", "b") >>) >> }

Checked ==
    { << File(<< Header >> \o nodes) >> : nodes \in UpTo2(Tops) }
    \cup { << File(<< Header, Block("job", << "a" >>, nodes) >>) >> : nodes \in JobBodies }
    \cup { << File(header \o << Leaf("env", << >>, << >>) >>) >> : header \in Headers }
    \cup { << File(<< >>) >>, << [isKdl |-> FALSE, nodes |-> << >>] >> }

Build == Block("job", << "build" >>, << Step("make"), Step("test") >>)
Lint == Block("job", << "lint" >>, << Needs("build"), Step("make") >>)
Test == Block("job", << "test" >>, << Step("test") >>)
Twice == File(<< Header, Block("stage", << "a" >>, << Test, Lint >>),
                 Block("stage", << "b" >>, << Lint >>) >>)
Broken == File(<< Header, Lint, Lint >>)

MCExecuted ==
    { << File(<< Header, Build, Lint >>), File(<< Header >>) >>,
      << File(<< Header, Lint >>), Broken, File(<< Header, Lint >>) >>,
      << Twice >>, << Broken >> }

MCConfigurations == Checked \cup MCExecuted
MCText == { "v0", "v1", "a", "b", "build", "lint", "make", "test" }
=============================================================================
