-------------------------- MODULE MCContainerRunner --------------------------
(***************************************************************************)
(* A job of three steps, the first and last in the same image.             *)
(***************************************************************************)
EXTENDS ContainerRunner, TLC

CONSTANTS node, alpine

MCImages == { node, alpine }
MCImageOf == << node, alpine, node >>

\* Everything may fail; or everything but what rolls the record of a step back
\* or keeps a container; or everything but what keeps a container or loses the
\* answer to a record; or everything but what loses a container or the volume.
MCScenarios ==
    { AllFaults,
      AllFaults \ { "volume", "db", "remove" },
      AllFaults \ { "dbLost", "remove" },
      AllFaults \ { "createLost", "remove", "removeVolume" } }
=============================================================================
