--------------------------- MODULE MCTokenRefresh ---------------------------
(***************************************************************************)
(* One user, before the first login or after an earlier one: two requests, *)
(* a request and a login, or two logins at a time, and each of them alone  *)
(* with every fault.                                                       *)
(***************************************************************************)
EXTENDS TokenRefresh

CONSTANTS list, configure, login, again

MCScenarios ==
    { [actors |-> { list, configure }, faults |-> {}],
      [actors |-> { list, login }, faults |-> { "crash" }],
      [actors |-> { login, again }, faults |-> {}],
      [actors |-> { list }, faults |-> { "forge", "db", "late", "crash" }],
      [actors |-> { login }, faults |-> { "forge", "db", "late", "crash" }] }
=============================================================================
