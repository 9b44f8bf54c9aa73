--------------------------- MODULE MCWebhookSetup ---------------------------
(***************************************************************************)
(* Two or three requests for a repository, with every fault and with none. *)
(***************************************************************************)
EXTENDS WebhookSetup

MCScenarios == { {}, { "forge" }, { "forge", "db" } }
=============================================================================
