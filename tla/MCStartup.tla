----------------------------- MODULE MCStartup -----------------------------
(* Configurations for Startup: one with an LTK, one without, and ones that   *)
(* validate_config refuses.                                                 *)
EXTENDS Startup

Good == [pythonLibrary |-> "text", websocketEndpoint |-> "text",
         logLevel |-> "absent", ltk |-> "absent"]

MCConfigs == {Good, [Good EXCEPT !.ltk = "text"], [Good EXCEPT !.logLevel = "wrong"]}
=============================================================================
