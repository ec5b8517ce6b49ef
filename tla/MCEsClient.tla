----------------------------- MODULE MCEsClient -----------------------------
(* EsClient with two pids, a work application, another binary that claims  *)
(* its signing identifier, and two policies of which the second allows     *)
(* to save outside.                                                        *)
EXTENDS EsClient

Mac(team, signing) == [os |-> "Macos", team_id |-> team, signing_id |-> signing]
MCApp == Mac("T1", "com.app")
MCBinaries == {MCApp, Mac("T2", "com.app")}
Bundle(apps, save) == [apps |-> apps, allow_save_outside_enclave |-> save]
Rule == [app_id |-> "app", binary |-> MCApp]
MCPolicies == << Bundle(<<Rule>>, FALSE), Bundle(<<>>, TRUE) >>
=============================================================================
