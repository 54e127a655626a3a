--------------------------- MODULE MCDataTemplate ---------------------------
(* Instances of DataTemplate for TLC.                                      *)
EXTENDS DataTemplate

(* IOT_Template_Report, IOT_Template_GetStatus, IOT_Template_Report_Sync,  *)
(* IOT_Template_GetStatus_sync                                             *)
MCCalls == {"REPORT", "GET"} \X {"user", "sync"}
=============================================================================
