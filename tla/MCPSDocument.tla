---------------------------- MODULE MCPSDocument ----------------------------
(***************************************************************************)
(* PSDocument for TLC: its constants are given values by the               *)
(* configurations, and it is checked as it is.                             *)
(***************************************************************************)
EXTENDS PSDocument
=============================================================================
