--------------------------- MODULE MC_DesktopTor ---------------------------
(* DesktopTor for TLC: its constants are given in the configuration.       *)
EXTENDS DesktopTor
=============================================================================
