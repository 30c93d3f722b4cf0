--------------------------- MODULE MCPanelContent ---------------------------
(* A finite instance of PanelContent for TLC. *)
EXTENDS PanelContent

CONSTANTS fa, en, ar, words, monthly, other
=============================================================================
