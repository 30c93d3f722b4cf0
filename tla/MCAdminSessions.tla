--------------------------- MODULE MCAdminSessions ---------------------------
(* A finite instance of AdminSessions for TLC. *)
EXTENDS AdminSessions

CONSTANTS tab1, tab2, c1, c2
=============================================================================
