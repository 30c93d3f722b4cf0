----------------------------- MODULE MCBotUsers -----------------------------
(* A finite instance of BotUsers for TLC. *)
EXTENDS BotUsers

CONSTANTS e1, e2, fa, en
=============================================================================
