---------------------------- MODULE MCSessionClient -----------------------------
(* Two requests on pages of one tab, which is reloaded or signed out of. *)
EXTENDS SessionClient, TLC

CONSTANTS c1, c2
=============================================================================
