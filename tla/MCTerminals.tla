---------------------------- MODULE MCTerminals -----------------------------
(* Terminals on a small instance; the values are in the configurations.      *)
EXTENDS Terminals
=============================================================================
