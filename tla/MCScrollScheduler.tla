-------------------------- MODULE MCScrollScheduler --------------------------
(* The scroll scheduler with a small batch; see the configurations.          *)
EXTENDS ScrollScheduler
=============================================================================
