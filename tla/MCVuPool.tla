------------------------------ MODULE MCVuPool ------------------------------
(* A small pool for TLC; the constants are given in the configurations.     *)
EXTENDS VuPool
=============================================================================
