--------------------------- MODULE MCOpenLoadRun ----------------------------
(* A small open-model run with its verdict for TLC.                         *)
EXTENDS OpenLoadRun
=============================================================================
