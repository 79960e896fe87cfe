-------------------------- MODULE MCClosedLoadRun ---------------------------
(* A small closed-model run with its verdict for TLC.                       *)
EXTENDS ClosedLoadRun
=============================================================================
