------------------------------ MODULE MCCliRun ------------------------------
(* Two processes, two probes, and reports of none to two assertions.        *)
EXTENDS CliRun, TLC

MCReports == {<<>>, <<"Pass", "Pass">>, <<"Fail">>, <<"Pass", "Error">>}
Symmetry == Permutations(Runners)
=============================================================================
