-------------------------- MODULE MCRunnerProcess --------------------------
(* Instances of RunnerProcess for TLC.                                     *)
EXTENDS RunnerProcess, TLC

CallerSymmetry == Permutations(Caller)
=============================================================================
