----------------------------- MODULE MCCircuit ------------------------------
(* Instances of CircuitBreaker for TLC.                                     *)
EXTENDS CircuitBreaker, TLC

CONSTANTS j1, j2, j3

ThreeJobs == {j1, j2, j3}
TwoJobs   == {j1, j2}

=============================================================================
