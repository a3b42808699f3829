--------------------------- MODULE MCSessionRuntime ---------------------------
(* SessionRuntime on a small instance.                                     *)
EXTENDS SessionRuntime, TLC

CONSTANTS p1, p2

(* Processes are interchangeable. *)
ProcSymmetry == Permutations(Procs)
=============================================================================
