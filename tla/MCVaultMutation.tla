--------------------------- MODULE MCVaultMutation ---------------------------
(* VaultMutation on a small instance: two processes that contend for one   *)
(* entity and for the creation of another, under shared operation ids.     *)
EXTENDS VaultMutation, TLC

CONSTANTS p1, p2, o1, o2, e1, e2

Request(o, k, e, x) == [op |-> o, kind |-> k, ent |-> e, exp |-> x]

MCRequests ==
  {Request(o1, "patch", e1, 1), Request(o2, "append", e1, 1),
   Request(o2, "append", e1, 2), Request(o1, "create", e2, 0),
   Request(o2, "create", e2, 0), Request(o2, "create", e1, 0)}

(* Processes are interchangeable. *)
ProcSymmetry == Permutations(Procs)
=============================================================================
