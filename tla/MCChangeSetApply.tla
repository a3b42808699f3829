--------------------------- MODULE MCChangeSetApply ---------------------------
(* ChangeSetApply on a small instance: c1, bound to a session, has two     *)
(* contents that append to an entity and create one, or create and patch   *)
(* one; c2 patches the entity that c1 appends to, before or after it.      *)
EXTENDS ChangeSetApply, TLC

CONSTANTS p1, p2, c1, c2, v1, v2, e1, e2

Op(k, e, x) == [kind |-> k, ent |-> e, exp |-> x]

MCContent ==
  [c \in {c1, c2} |-> [v \in {v1, v2} |->
    IF c = c1
    THEN IF v = v1 THEN <<Op("append", e1, 1), Op("create", e2, 0)>>
                   ELSE <<Op("create", e2, 0), Op("patch", e2, 1)>>
    ELSE IF v = v1 THEN <<Op("patch", e1, 1)>>
                   ELSE <<Op("patch", e1, 2)>>]]

MCOpIds == {c1, c2} \X (1..2)

MCRequests ==
  UNION {{OpRequest(c, v, i) : i \in 1..Len(MCContent[c][v])} :
           c \in {c1, c2}, v \in {v1, v2}}

(* Processes are interchangeable. *)
ProcSymmetry == Permutations(Procs)
=============================================================================
