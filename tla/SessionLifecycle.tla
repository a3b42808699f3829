--------------------------- MODULE SessionLifecycle ---------------------------
(* What the session runtime promises its user: sessions are played one     *)
(* after the other, events are numbered from one without gaps, and a       *)
(* completed session stays as it is.                                       *)
EXTENDS Naturals, Sequences

CONSTANT Sessions   \* session numbers, 1 to some bound

VARIABLES
  status,   \* session -> "none", "active" or "completed"
  journal   \* session -> the numbers of its events, in the order of the log

Init ==
  /\ status = [s \in Sessions |-> "none"]
  /\ journal = [s \in Sessions |-> <<>>]

Start(s) ==
  /\ status[s] = "none"
  /\ \A t \in Sessions : t < s => status[t] = "completed"
  /\ \A t \in Sessions : t > s => status[t] = "none"
  /\ status' = [status EXCEPT ![s] = "active"]
  /\ UNCHANGED journal

Record(s) ==
  /\ status[s] = "active"
  /\ journal' = [journal EXCEPT ![s] = Append(@, Len(@) + 1)]
  /\ UNCHANGED status

End(s) ==
  /\ status[s] = "active"
  /\ status' = [status EXCEPT ![s] = "completed"]
  /\ UNCHANGED journal

Next == \E s \in Sessions : Start(s) \/ Record(s) \/ End(s)

Spec == Init /\ [][Next]_<<status, journal>>
=============================================================================
