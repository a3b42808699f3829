------------------------------ MODULE ApplyOnce ------------------------------
(* What the ChangeSet workflow promises its user: the operations of a      *)
(* ChangeSet reach the Vault in their order and each once, by one run of   *)
(* apply; a run that stopped before its first operation may be tried       *)
(* again, one that stopped later is never resumed or repeated.             *)
EXTENDS Naturals

CONSTANTS ChangeSets, MaxOps

VARIABLES
  phase,    \* ChangeSet -> "open", "running" or "closed"
  written   \* ChangeSet -> operation index -> how often it was written

Init ==
  /\ phase = [c \in ChangeSets |-> "open"]
  /\ written = [c \in ChangeSets |-> [i \in 1..MaxOps |-> 0]]

Start(c) ==
  /\ phase[c] = "open"
  /\ phase' = [phase EXCEPT ![c] = "running"]
  /\ UNCHANGED written

WriteNext(c) ==
  /\ phase[c] = "running"
  /\ \E i \in 1..MaxOps :
       /\ \A j \in 1..MaxOps : written[c][j] = IF j < i THEN 1 ELSE 0
       /\ written' = [written EXCEPT ![c][i] = 1]
  /\ UNCHANGED phase

Close(c) ==
  /\ phase[c] = "running"
  /\ phase' = [phase EXCEPT ![c] = "closed"]
  /\ UNCHANGED written

GiveUp(c) ==
  /\ phase[c] = "running"
  /\ \A i \in 1..MaxOps : written[c][i] = 0
  /\ phase' = [phase EXCEPT ![c] = "open"]
  /\ UNCHANGED written

Next == \E c \in ChangeSets : Start(c) \/ WriteNext(c) \/ Close(c) \/ GiveUp(c)

Spec == Init /\ [][Next]_<<phase, written>>
=============================================================================
