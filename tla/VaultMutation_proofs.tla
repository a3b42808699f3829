-------------------------- MODULE VaultMutation_proofs --------------------------
(***************************************************************************)
(* Theorems about VaultMutation, for any processes, entities, operation    *)
(* ids, requests and number of faults.                                     *)
(***************************************************************************)
EXTENDS VaultMutation, FiniteSetTheorems, TLAPS

(* What holds between the steps of a call beyond the types: past the       *)
(* snapshot it has a target, and an update has the document it read.       *)
CallOK ==
  \A p \in Procs :
    /\ step[p] \notin {"idle", "check", "snapshot", "done"} =>
         /\ path[p] \in Paths
         /\ req[p].kind # "create" => base[p] \in Docs

TInv == RepoTypeOK /\ CallOK

LEMMA CandidateType ==
  ASSUME NEW p \in Procs, req[p] \in Requests, RepoAssumption,
         req[p].kind # "create" => base[p] \in Docs
  PROVE  Candidate(p) \in Docs
<1>1. req[p] \in Mutations
  BY DEF RepoAssumption
<1>2. CASE req[p].kind = "create"
  BY <1>1, <1>2 DEF Candidate, Docs, Mutations
<1>3. CASE req[p].kind # "create"
  BY <1>1, <1>3 DEF Candidate, Docs, Mutations
<1> QED BY <1>2, <1>3

LEMMA TypeInit ==
  ASSUME RepoAssumption, RepoInit
  PROVE  TInv
BY DEF RepoAssumption, RepoInit, TInv, RepoTypeOK, CallOK, Docs, Tails, Steps,
       Results

LEMMA TypeStep ==
  ASSUME RepoAssumption, TInv, [RepoNext]_repoVars
  PROVE  TInv'
<1> USE DEF TInv, RepoTypeOK, CallOK
<1>1. ASSUME NEW p \in Procs, NEW m \in Requests, CallBegin(p, m)
      PROVE  TInv'
  BY <1>1 DEF CallBegin, Goto, auditVars, Steps
<1>2. ASSUME NEW p \in Procs, NEW r \in Results, Finish(p, r), step[p] # "idle"
      PROVE  TInv'
  BY <1>2 DEF Finish, Goto, auditVars, Steps
<1>3. ASSUME NEW p \in Procs, CheckAudit(p)
      PROVE  TInv'
  <2>1. CASE \E r \in Results : Finish(p, r)
    BY <1>2, <1>3, <2>1 DEF CheckAudit
  <2>2. CASE ~\E r \in Results : Finish(p, r)
    BY <1>3, <2>2 DEF CheckAudit, Goto, auditVars, Steps, Results
  <2> QED BY <2>1, <2>2
<1>4. ASSUME NEW p \in Procs, SnapshotForCreate(p)
      PROVE  TInv'
  <2>1. CASE \E r \in Results : Finish(p, r)
    BY <1>2, <1>4, <2>1 DEF SnapshotForCreate
  <2>2. CASE ~\E r \in Results : Finish(p, r)
    <3>1. req[p].ent \in Entities
      BY <1>4 DEF SnapshotForCreate, RepoAssumption, Mutations
    <3>2. <<req[p].ent, p>> \in Paths
      BY <3>1 DEF Paths
    <3> QED BY <1>4, <2>2, <3>2 DEF SnapshotForCreate, Goto, auditVars, Steps, Results
  <2> QED BY <2>1, <2>2
<1>5. ASSUME NEW p \in Procs, SnapshotForUpdate(p)
      PROVE  TInv'
  <2>1. CASE \E r \in Results : Finish(p, r)
    BY <1>2, <1>5, <2>1 DEF SnapshotForUpdate
  <2>2. CASE ~\E r \in Results : Finish(p, r)
    <3>1. PICK f \in FilesOf(req[p].ent) :
            /\ Goto(p, "intent")
            /\ path' = [path EXCEPT ![p] = f]
            /\ base' = [base EXCEPT ![p] = vault[f]]
            /\ UNCHANGED <<vault, auditVars, req, res, wrote, writes, faults>>
      BY <1>5, <2>2 DEF SnapshotForUpdate, Results
    <3>2. f \in Paths /\ vault[f] \in Docs
      BY <3>1 DEF FilesOf
    <3> QED BY <1>5, <3>1, <3>2 DEF SnapshotForUpdate, Goto, auditVars, Steps
  <2> QED BY <2>1, <2>2
<1>6. ASSUME NEW p \in Procs, step[p] # "idle", WriteIntent(p)
      PROVE  /\ intents' \in [OpIds -> Nat]
             /\ about' \in [OpIds -> SUBSET [kind : Kinds, ent : Entities]]
  <2>1. req[p] \in Mutations
    BY <1>6 DEF RepoAssumption
  <2> QED BY <1>6, <2>1 DEF WriteIntent, Mutations
<1>7. ASSUME NEW p \in Procs, step[p] # "idle", WriteCommitted(p)
      PROVE  commits' \in [OpIds -> Nat]
  <2>1. req[p] \in Mutations
    BY <1>7 DEF RepoAssumption
  <2> QED BY <1>7, <2>1 DEF WriteCommitted, Mutations
<1>8. ASSUME NEW p \in Procs, AppendIntent(p)
      PROVE  TInv'
  BY <1>6, <1>8 DEF AppendIntent, TailAfterAppend, Tails, Goto, Steps
<1>9. ASSUME NEW p \in Procs, RecheckCreate(p)
      PROVE  TInv'
  <2>1. CASE \E r \in Results : Finish(p, r)
    BY <1>2, <1>9, <2>1 DEF RecheckCreate
  <2>2. CASE ~\E r \in Results : Finish(p, r)
    BY <1>9, <2>2 DEF RecheckCreate, Goto, auditVars, Steps, Results
  <2> QED BY <2>1, <2>2
<1>10. ASSUME NEW p \in Procs, RecheckUpdate(p)
      PROVE  TInv'
  <2>1. CASE \E r \in Results : Finish(p, r)
    BY <1>2, <1>10, <2>1 DEF RecheckUpdate
  <2>2. CASE ~\E r \in Results : Finish(p, r)
    BY <1>10, <2>2 DEF RecheckUpdate, Goto, auditVars, Steps, Results
  <2> QED BY <2>1, <2>2
<1>11. ASSUME NEW p \in Procs, ReplaceFile(p)
      PROVE  TInv'
  <2>1. Candidate(p) \in Docs
    BY <1>11, CandidateType DEF ReplaceFile
  <2>2. req[p].op \in OpIds
    BY <1>11 DEF ReplaceFile, RepoAssumption, Mutations
  <2> QED BY <1>11, <2>1, <2>2 DEF ReplaceFile, Goto, auditVars, Steps
<1>12. ASSUME NEW p \in Procs, ReadBack(p)
      PROVE  TInv'
  <2>1. CASE \E r \in Results : Finish(p, r)
    BY <1>2, <1>12, <2>1 DEF ReadBack
  <2>2. CASE ~\E r \in Results : Finish(p, r)
    BY <1>12, <2>2 DEF ReadBack, Goto, auditVars, Steps, Results
  <2> QED BY <2>1, <2>2
<1>13. ASSUME NEW p \in Procs, AppendCommitted(p)
      PROVE  TInv'
  BY <1>7, <1>13 DEF AppendCommitted, TailAfterAppend, Tails, Goto, Steps, Results
<1>14. ASSUME NEW p \in Procs, AppendFails(p)
      PROVE  TInv'
  <2>1. /\ tail' \in Tails
        /\ intents' \in [OpIds -> Nat]
        /\ commits' \in [OpIds -> Nat]
        /\ about' \in [OpIds -> SUBSET [kind : Kinds, ent : Entities]]
    BY <1>6, <1>7, <1>14 DEF AppendFails, Interrupted, TailAfterAppend, Tails, auditVars
  <2> QED BY <1>14, <2>1 DEF AppendFails, Fault, Goto, Steps, Results
<1>15. ASSUME NEW p \in Procs, ReplaceFails(p)
      PROVE  TInv'
  BY <1>15 DEF ReplaceFails, Fault, auditVars, Goto, Steps, Results
<1>16. ASSUME NEW p \in Procs, Return(p)
      PROVE  TInv'
  BY <1>16 DEF Return, Forget, auditVars, Goto, Steps, Results
<1>17. ASSUME NEW p \in Procs, Crash(p)
      PROVE  TInv'
  BY <1>17 DEF Crash, Fault, Forget, auditVars, Goto, Steps, Results
<1>18. ASSUME NEW p \in Procs, CrashInAppend(p)
      PROVE  TInv'
  <2>1. /\ tail' \in Tails
        /\ intents' \in [OpIds -> Nat]
        /\ commits' \in [OpIds -> Nat]
        /\ about' \in [OpIds -> SUBSET [kind : Kinds, ent : Entities]]
    BY <1>6, <1>7, <1>18 DEF CrashInAppend, Interrupted, TailAfterAppend, Tails
  <2> QED BY <1>18, <2>1 DEF CrashInAppend, Fault, Forget, Goto, Steps, Results
<1>19. ASSUME NEW f \in Paths, OwnerEdits(f)
      PROVE  TInv'
  <2>1. [vault[f] EXCEPT !.edits = @ + 1] \in Docs
    BY <1>19 DEF OwnerEdits, Docs
  <2> QED BY <1>19, <2>1 DEF OwnerEdits, Fault, auditVars, callVars
<1>20. ASSUME NEW f \in Paths, OwnerDeletes(f)
      PROVE  TInv'
  BY <1>20 DEF OwnerDeletes, Fault, auditVars, callVars
<1>21. CASE RepairAuditTail
  BY <1>21 DEF RepairAuditTail, callVars, Tails
<1>22. CASE UNCHANGED repoVars
  BY <1>22 DEF repoVars
<1> QED BY <1>1, <1>3, <1>4, <1>5, <1>8, <1>9, <1>10, <1>11, <1>12, <1>13, <1>14,
           <1>15, <1>16, <1>17, <1>18, <1>19, <1>20, <1>21, <1>22
        DEF RepoNext, CallStep, Environment

(* Type correctness: in every reachable state of any number of concurrent  *)
(* repository calls, crashes and edits, every variable has its type.       *)
THEOREM RepoTypeCorrect == RepoSpec => []RepoTypeOK
<1>1. RepoInit => TInv
  BY RepoAssumption, TypeInit
<1>2. TInv /\ [RepoNext]_repoVars => TInv'
  BY RepoAssumption, TypeStep
<1>3. TInv => RepoTypeOK
  BY DEF TInv
<1> QED BY <1>1, <1>2, <1>3, PTL DEF RepoSpec
-----------------------------------------------------------------------------
(* Write-ahead.  WriteAhead is not inductive: what makes it hold is that a *)
(* process about to replace a file has an intent of its own that stands    *)
(* for no write yet.  So those processes are counted with the writes, and  *)
(* the processes about to append a committed record with the commits.      *)

Announced(o) == {p \in Procs : step[p] \in {"recheck", "replace"} /\ req[p].op = o}
Replaced(o) == {p \in Procs : step[p] \in {"readback", "commit"} /\ req[p].op = o}

AInv == \A o \in OpIds :
  /\ writes[o] + Cardinality(Announced(o)) <= intents[o]
  /\ commits[o] + Cardinality(Replaced(o)) <= writes[o]

LEMMA Counting ==
  ASSUME RepoAssumption, NEW S \in SUBSET Procs, NEW T \in SUBSET Procs, NEW p
  PROVE  /\ Cardinality(S) \in Nat
         /\ S \subseteq T => Cardinality(S) <= Cardinality(T)
         /\ S \subseteq T \union {p} => Cardinality(S) <= Cardinality(T) + 1
         /\ p \in T /\ S \subseteq T \ {p} => Cardinality(S) + 1 <= Cardinality(T)
<1>1. IsFiniteSet(S) /\ IsFiniteSet(T)
  BY FS_Subset DEF RepoAssumption
<1>2. Cardinality(S) \in Nat /\ Cardinality(T) \in Nat
  BY <1>1, FS_CardinalityType
<1>3. S \subseteq T => Cardinality(S) <= Cardinality(T)
  BY <1>1, FS_Subset
<1>4. /\ IsFiniteSet(T \union {p})
      /\ Cardinality(T \union {p}) <= Cardinality(T) + 1
  <2>1. /\ IsFiniteSet(T \union {p})
        /\ \/ Cardinality(T \union {p}) = Cardinality(T)
           \/ Cardinality(T \union {p}) = Cardinality(T) + 1
    BY <1>1, FS_AddElement
  <2> QED BY <1>2, <2>1
<1>5. S \subseteq T \union {p} => Cardinality(S) <= Cardinality(T \union {p})
  BY <1>4, FS_Subset
<1>6. /\ IsFiniteSet(T \ {p})
      /\ p \in T => Cardinality(T \ {p}) = Cardinality(T) - 1
  BY <1>1, FS_RemoveElement
<1>7. S \subseteq T \ {p} => Cardinality(S) <= Cardinality(T \ {p})
  BY <1>6, FS_Subset
<1>8. Cardinality(T \union {p}) \in Nat /\ Cardinality(T \ {p}) \in Nat
  BY <1>4, <1>6, FS_CardinalityType
<1> QED BY <1>2, <1>3, <1>4, <1>5, <1>6, <1>7, <1>8

LEMMA WriteAheadInit ==
  ASSUME RepoAssumption, RepoInit
  PROVE  AInv
<1>1. \A o \in OpIds : Announced(o) = {} /\ Replaced(o) = {}
  BY DEF RepoInit, Announced, Replaced
<1>2. \A o \in OpIds : /\ Cardinality(Announced(o)) = 0
                       /\ Cardinality(Replaced(o)) = 0
  BY <1>1, FS_EmptySet
<1> QED BY <1>2 DEF RepoInit, AInv

(* A step that only lets processes drop out of the two sets, writes        *)
(* nothing and takes no record away keeps the invariant.                   *)
LEMMA FewerInFlight ==
  ASSUME RepoAssumption, TInv, AInv,
         writes' = writes,
         \A o \in OpIds : intents'[o] \in Nat /\ intents[o] <= intents'[o],
         commits' = commits,
         \A o \in OpIds : Announced(o)' \subseteq Announced(o),
         \A o \in OpIds : Replaced(o)' \subseteq Replaced(o)
  PROVE  AInv'
<1> SUFFICES ASSUME NEW o \in OpIds
             PROVE  /\ writes'[o] + Cardinality(Announced(o)') <= intents'[o]
                    /\ commits'[o] + Cardinality(Replaced(o)') <= writes'[o]
  BY DEF AInv
<1>1. /\ Announced(o) \in SUBSET Procs /\ Announced(o)' \in SUBSET Procs
      /\ Replaced(o) \in SUBSET Procs /\ Replaced(o)' \in SUBSET Procs
  BY DEF Announced, Replaced
<1>2. /\ Cardinality(Announced(o)) \in Nat /\ Cardinality(Announced(o)') \in Nat
      /\ Cardinality(Replaced(o)) \in Nat /\ Cardinality(Replaced(o)') \in Nat
      /\ Cardinality(Announced(o)') <= Cardinality(Announced(o))
      /\ Cardinality(Replaced(o)') <= Cardinality(Replaced(o))
  BY <1>1, Counting
<1>3. /\ writes[o] \in Nat /\ commits[o] \in Nat /\ intents[o] \in Nat
      /\ writes[o] + Cardinality(Announced(o)) <= intents[o]
      /\ commits[o] + Cardinality(Replaced(o)) <= writes[o]
  BY DEF TInv, RepoTypeOK, AInv
<1> QED BY <1>2, <1>3

LEMMA WriteAheadStep ==
  ASSUME RepoAssumption, TInv, AInv, [RepoNext]_repoVars
  PROVE  AInv'
<1> USE DEF TInv, RepoTypeOK
<1>1. ASSUME UNCHANGED <<intents, commits, writes>>,
             \A q \in Procs : \/ step'[q] = step[q] /\ req'[q] = req[q]
                              \/ step'[q] \notin {"recheck", "replace", "readback", "commit"}
                              \/ /\ step[q] = "recheck" /\ step'[q] = "replace"
                                 /\ req'[q] = req[q]
                              \/ /\ step[q] = "readback" /\ step'[q] = "commit"
                                 /\ req'[q] = req[q]
      PROVE  AInv'
  <2>1. \A o \in OpIds : /\ Announced(o)' \subseteq Announced(o)
                         /\ Replaced(o)' \subseteq Replaced(o)
    BY <1>1 DEF Announced, Replaced
  <2> QED BY <1>1, <2>1, FewerInFlight
<1>2. ASSUME NEW p \in Procs, NEW m \in Requests, CallBegin(p, m)
      PROVE  AInv'
  BY <1>1, <1>2 DEF CallBegin, Goto, auditVars
<1>3. ASSUME NEW p \in Procs, NEW r, Finish(p, r)
      PROVE  AInv'
  BY <1>1, <1>3 DEF Finish, Goto, auditVars
<1>4. ASSUME NEW p \in Procs,
             \/ CheckAudit(p) \/ SnapshotForCreate(p) \/ SnapshotForUpdate(p)
             \/ RecheckCreate(p) \/ RecheckUpdate(p) \/ ReadBack(p)
      PROVE  AInv'
  <2>1. CASE \E r : Finish(p, r)
    BY <1>3, <2>1
  <2>2. CASE ~\E r : Finish(p, r)
    BY <1>1, <1>4, <2>2
    DEF CheckAudit, SnapshotForCreate, SnapshotForUpdate, RecheckCreate,
        RecheckUpdate, ReadBack, Goto, auditVars
  <2> QED BY <2>1, <2>2
<1>5. ASSUME NEW p \in Procs, AppendIntent(p)
      PROVE  AInv'
  <2> DEFINE a == req[p].op
  <2>1. a \in OpIds
    BY <1>5 DEF AppendIntent, RepoAssumption, Mutations
  <2>2. /\ intents'[a] = intents[a] + 1
        /\ \A o \in OpIds : o # a => intents'[o] = intents[o]
    BY <1>5, <2>1 DEF AppendIntent, WriteIntent
  <2> SUFFICES ASSUME NEW o \in OpIds
               PROVE  /\ writes'[o] + Cardinality(Announced(o)') <= intents'[o]
                      /\ commits'[o] + Cardinality(Replaced(o)') <= writes'[o]
    BY DEF AInv
  <2>3. /\ Announced(o)' \subseteq Announced(o) \union {p}
        /\ o # a => Announced(o)' \subseteq Announced(o)
        /\ Replaced(o)' \subseteq Replaced(o)
    BY <1>5 DEF AppendIntent, Announced, Replaced, Goto
  <2>4. /\ Announced(o) \in SUBSET Procs /\ Announced(o)' \in SUBSET Procs
        /\ Replaced(o) \in SUBSET Procs /\ Replaced(o)' \in SUBSET Procs
    BY DEF Announced, Replaced
  <2>5. /\ Cardinality(Announced(o)) \in Nat /\ Cardinality(Announced(o)') \in Nat
        /\ Cardinality(Replaced(o)) \in Nat /\ Cardinality(Replaced(o)') \in Nat
        /\ Cardinality(Announced(o)') <= Cardinality(Announced(o)) + 1
        /\ o # a => Cardinality(Announced(o)') <= Cardinality(Announced(o))
        /\ Cardinality(Replaced(o)') <= Cardinality(Replaced(o))
    BY <2>3, <2>4, Counting
  <2>6. /\ writes[o] \in Nat /\ commits[o] \in Nat /\ intents[o] \in Nat
        /\ writes[o] + Cardinality(Announced(o)) <= intents[o]
        /\ commits[o] + Cardinality(Replaced(o)) <= writes[o]
        /\ writes' = writes /\ commits' = commits
    BY <1>5 DEF AInv, AppendIntent
  <2> QED BY <2>2, <2>5, <2>6
<1>6. ASSUME NEW p \in Procs, ReplaceFile(p)
      PROVE  AInv'
  <2> DEFINE a == req[p].op
  <2>1. a \in OpIds
    BY <1>6 DEF ReplaceFile, RepoAssumption, Mutations
  <2>2. /\ writes'[a] = writes[a] + 1
        /\ \A o \in OpIds : o # a => writes'[o] = writes[o]
        /\ intents' = intents /\ commits' = commits
    BY <1>6, <2>1 DEF ReplaceFile, auditVars
  <2> SUFFICES ASSUME NEW o \in OpIds
               PROVE  /\ writes'[o] + Cardinality(Announced(o)') <= intents'[o]
                      /\ commits'[o] + Cardinality(Replaced(o)') <= writes'[o]
    BY DEF AInv
  <2>3. /\ Announced(o)' \subseteq Announced(o) \ {p}
        /\ o = a => p \in Announced(o)
        /\ Replaced(o)' \subseteq Replaced(o) \union {p}
        /\ o # a => Replaced(o)' \subseteq Replaced(o)
    BY <1>6 DEF ReplaceFile, Announced, Replaced, Goto
  <2>4. /\ Announced(o) \in SUBSET Procs /\ Announced(o)' \in SUBSET Procs
        /\ Replaced(o) \in SUBSET Procs /\ Replaced(o)' \in SUBSET Procs
        /\ Announced(o)' \subseteq Announced(o)
    BY <2>3 DEF Announced, Replaced
  <2>5. /\ Cardinality(Announced(o)) \in Nat /\ Cardinality(Announced(o)') \in Nat
        /\ Cardinality(Announced(o)') <= Cardinality(Announced(o))
        /\ o = a => Cardinality(Announced(o)') + 1 <= Cardinality(Announced(o))
    BY <2>3, <2>4, Counting
  <2>6. /\ Cardinality(Replaced(o)) \in Nat /\ Cardinality(Replaced(o)') \in Nat
        /\ Cardinality(Replaced(o)') <= Cardinality(Replaced(o)) + 1
        /\ o # a => Cardinality(Replaced(o)') <= Cardinality(Replaced(o))
    BY <2>3, <2>4, Counting
  <2>7. /\ writes[o] \in Nat /\ commits[o] \in Nat /\ intents[o] \in Nat
        /\ writes[o] + Cardinality(Announced(o)) <= intents[o]
        /\ commits[o] + Cardinality(Replaced(o)) <= writes[o]
    BY DEF AInv
  <2> QED BY <2>2, <2>5, <2>6, <2>7
<1>7. ASSUME NEW p \in Procs, step[p] = "commit", WriteCommitted(p),
             step'[p] \in {"done", "idle"},
             \A q \in Procs \ {p} : step'[q] = step[q] /\ req'[q] = req[q],
             writes' = writes, intents' = intents
      PROVE  AInv'
  <2> DEFINE a == req[p].op
  <2>1. a \in OpIds
    BY <1>7 DEF RepoAssumption, Mutations
  <2>2. /\ commits'[a] = commits[a] + 1
        /\ \A o \in OpIds : o # a => commits'[o] = commits[o]
    BY <1>7, <2>1 DEF WriteCommitted
  <2> SUFFICES ASSUME NEW o \in OpIds
               PROVE  /\ writes'[o] + Cardinality(Announced(o)') <= intents'[o]
                      /\ commits'[o] + Cardinality(Replaced(o)') <= writes'[o]
    BY DEF AInv
  <2>3. /\ Announced(o)' \subseteq Announced(o)
        /\ Replaced(o)' \subseteq Replaced(o) \ {p}
        /\ o = a => p \in Replaced(o)
    BY <1>7 DEF Announced, Replaced
  <2>4. /\ Announced(o) \in SUBSET Procs /\ Announced(o)' \in SUBSET Procs
        /\ Replaced(o) \in SUBSET Procs /\ Replaced(o)' \in SUBSET Procs
        /\ Replaced(o)' \subseteq Replaced(o)
    BY <2>3 DEF Announced, Replaced
  <2>5. /\ Cardinality(Announced(o)) \in Nat /\ Cardinality(Announced(o)') \in Nat
        /\ Cardinality(Replaced(o)) \in Nat /\ Cardinality(Replaced(o)') \in Nat
        /\ Cardinality(Announced(o)') <= Cardinality(Announced(o))
        /\ Cardinality(Replaced(o)') <= Cardinality(Replaced(o))
        /\ o = a => Cardinality(Replaced(o)') + 1 <= Cardinality(Replaced(o))
    BY <2>3, <2>4, Counting
  <2>6. /\ writes[o] \in Nat /\ commits[o] \in Nat /\ intents[o] \in Nat
        /\ writes[o] + Cardinality(Announced(o)) <= intents[o]
        /\ commits[o] + Cardinality(Replaced(o)) <= writes[o]
    BY DEF AInv
  <2> QED BY <1>7, <2>2, <2>5, <2>6
<1>8. ASSUME NEW p \in Procs, AppendCommitted(p)
      PROVE  AInv'
  BY <1>7, <1>8 DEF AppendCommitted, Goto
<1>9. ASSUME NEW p \in Procs,
             \/ ReplaceFails(p) \/ Return(p) \/ Crash(p)
      PROVE  AInv'
  BY <1>1, <1>9 DEF ReplaceFails, Return, Crash, Forget, Goto, auditVars
<1>10. ASSUME NEW p \in Procs, AppendFails(p) \/ CrashInAppend(p)
       PROVE  AInv'
  <2>1. /\ step'[p] \in {"idle", "done"} /\ writes' = writes
        /\ \A q \in Procs \ {p} : step'[q] = step[q] /\ req'[q] = req[q]
    BY <1>10 DEF AppendFails, CrashInAppend, Forget, Goto
  <2>2. CASE UNCHANGED <<intents, commits, about>>
    BY <1>1, <2>1, <2>2
  <2>3. CASE step[p] = "intent" /\ WriteIntent(p) /\ UNCHANGED commits
    <3>1. req[p].op \in OpIds
      BY <2>3 DEF RepoAssumption, Mutations
    <3>2. \A o \in OpIds : intents'[o] \in Nat /\ intents[o] <= intents'[o]
      BY <2>3, <3>1 DEF WriteIntent
    <3>3. \A o \in OpIds : /\ Announced(o)' \subseteq Announced(o)
                           /\ Replaced(o)' \subseteq Replaced(o)
      BY <2>1 DEF Announced, Replaced
    <3> QED BY <2>1, <2>3, <3>2, <3>3, FewerInFlight
  <2>4. CASE step[p] = "commit" /\ WriteCommitted(p) /\ UNCHANGED <<intents, about>>
    BY <1>7, <2>1, <2>4
  <2> QED BY <1>10, <2>2, <2>3, <2>4 DEF AppendFails, CrashInAppend, Interrupted, auditVars
<1>11. CASE Environment \/ UNCHANGED repoVars
  BY <1>1, <1>11 DEF Environment, OwnerEdits, OwnerDeletes, RepairAuditTail,
                     repoVars, auditVars, callVars
<1> QED BY <1>2, <1>4, <1>5, <1>6, <1>8, <1>9, <1>10, <1>11 DEF RepoNext, CallStep

LEMMA WriteAheadMeaning == TInv /\ AInv => WriteAhead /\ CommittedWasWritten
<1> SUFFICES ASSUME TInv, AInv, NEW o \in OpIds
             PROVE  writes[o] <= intents[o] /\ commits[o] <= writes[o]
  BY DEF WriteAhead, CommittedWasWritten
<1>1. Announced(o) \in SUBSET Procs /\ Replaced(o) \in SUBSET Procs
  BY DEF Announced, Replaced
<1>2. Cardinality(Announced(o)) \in Nat /\ Cardinality(Replaced(o)) \in Nat
  BY <1>1, RepoAssumption, Counting
<1> QED BY <1>2 DEF TInv, RepoTypeOK, AInv

(* Every write of an operation was announced by an intent of its own, for  *)
(* any number of processes that race on the same operation ids.            *)
THEOREM WriteAheadHolds == RepoSpec => [](WriteAhead /\ CommittedWasWritten)
<1>1. RepoInit => TInv /\ AInv
  BY RepoAssumption, TypeInit, WriteAheadInit
<1>2. TInv /\ AInv /\ [RepoNext]_repoVars => (TInv /\ AInv)'
  BY RepoAssumption, TypeStep, WriteAheadStep
<1> QED BY <1>1, <1>2, WriteAheadMeaning, PTL DEF RepoSpec

-----------------------------------------------------------------------------
(* One process.  Without a second call in flight, what the audit check and *)
(* the snapshot saw still holds when the intent is appended and the file   *)
(* is replaced, except for what the owner of the Vault does in between.    *)

OneProcess == \A p, q \in Procs : p = q

Fresh ==
  /\ \A o \in OpIds : intents[o] <= 1
  /\ \A p \in Procs : step[p] \in {"snapshot", "intent"} => intents[req[p].op] = 0

OnlyTarget(p) ==
  \A g \in Paths : vault[g] # NoDoc /\ g[1] = path[p][1] => g = path[p]

Unchallenged(p) ==
  /\ OnlyTarget(p)
  /\ vault[path[p]] # NoDoc =>
       /\ req[p].kind # "create"
       /\ vault[path[p]].rev = base[p].rev
       /\ vault[path[p]].marks = base[p].marks

SInv ==
  /\ Fresh
  /\ \A f, g \in Paths : vault[f] # NoDoc /\ vault[g] # NoDoc /\ f[1] = g[1] => f = g
  /\ \A p \in Procs : step[p] \in {"intent", "recheck", "replace"} => Unchallenged(p)

LEMMA SoloInit ==
  ASSUME RepoAssumption, RepoInit
  PROVE  SInv
<1>1. Fresh
  BY DEF RepoInit, Fresh
<1>2. ASSUME NEW f \in Paths, NEW g \in Paths,
             vault[f] # NoDoc, vault[g] # NoDoc, f[1] = g[1]
      PROVE  f = g
  BY <1>2 DEF RepoInit, Paths
<1> QED BY <1>1, <1>2 DEF RepoInit, SInv

(* Steps that leave the Vault and the intents alone, and under which no    *)
(* process comes nearer to its write than the invariant already covers.    *)
LEMMA SoloQuiet ==
  ASSUME RepoAssumption, TInv, SInv, vault' = vault, intents' = intents,
         \A p \in Procs :
           \/ step'[p] \notin {"snapshot", "intent", "recheck", "replace"}
           \/ /\ req'[p] = req[p] /\ path'[p] = path[p] /\ base'[p] = base[p]
              /\ \/ step'[p] = step[p]
                 \/ step[p] = "recheck" /\ step'[p] = "replace"
  PROVE  SInv'
BY DEF SInv, Fresh, Unchallenged, OnlyTarget

LEMMA SoloStep ==
  ASSUME RepoAssumption, OneProcess, TInv, SInv, [RepoNext]_repoVars
  PROVE  SInv'
<1> USE DEF TInv, RepoTypeOK, CallOK
<1>1. ASSUME NEW p \in Procs, NEW m \in Requests, CallBegin(p, m)
      PROVE  SInv'
  BY <1>1, SoloQuiet DEF CallBegin, Goto, auditVars
<1>2. ASSUME NEW p \in Procs, NEW r, Finish(p, r)
      PROVE  SInv'
  BY <1>2, SoloQuiet DEF Finish, Goto, auditVars
<1>3. ASSUME NEW p \in Procs, CheckAudit(p)
      PROVE  SInv'
  <2>1. CASE \E r : Finish(p, r)
    BY <1>2, <2>1
  <2>2. CASE ~\E r : Finish(p, r)
    <3>1. /\ intents[req[p].op] + commits[req[p].op] = 0
          /\ step[p] = "check" /\ Goto(p, "snapshot")
          /\ UNCHANGED <<vault, intents, req, path, base>>
      BY <1>3, <2>2 DEF CheckAudit, auditVars
    <3>2. req[p].op \in OpIds
      BY <1>3 DEF CheckAudit, RepoAssumption, Mutations
    <3>3. intents[req[p].op] = 0
      BY <3>1, <3>2
    <3> QED BY <3>1, <3>3 DEF SInv, Fresh, Unchallenged, OnlyTarget, Goto
  <2> QED BY <2>1, <2>2
<1>4. ASSUME NEW p \in Procs, SnapshotForCreate(p)
      PROVE  SInv'
  <2>1. CASE \E r : Finish(p, r)
    BY <1>2, <2>1
  <2>2. CASE ~\E r : Finish(p, r)
    <3>1. /\ step[p] = "snapshot" /\ ~Exists(req[p].ent) /\ Goto(p, "intent")
          /\ path' = [path EXCEPT ![p] = <<req[p].ent, p>>]
          /\ UNCHANGED <<vault, intents, req, base>>
      BY <1>4, <2>2 DEF SnapshotForCreate, auditVars
    <3>2. path'[p] = <<req[p].ent, p>> /\ path'[p] \in Paths
      BY <3>1, <1>4 DEF RepoAssumption, Mutations, Paths
    <3>3. Unchallenged(p)'
      BY <3>1, <3>2 DEF Unchallenged, OnlyTarget, Exists, FilesOf
    <3>4. \A q \in Procs : q = p
      BY DEF OneProcess
    <3> QED BY <3>1, <3>3, <3>4 DEF SInv, Fresh, Goto
  <2> QED BY <2>1, <2>2
<1>5. ASSUME NEW p \in Procs, SnapshotForUpdate(p)
      PROVE  SInv'
  <2>1. CASE \E r : Finish(p, r)
    BY <1>2, <2>1
  <2>2. CASE ~\E r : Finish(p, r)
    <3>1. /\ step[p] = "snapshot" /\ Goto(p, "intent")
          /\ req[p].kind # "create"
          /\ UNCHANGED <<vault, intents, req>>
          /\ \E f \in FilesOf(req[p].ent) :
               /\ path' = [path EXCEPT ![p] = f]
               /\ base' = [base EXCEPT ![p] = vault[f]]
      BY <1>5, <2>2 DEF SnapshotForUpdate, auditVars
    <3>2. PICK f \in FilesOf(req[p].ent) :
               /\ path' = [path EXCEPT ![p] = f]
               /\ base' = [base EXCEPT ![p] = vault[f]]
      BY <3>1
    <3>3. path'[p] = f /\ base'[p] = vault[f] /\ f \in Paths /\ vault[f] # NoDoc
      BY <3>2 DEF FilesOf
    <3>4. Unchallenged(p)'
      BY <3>1, <3>3 DEF Unchallenged, OnlyTarget, SInv
    <3>5. \A q \in Procs : q = p
      BY DEF OneProcess
    <3> QED BY <3>1, <3>4, <3>5 DEF SInv, Fresh, Goto
  <2> QED BY <2>1, <2>2
<1>6. ASSUME NEW p \in Procs, step[p] = "intent", WriteIntent(p)
      PROVE  \A o \in OpIds : intents'[o] <= 1
  <2>1. req[p].op \in OpIds
    BY <1>6 DEF RepoAssumption, Mutations
  <2>2. intents[req[p].op] = 0
    BY <1>6 DEF SInv, Fresh
  <2> QED BY <1>6, <2>1, <2>2 DEF WriteIntent, SInv, Fresh
<1>7. ASSUME NEW p \in Procs, AppendIntent(p)
      PROVE  SInv'
  <2>1. /\ step[p] = "intent" /\ step'[p] = "recheck"
        /\ UNCHANGED <<vault, req, path, base>>
    BY <1>7 DEF AppendIntent, Goto
  <2>2. \A q \in Procs : q = p
    BY DEF OneProcess
  <2>3. Fresh'
    BY <1>6, <1>7, <2>1, <2>2 DEF Fresh, AppendIntent
  <2>4. Unchallenged(p)'
    BY <2>1 DEF SInv, Unchallenged, OnlyTarget
  <2> QED BY <2>1, <2>2, <2>3, <2>4 DEF SInv
<1>8. ASSUME NEW p \in Procs, RecheckCreate(p) \/ RecheckUpdate(p) \/ ReadBack(p)
      PROVE  SInv'
  <2>1. CASE \E r : Finish(p, r)
    BY <1>2, <2>1
  <2>2. CASE ~\E r : Finish(p, r)
    BY <1>8, <2>2, SoloQuiet
    DEF RecheckCreate, RecheckUpdate, ReadBack, Goto, auditVars
  <2> QED BY <2>1, <2>2
<1>9. ASSUME NEW p \in Procs, ReplaceFile(p)
      PROVE  SInv'
  <2>1. /\ step[p] = "replace" /\ step'[p] = "readback"
        /\ vault' = [vault EXCEPT ![path[p]] = Candidate(p)]
        /\ UNCHANGED <<intents, req, path, base>>
    BY <1>9 DEF ReplaceFile, Goto, auditVars
  <2>2. OnlyTarget(p)
    BY <2>1 DEF SInv, Unchallenged
  <2>3. \A q \in Procs : q = p
    BY DEF OneProcess
  <2>4. \A f, g \in Paths : vault'[f] # NoDoc /\ vault'[g] # NoDoc /\ f[1] = g[1] => f = g
    BY <2>1, <2>2 DEF SInv, OnlyTarget
  <2> QED BY <2>1, <2>3, <2>4 DEF SInv, Fresh
<1>10. ASSUME NEW p \in Procs,
              \/ AppendCommitted(p) \/ ReplaceFails(p)
              \/ Return(p) \/ Crash(p)
       PROVE  SInv'
  BY <1>10, SoloQuiet DEF AppendCommitted, ReplaceFails, Return, Crash,
                          Forget, Goto, auditVars
<1>11. ASSUME NEW p \in Procs, AppendFails(p) \/ CrashInAppend(p)
       PROVE  SInv'
  <2>1. step'[p] \in {"idle", "done"} /\ vault' = vault
    BY <1>11 DEF AppendFails, CrashInAppend, Forget, Goto
  <2>2. \A o \in OpIds : intents'[o] <= 1
    BY <1>6, <1>11 DEF AppendFails, CrashInAppend, Interrupted, SInv, Fresh, auditVars
  <2>3. \A q \in Procs : q = p
    BY DEF OneProcess
  <2> QED BY <2>1, <2>2, <2>3 DEF SInv, Fresh
<1>12. ASSUME NEW f \in Paths, OwnerEdits(f)
       PROVE  SInv'
  <2>1. /\ vault' = [vault EXCEPT ![f].edits = @ + 1]
        /\ vault[f] # NoDoc
        /\ UNCHANGED <<intents, step, req, path, base>>
    BY <1>12 DEF OwnerEdits, auditVars, callVars
  <2>2. vault[f] \in Docs
    BY <2>1
  <2>3. \A g \in Paths : vault'[g] # NoDoc =>
          /\ vault[g] # NoDoc
          /\ vault'[g].rev = vault[g].rev
          /\ vault'[g].marks = vault[g].marks
    BY <2>1, <2>2 DEF Docs
  <2> QED BY <2>1, <2>3 DEF SInv, Fresh, Unchallenged, OnlyTarget
<1>13. ASSUME NEW f \in Paths, OwnerDeletes(f)
       PROVE  SInv'
  <2>1. /\ vault' = [vault EXCEPT ![f] = NoDoc]
        /\ UNCHANGED <<intents, step, req, path, base>>
    BY <1>13 DEF OwnerDeletes, auditVars, callVars
  <2>2. \A g \in Paths : vault'[g] # NoDoc => vault'[g] = vault[g]
    BY <2>1
  <2> QED BY <2>1, <2>2 DEF SInv, Fresh, Unchallenged, OnlyTarget
<1>14. CASE RepairAuditTail \/ UNCHANGED repoVars
  BY <1>14, SoloQuiet DEF RepairAuditTail, repoVars, callVars
<1> QED BY <1>1, <1>3, <1>4, <1>5, <1>7, <1>8, <1>9, <1>10, <1>11, <1>12, <1>13,
           <1>14
        DEF RepoNext, CallStep, Environment

(* A step of one process alone takes nothing out of a file.                *)
LEMMA SoloKeeps ==
  ASSUME RepoAssumption, TInv, SInv, [RepoNext]_repoVars
  PROVE  \A f \in Paths :
           vault[f] # NoDoc /\ vault'[f] # NoDoc =>
             /\ vault[f].marks \subseteq vault'[f].marks
             /\ vault[f].rev <= vault'[f].rev
<1> USE DEF TInv, RepoTypeOK, CallOK
<1>1. \A f \in Paths : vault[f] # NoDoc => vault[f].rev \in Nat
  BY DEF Docs
<1>2. ASSUME vault' = vault
      PROVE  \A f \in Paths : vault[f] # NoDoc => vault[f].rev <= vault'[f].rev
  BY <1>1, <1>2
<1>3. ASSUME NEW p \in Procs, ReplaceFile(p), NEW f \in Paths, vault[f] # NoDoc
      PROVE  vault[f].marks \subseteq vault'[f].marks /\ vault[f].rev <= vault'[f].rev
  <2>1. /\ step[p] = "replace" /\ path[p] \in Paths /\ Unchallenged(p)
        /\ vault' = [vault EXCEPT ![path[p]] = Candidate(p)]
    BY <1>3 DEF ReplaceFile, SInv
  <2>2. CASE f # path[p]
    BY <1>1, <1>3, <2>1, <2>2
  <2>3. CASE f = path[p]
    <3>1. /\ req[p].kind # "create" /\ vault[f].rev = base[p].rev
          /\ vault[f].marks = base[p].marks
      BY <1>3, <2>1, <2>3 DEF Unchallenged
    <3>2. /\ vault'[f].rev = base[p].rev + 1
          /\ vault'[f].marks = base[p].marks \union {req[p].op}
      BY <2>1, <2>3, <3>1 DEF Candidate
    <3>3. vault[f].rev \in Nat
      BY <1>1, <1>3
    <3> QED BY <3>1, <3>2, <3>3
  <2> QED BY <2>2, <2>3
<1>4. ASSUME NEW f \in Paths, OwnerEdits(f), NEW g \in Paths, vault[g] # NoDoc
      PROVE  vault[g].marks \subseteq vault'[g].marks /\ vault[g].rev <= vault'[g].rev
  <2>1. vault' = [vault EXCEPT ![f].edits = @ + 1]
    BY <1>4 DEF OwnerEdits
  <2>2. vault[g] \in Docs
    BY <1>4
  <2>3. vault'[g].marks = vault[g].marks /\ vault'[g].rev = vault[g].rev
    BY <2>1, <2>2 DEF Docs
  <2> QED BY <1>1, <1>4, <2>3
<1>5. ASSUME NEW f \in Paths, OwnerDeletes(f), NEW g \in Paths,
             vault[g] # NoDoc, vault'[g] # NoDoc
      PROVE  vault[g].marks \subseteq vault'[g].marks /\ vault[g].rev <= vault'[g].rev
  <2>1. vault'[g] = vault[g]
    BY <1>5 DEF OwnerDeletes
  <2> QED BY <1>1, <1>5, <2>1
<1>6. CASE UNCHANGED vault
  BY <1>2, <1>6
<1>7. CASE ~UNCHANGED vault
  <2>1. \/ \E p \in Procs : ReplaceFile(p)
        \/ \E f \in Paths : OwnerEdits(f) \/ OwnerDeletes(f)
    BY <1>7
    DEF RepoNext, CallStep, Environment, CallBegin, CheckAudit, SnapshotForCreate,
        SnapshotForUpdate, AppendIntent, RecheckCreate, RecheckUpdate, ReadBack,
        AppendCommitted, AppendFails, ReplaceFails, Return, Crash, CrashInAppend,
        RepairAuditTail, Finish, repoVars
  <2> QED BY <1>3, <1>4, <1>5, <2>1
<1> QED BY <1>6, <1>7

LEMMA SoloInvariant ==
  ASSUME OneProcess
  PROVE  RepoSpec => [](TInv /\ AInv /\ SInv)
<1>1. RepoInit => TInv /\ AInv /\ SInv
  BY RepoAssumption, TypeInit, WriteAheadInit, SoloInit
<1>2. TInv /\ AInv /\ SInv /\ [RepoNext]_repoVars => (TInv /\ AInv /\ SInv)'
  BY OneProcess, RepoAssumption, TypeStep, WriteAheadStep, SoloStep
<1> QED BY <1>1, <1>2, PTL DEF RepoSpec

LEMMA SoloMeaning == TInv /\ AInv /\ SInv => AtMostOnce /\ UniqueEntity
<1>1. TInv /\ AInv /\ SInv => AtMostOnce
  <2> SUFFICES ASSUME TInv, AInv, SInv, NEW o \in OpIds
               PROVE  writes[o] <= 1
    BY DEF AtMostOnce
  <2>1. writes[o] <= intents[o]
    BY WriteAheadMeaning DEF WriteAhead
  <2> QED BY <2>1 DEF TInv, RepoTypeOK, SInv, Fresh
<1>2. SInv => UniqueEntity
  BY DEF SInv, UniqueEntity, Duplicated, FilesOf
<1> QED BY <1>1, <1>2

(* Calls of one process write each operation at most once, in spite of any *)
(* number of crashes, failed appends, torn audit tails and repairs.        *)
THEOREM SoloAtMostOnce ==
  ASSUME OneProcess
  PROVE  RepoSpec => []AtMostOnce
BY SoloInvariant, SoloMeaning, PTL

(* Calls of one process never leave two files for one entity.              *)
THEOREM SoloUniqueEntity ==
  ASSUME OneProcess
  PROVE  RepoSpec => []UniqueEntity
BY SoloInvariant, SoloMeaning, PTL

(* Calls of one process never take an operation's contents out of a file   *)
(* that stays, and never lower its revision, whatever the owner edits.     *)
THEOREM SoloNothingLost ==
  ASSUME OneProcess
  PROVE  RepoSpec => NothingLost
<1>1. TInv /\ SInv /\ [RepoNext]_repoVars =>
        [\A f \in Paths :
           vault[f] # NoDoc /\ vault'[f] # NoDoc =>
             /\ vault[f].marks \subseteq vault'[f].marks
             /\ vault[f].rev <= vault'[f].rev]_vault
  BY RepoAssumption, SoloKeeps
<1> QED BY <1>1, SoloInvariant, PTL DEF RepoSpec, NothingLost

-----------------------------------------------------------------------------
(* What a call reports.  Whether the file has been replaced follows from   *)
(* how far the call has come; a commit that was seen is never taken back.  *)

EInv == \A p \in Procs :
  /\ step[p] \in {"idle", "check", "snapshot", "intent", "recheck", "replace"} =>
       ~wrote[p]
  /\ step[p] \in {"readback", "commit"} => wrote[p]
  /\ step[p] = "done" =>
       /\ res[p] \in {"none", "conflict", "not_found"} => ~wrote[p]
       /\ res[p] = "ok" => wrote[p] /\ commits[req[p].op] > 0
  /\ step[p] # "done" => res[p] = "none"

LEMMA CommitsGrow ==
  ASSUME RepoAssumption, TInv, [RepoNext]_repoVars
  PROVE  \A o \in OpIds : commits[o] <= commits'[o]
<1> USE DEF TInv, RepoTypeOK
<1>1. ASSUME NEW p \in Procs, step[p] # "idle", WriteCommitted(p)
      PROVE  \A o \in OpIds : commits[o] <= commits'[o]
  <2>1. req[p].op \in OpIds
    BY <1>1 DEF RepoAssumption, Mutations
  <2> QED BY <1>1, <2>1 DEF WriteCommitted
<1>2. CASE commits' = commits
  BY <1>2
<1>3. CASE \E p \in Procs : step[p] = "commit" /\ WriteCommitted(p)
  BY <1>1, <1>3
<1>4. commits' = commits \/ \E p \in Procs : step[p] = "commit" /\ WriteCommitted(p)
  BY DEF RepoNext, CallStep, Environment, CallBegin, CheckAudit, SnapshotForCreate,
         SnapshotForUpdate, AppendIntent, RecheckCreate, RecheckUpdate, ReplaceFile,
         ReadBack, AppendCommitted, AppendFails, ReplaceFails, Return, Crash,
         CrashInAppend, Interrupted, OwnerEdits, OwnerDeletes, RepairAuditTail, Finish,
         auditVars, repoVars
<1> QED BY <1>2, <1>3, <1>4

(* Whatever the other calls do, a call that stays where it is keeps what   *)
(* the invariant says of it.                                               *)
LEMMA ReportKept ==
  ASSUME RepoAssumption, TInv, EInv, [RepoNext]_repoVars, NEW p \in Procs,
         \A q \in Procs \ {p} : /\ step'[q] = step[q] /\ req'[q] = req[q]
                                /\ res'[q] = res[q] /\ wrote'[q] = wrote[q],
         /\ step'[p] \in {"idle", "check", "snapshot", "intent", "recheck", "replace"} =>
              ~wrote'[p]
         /\ step'[p] \in {"readback", "commit"} => wrote'[p]
         /\ step'[p] = "done" =>
              /\ res'[p] \in {"none", "conflict", "not_found"} => ~wrote'[p]
              /\ res'[p] = "ok" => wrote'[p] /\ commits'[req'[p].op] > 0
         /\ step'[p] # "done" => res'[p] = "none"
  PROVE  EInv'
<1>1. ASSUME NEW q \in Procs \ {p}, step[q] = "done", res[q] = "ok"
      PROVE  commits'[req[q].op] > 0
  <2>1. req[q].op \in OpIds
    BY <1>1 DEF TInv, RepoTypeOK, RepoAssumption, Mutations
  <2>2. commits[req[q].op] > 0 /\ commits[req[q].op] <= commits'[req[q].op]
    BY <1>1, <2>1, CommitsGrow DEF EInv
  <2>3. TInv'
    BY TypeStep
  <2>4. commits[req[q].op] \in Nat /\ commits'[req[q].op] \in Nat
    BY <2>1, <2>3 DEF TInv, RepoTypeOK
  <2> QED BY <2>2, <2>4
<1>2. \A q \in Procs \ {p} :
        /\ step'[q] \in {"idle", "check", "snapshot", "intent", "recheck", "replace"} =>
             ~wrote'[q]
        /\ step'[q] \in {"readback", "commit"} => wrote'[q]
        /\ step'[q] = "done" =>
             /\ res'[q] \in {"none", "conflict", "not_found"} => ~wrote'[q]
             /\ res'[q] = "ok" => wrote'[q] /\ commits'[req'[q].op] > 0
        /\ step'[q] # "done" => res'[q] = "none"
  BY <1>1 DEF EInv
<1> QED BY <1>2 DEF EInv

LEMMA ReportInit ==
  ASSUME RepoInit
  PROVE  EInv
BY DEF RepoInit, EInv

LEMMA ReportStep ==
  ASSUME RepoAssumption, TInv, EInv, [RepoNext]_repoVars
  PROVE  EInv'
<1> USE DEF TInv, RepoTypeOK
<1>1. ASSUME NEW p \in Procs, NEW m \in Requests, CallBegin(p, m)
      PROVE  EInv'
  <2>1. /\ step'[p] = "check" /\ wrote'[p] = wrote[p] /\ res'[p] = res[p]
        /\ step[p] = "idle"
        /\ \A q \in Procs \ {p} : /\ step'[q] = step[q] /\ req'[q] = req[q]
                                  /\ res'[q] = res[q] /\ wrote'[q] = wrote[q]
    BY <1>1 DEF CallBegin, Goto
  <2> QED BY <2>1, ReportKept DEF EInv
<1>2. ASSUME NEW p \in Procs, NEW r, Finish(p, r), r \in Results \ {"ok"},
             r = "storage" \/ ~wrote[p]
      PROVE  EInv'
  <2>1. /\ step'[p] = "done" /\ wrote'[p] = wrote[p] /\ res'[p] = r
        /\ \A q \in Procs \ {p} : /\ step'[q] = step[q] /\ req'[q] = req[q]
                                  /\ res'[q] = res[q] /\ wrote'[q] = wrote[q]
    BY <1>2 DEF Finish, Goto
  <2> QED BY <1>2, <2>1, ReportKept
<1>3. ASSUME NEW p \in Procs,
             \/ CheckAudit(p) \/ SnapshotForCreate(p) \/ SnapshotForUpdate(p)
             \/ RecheckCreate(p) \/ RecheckUpdate(p)
      PROVE  EInv'
  <2>1. step[p] \in {"check", "snapshot", "recheck"} /\ ~wrote[p]
    BY <1>3 DEF CheckAudit, SnapshotForCreate, SnapshotForUpdate, RecheckCreate,
                RecheckUpdate, EInv
  <2>2. CASE \E r \in Results \ {"ok"} : Finish(p, r)
    BY <1>2, <2>1, <2>2
  <2>3. CASE ~\E r \in Results \ {"ok"} : Finish(p, r)
    <3>1. /\ step'[p] \in {"snapshot", "intent", "replace"} 
          /\ wrote' = wrote /\ res' = res /\ req' = req
          /\ \A q \in Procs \ {p} : step'[q] = step[q]
      BY <1>3, <2>3 DEF CheckAudit, SnapshotForCreate, SnapshotForUpdate,
            RecheckCreate, RecheckUpdate, Goto, Results
    <3> QED BY <2>1, <3>1, ReportKept DEF EInv
  <2> QED BY <2>2, <2>3
<1>4. ASSUME NEW p \in Procs, ReadBack(p)
      PROVE  EInv'
  <2>1. CASE Finish(p, "storage")
    BY <1>2, <2>1 DEF Results
  <2>2. CASE ~Finish(p, "storage")
    <3>1. /\ step[p] = "readback" /\ step'[p] = "commit"
          /\ wrote' = wrote /\ res' = res /\ req' = req
          /\ \A q \in Procs \ {p} : step'[q] = step[q]
      BY <1>4, <2>2 DEF ReadBack, Goto
    <3> QED BY <3>1, ReportKept DEF EInv
  <2> QED BY <2>1, <2>2
<1>5. ASSUME NEW p \in Procs, AppendIntent(p)
      PROVE  EInv'
  <2>1. /\ step[p] = "intent" /\ step'[p] = "recheck"
        /\ wrote' = wrote /\ res' = res /\ req' = req
        /\ \A q \in Procs \ {p} : step'[q] = step[q]
    BY <1>5 DEF AppendIntent, Goto
  <2> QED BY <2>1, ReportKept DEF EInv
<1>6. ASSUME NEW p \in Procs, ReplaceFile(p)
      PROVE  EInv'
  <2>1. /\ step[p] = "replace" /\ step'[p] = "readback"
        /\ wrote'[p] /\ res' = res /\ req' = req
        /\ \A q \in Procs \ {p} : step'[q] = step[q] /\ wrote'[q] = wrote[q]
    BY <1>6 DEF ReplaceFile, Goto
  <2> QED BY <2>1, ReportKept DEF EInv
<1>7. ASSUME NEW p \in Procs, AppendCommitted(p)
      PROVE  EInv'
  <2>1. /\ step[p] = "commit" /\ step'[p] = "done"
        /\ wrote' = wrote /\ res'[p] = "ok" /\ req' = req
        /\ \A q \in Procs \ {p} : step'[q] = step[q] /\ res'[q] = res[q]
    BY <1>7 DEF AppendCommitted, Goto
  <2>2. req[p].op \in OpIds
    BY <2>1 DEF RepoAssumption, Mutations
  <2>3. commits'[req[p].op] = commits[req[p].op] + 1 /\ commits[req[p].op] \in Nat
    BY <1>7, <2>2 DEF AppendCommitted, WriteCommitted
  <2>4. commits'[req'[p].op] > 0
    BY <2>1, <2>3
  <2> QED BY <2>1, <2>4, ReportKept DEF EInv
<1>8. ASSUME NEW p \in Procs, AppendFails(p) \/ ReplaceFails(p)
      PROVE  EInv'
  <2>1. /\ step'[p] = "done" /\ res'[p] = "storage" /\ wrote' = wrote /\ req' = req
        /\ \A q \in Procs \ {p} : step'[q] = step[q] /\ res'[q] = res[q]
    BY <1>8 DEF AppendFails, ReplaceFails, Goto
  <2> QED BY <2>1, ReportKept
<1>9. ASSUME NEW p \in Procs, Return(p) \/ Crash(p) \/ CrashInAppend(p)
      PROVE  EInv'
  <2>1. /\ step'[p] = "idle" /\ ~wrote'[p] /\ res'[p] = "none"
        /\ \A q \in Procs \ {p} : /\ step'[q] = step[q] /\ req'[q] = req[q]
                                  /\ res'[q] = res[q] /\ wrote'[q] = wrote[q]
    BY <1>9 DEF Return, Crash, CrashInAppend, Forget, Goto
  <2> QED BY <2>1, ReportKept
<1>10. CASE Environment \/ UNCHANGED repoVars
  <2>1. UNCHANGED <<step, req, res, wrote, commits>>
    BY <1>10 DEF Environment, OwnerEdits, OwnerDeletes, RepairAuditTail, repoVars,
                 callVars, auditVars
  <2> QED BY <2>1 DEF EInv
<1> QED BY <1>1, <1>3, <1>4, <1>5, <1>6, <1>7, <1>8, <1>9, <1>10
        DEF RepoNext, CallStep

LEMMA ReportInvariant == RepoSpec => [](TInv /\ EInv)
<1>1. RepoInit => TInv /\ EInv
  BY RepoAssumption, TypeInit, ReportInit
<1>2. TInv /\ EInv /\ [RepoNext]_repoVars => (TInv /\ EInv)'
  BY RepoAssumption, TypeStep, ReportStep
<1> QED BY <1>1, <1>2, PTL DEF RepoSpec

(* What apply_changeset reads off the result of a repository call is true, *)
(* for any number of processes: a ConflictError or NotFoundError left the  *)
(* file alone, and a call that returned replaced it and has its committed  *)
(* record in the audit log.                                                *)
THEOREM ErrorsTrue == RepoSpec => []ErrorsTellTheTruth
<1>1. EInv => ErrorsTellTheTruth
  BY DEF EInv, ErrorsTellTheTruth
<1> QED BY <1>1, ReportInvariant, PTL

(* A committed record is only ever appended for a write that was made, for *)
(* any number of processes that race on the same operation ids.            *)
THEOREM CommittedHolds == RepoSpec => []CommittedWasWritten
<1>1. WriteAhead /\ CommittedWasWritten => CommittedWasWritten
  OBVIOUS
<1> QED BY <1>1, WriteAheadHolds, PTL
=============================================================================
