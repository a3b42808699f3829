-------------------------- MODULE ChangeSetApply_proofs --------------------------
(***************************************************************************)
(* Theorems about ChangeSetApply: the workflow uses the repository only    *)
(* through its calls, so what is proved of VaultMutation holds of it, and  *)
(* what is announced is approved and in order, for any number of runs of   *)
(* apply at once.                                                          *)
(***************************************************************************)
EXTENDS ChangeSetApply, VaultMutation_proofs

Loaded == {"attempts", "gate", "validate", "apply", "record", "append"}
Before == {"idle", "load", "attempts", "gate", "validate"}
After == {"record", "append"}

(* What a run of apply knows, and what the Vault's log holds of it.        *)
RunOK(p) ==
  /\ pc[p] # "idle" => cs[p] \in ChangeSets
  /\ step[p] # "idle" =>
       /\ pc[p] = "apply"
       /\ req[p] = OpRequest(cs[p], ver[p], nxt[p])
  /\ pc[p] \in Before => nxt[p] = 1
  /\ pc[p] \in Loaded =>
       /\ ver[p] \in Versions
       /\ decided[p] \in Decisions
       /\ decided[p].decision = "approved"
       /\ approval[cs[p]] = decided[p]
  /\ pc[p] \in After \union {"apply"} => decided[p].ver = ver[p]
  /\ pc[p] = "apply" =>
       /\ nxt[p] \in Ops(cs[p], ver[p])
       /\ \A j \in 1..MaxOps : j < nxt[p] => commits[<<cs[p], j>>] > 0
  /\ pc[p] \in After =>
       /\ AttemptOf(p) \in Attempts
       /\ \A j \in 1..outcome[p].applied : commits[<<cs[p], j>>] > 0
       /\ outcome[p].outcome = "applied" =>
            outcome[p].applied = Len(Content[cs[p]][ver[p]])
  /\ step[p] = "done" /\ res[p] = "ok" => commits[req[p].op] > 0

AnnouncedOK ==
  \A o \in OpIds : intents[o] = 0 => about[o] = {}

WInv ==
  /\ TypeOK
  /\ \A p \in Procs : RunOK(p)
  /\ AnnouncedOK
  /\ InOrder
  /\ ApprovedContentOnly
  /\ RecordsTellTheTruth

LEMMA OpIdOf ==
  ASSUME ApplyAssumption, NEW c \in ChangeSets, NEW v \in Versions, NEW i \in Ops(c, v)
  PROVE  /\ i \in 1..MaxOps
         /\ <<c, i>> \in OpIds
         /\ OpRequest(c, v, i) \in Requests
         /\ OpRequest(c, v, i).op = <<c, i>>
BY DEF ApplyAssumption, Ops, OpRequest

LEMMA WorkflowInit ==
  ASSUME RepoAssumption, ApplyAssumption, Init
  PROVE  WInv
<1>1. TypeOK
  <2>1. RepoTypeOK
    BY TypeInit DEF Init, TInv
  <2>2. NoOutcome \in Outcomes
    BY DEF NoOutcome, Outcomes, OutcomeKinds, CommitStates, ApplyAssumption
  <2> QED BY <2>1, <2>2 DEF Init, TypeOK
<1>2. \A p \in Procs : RunOK(p)
  BY DEF Init, RepoInit, RunOK, Before, After, Loaded
<1>3. AnnouncedOK /\ InOrder /\ ApprovedContentOnly
  BY DEF Init, RepoInit, AnnouncedOK, InOrder, ApprovedContentOnly, ApplyAssumption
<1>4. RecordsTellTheTruth
  BY DEF Init, RecordsTellTheTruth
<1> QED BY <1>1, <1>2, <1>3, <1>4 DEF WInv

-----------------------------------------------------------------------------
(* The workflow and the repository.  A step of the workflow is a step of   *)
(* the repository, or leaves it alone, or is a fault outside of it.        *)

Elsewhere == Fault /\ UNCHANGED <<vault, auditVars, callVars, writes>>

LEMMA RepositoryStep ==
  ASSUME RepoAssumption, ApplyAssumption, WInv, [Next]_vars
  PROVE  [RepoNext]_repoVars \/ Elsewhere
<1>1. CASE UNCHANGED vars
  BY <1>1 DEF vars
<1>2. CASE Environment
  BY <1>2 DEF RepoNext
<1>3. ASSUME NEW c \in ChangeSets,
             \/ \E v \in Versions : Save(c, v) \/ ReplaceProposal(c, v)
             \/ \E d \in {"approved", "rejected"} : Decide(c, d)
             \/ CrashInCreate(c)
      PROVE  UNCHANGED repoVars \/ Elsewhere
  BY <1>3 DEF Save, ReplaceProposal, Decide, CrashInCreate, Elsewhere
<1>4. ASSUME NEW p \in Procs, Apply(p)
      PROVE  [RepoNext]_repoVars \/ Elsewhere
  <2>1. CASE \/ \E c \in ChangeSets : Preflight(p, c)
             \/ Load(p) \/ ReadAttempts(p) \/ Gate(p) \/ Validate(p)
             \/ ReadHistory(p) \/ AppendAttempt(p)
    BY <2>1 DEF Preflight, Load, ReadAttempts, Gate, Validate, ReadHistory, AppendAttempt
  <2>2. CASE AppendAttemptFails(p)
    BY <2>2 DEF AppendAttemptFails, Elsewhere
  <2>3. CASE BeginOperation(p)
    <3>1. /\ cs[p] \in ChangeSets /\ ver[p] \in Versions
          /\ nxt[p] \in Ops(cs[p], ver[p])
      BY <2>3 DEF BeginOperation, At, WInv, RunOK, Loaded
    <3>2. OpRequest(cs[p], ver[p], nxt[p]) \in Requests
      BY <3>1, OpIdOf
    <3> QED BY <2>3, <3>2 DEF BeginOperation, RepoNext
  <2>4. CASE Performing(p)
    BY <2>4 DEF Performing, RepoNext
  <2>5. CASE OperationApplied(p) \/ OperationFailed(p)
    BY <2>5 DEF OperationApplied, OperationFailed, OperationFailedWith, RepoNext
  <2>6. CASE ApplyCrashes(p)
    BY <2>6 DEF ApplyCrashes, RepoNext, Elsewhere
  <2> QED BY <1>4, <2>1, <2>2, <2>3, <2>4, <2>5, <2>6 DEF Apply
<1> QED BY <1>1, <1>2, <1>3, <1>4 DEF Next

LEMMA ElsewhereKeeps ==
  ASSUME RepoAssumption, Elsewhere
  PROVE  /\ TInv => TInv'
         /\ AInv => AInv'
         /\ SInv => SInv'
<1>1. TInv => TInv'
  BY DEF Elsewhere, Fault, auditVars, callVars, TInv, RepoTypeOK, CallOK
<1>2. AInv => AInv'
  BY DEF Elsewhere, auditVars, callVars, AInv, Announced, Replaced
<1>3. SInv => SInv'
  BY DEF Elsewhere, auditVars, callVars, SInv, Fresh, Unchallenged, OnlyTarget
<1> QED BY <1>1, <1>2, <1>3

-----------------------------------------------------------------------------
(* What a repository call of process p may do to the audit log.            *)
LogGrows(p) ==
  /\ \A o \in OpIds : commits[o] > 0 => commits'[o] > 0
  /\ \A o \in OpIds :
       \/ intents'[o] = intents[o] /\ about'[o] = about[o]
       \/ /\ o = req[p].op
          /\ intents'[o] > 0
          /\ about'[o] = about[o] \union {[kind |-> req[p].kind, ent |-> req[p].ent]}

LEMMA IntentEffect ==
  ASSUME RepoAssumption, TInv, NEW p \in Procs, step[p] # "idle",
         WriteIntent(p), commits' = commits
  PROVE  LogGrows(p)
<1>1. req[p].op \in OpIds
  BY DEF TInv, RepoTypeOK, RepoAssumption, Mutations
<1> QED BY <1>1 DEF WriteIntent, LogGrows, TInv, RepoTypeOK

LEMMA CommittedEffect ==
  ASSUME RepoAssumption, TInv, NEW p \in Procs, step[p] # "idle",
         WriteCommitted(p), UNCHANGED <<intents, about>>
  PROVE  LogGrows(p) /\ commits'[req[p].op] > 0
<1>1. req[p].op \in OpIds
  BY DEF TInv, RepoTypeOK, RepoAssumption, Mutations
<1> QED BY <1>1 DEF WriteCommitted, LogGrows, TInv, RepoTypeOK

LEMMA CallEffect ==
  ASSUME RepoAssumption, TInv, NEW p \in Procs, CallStep(p)
  PROVE  /\ step[p] # "idle" /\ step'[p] # "idle"
         /\ \A q \in Procs \ {p} : step'[q] = step[q] /\ res'[q] = res[q]
         /\ req' = req
         /\ LogGrows(p)
         /\ step'[p] = "done" /\ res'[p] = "ok" => commits'[req[p].op] > 0
<1> USE DEF TInv, RepoTypeOK
<1>1. ASSUME NEW r, Finish(p, r), step[p] # "idle", r # "ok"
      PROVE  /\ step[p] # "idle" /\ step'[p] = "done" /\ res'[p] = r
             /\ \A q \in Procs \ {p} : step'[q] = step[q] /\ res'[q] = res[q]
             /\ req' = req
             /\ LogGrows(p)
  BY <1>1 DEF Finish, Goto, auditVars, LogGrows
<1>2. CASE \/ CheckAudit(p) \/ SnapshotForCreate(p) \/ SnapshotForUpdate(p)
           \/ RecheckCreate(p) \/ RecheckUpdate(p) \/ ReadBack(p)
  <2>1. CASE \E r \in {"storage", "conflict", "not_found"} : Finish(p, r)
    BY <1>1, <1>2, <2>1
    DEF CheckAudit, SnapshotForCreate, SnapshotForUpdate, RecheckCreate,
        RecheckUpdate, ReadBack
  <2>2. CASE ~\E r \in {"storage", "conflict", "not_found"} : Finish(p, r)
    <3>1. /\ step[p] # "idle" /\ step'[p] \notin {"idle", "done"}
          /\ \A q \in Procs \ {p} : step'[q] = step[q]
          /\ res' = res /\ req' = req /\ UNCHANGED <<intents, commits, about>>
      BY <1>2, <2>2
      DEF CheckAudit, SnapshotForCreate, SnapshotForUpdate, RecheckCreate,
          RecheckUpdate, ReadBack, Goto, auditVars
    <3> QED BY <3>1 DEF LogGrows
  <2> QED BY <2>1, <2>2
<1>3. CASE AppendIntent(p)
  BY <1>3, IntentEffect DEF AppendIntent, Goto
<1>4. CASE ReplaceFile(p)
  BY <1>4 DEF ReplaceFile, Goto, auditVars, LogGrows
<1>5. CASE AppendCommitted(p)
  BY <1>5, CommittedEffect DEF AppendCommitted, Goto
<1>6. CASE ReplaceFails(p)
  BY <1>6 DEF ReplaceFails, Goto, auditVars, LogGrows
<1>7. CASE AppendFails(p)
  <2>1. /\ step[p] # "idle" /\ step'[p] = "done" /\ res'[p] = "storage" /\ req' = req
        /\ \A q \in Procs \ {p} : step'[q] = step[q] /\ res'[q] = res[q]
    BY <1>7 DEF AppendFails, Goto
  <2>2. \/ UNCHANGED <<intents, commits, about>>
        \/ WriteIntent(p) /\ UNCHANGED commits
        \/ WriteCommitted(p) /\ UNCHANGED <<intents, about>>
    BY <1>7 DEF AppendFails, Interrupted, auditVars
  <2>3. LogGrows(p)
    <3>1. CASE UNCHANGED <<intents, commits, about>>
      BY <3>1 DEF LogGrows
    <3> QED BY <2>1, <2>2, <3>1, IntentEffect, CommittedEffect
  <2> QED BY <2>1, <2>3
<1> QED BY <1>2, <1>3, <1>4, <1>5, <1>6, <1>7 DEF CallStep

LEMMA CrashEffect ==
  ASSUME RepoAssumption, TInv, NEW p \in Procs, Crash(p) \/ CrashInAppend(p)
  PROVE  /\ step[p] # "idle" /\ step'[p] = "idle"
         /\ \A q \in Procs \ {p} :
              step'[q] = step[q] /\ res'[q] = res[q] /\ req'[q] = req[q]
         /\ LogGrows(p)
<1>1. /\ step[p] # "idle" /\ step'[p] = "idle"
      /\ \A q \in Procs \ {p} :
           step'[q] = step[q] /\ res'[q] = res[q] /\ req'[q] = req[q]
  BY DEF Crash, CrashInAppend, Forget, Goto, TInv, RepoTypeOK
<1>2. CASE UNCHANGED <<intents, commits, about>>
  BY <1>1, <1>2 DEF LogGrows
<1>3. CASE ~UNCHANGED <<intents, commits, about>>
  <2>1. \/ WriteIntent(p) /\ UNCHANGED commits
        \/ WriteCommitted(p) /\ UNCHANGED <<intents, about>>
    BY <1>3 DEF Crash, CrashInAppend, Interrupted, auditVars
  <2> QED BY <1>1, <2>1, IntentEffect, CommittedEffect
<1> QED BY <1>1, <1>2, <1>3

-----------------------------------------------------------------------------
(* The invariants about the log survive what a call adds to it, because    *)
(* the call is for the operation the run has reached.                      *)
LEMMA LogStep ==
  ASSUME RepoAssumption, ApplyAssumption, TInv, WInv, NEW p \in Procs,
         step[p] # "idle", LogGrows(p), UNCHANGED <<approval, attempts>>
  PROVE  AnnouncedOK' /\ InOrder' /\ ApprovedContentOnly' /\ RecordsTellTheTruth'
<1> DEFINE c == cs[p]
           n == nxt[p]
           x == [kind |-> req[p].kind, ent |-> req[p].ent]
<1>1. /\ c \in ChangeSets /\ ver[p] \in Versions /\ n \in Ops(c, ver[p])
      /\ req[p] = OpRequest(c, ver[p], n)
      /\ approval[c] \in Decisions /\ approval[c].decision = "approved"
      /\ approval[c].ver = ver[p]
      /\ \A j \in 1..MaxOps : j < n => commits[<<c, j>>] > 0
  BY DEF WInv, RunOK, Loaded
<1>2. n \in 1..MaxOps /\ <<c, n>> \in OpIds /\ req[p].op = <<c, n>>
  BY <1>1, OpIdOf
<1>3. AnnouncedOK'
  BY DEF AnnouncedOK, WInv, LogGrows
<1>4. InOrder'
  <2> SUFFICES ASSUME NEW d \in ChangeSets, NEW i \in 1..(MaxOps - 1),
                      intents'[<<d, i + 1>>] > 0
               PROVE  commits'[<<d, i>>] > 0
    BY DEF InOrder
  <2>1. i \in 1..MaxOps /\ i + 1 \in 1..MaxOps
    BY DEF ApplyAssumption
  <2>2. <<d, i>> \in OpIds /\ <<d, i + 1>> \in OpIds
    BY <2>1 DEF ApplyAssumption
  <2>3. CASE intents[<<d, i + 1>>] > 0
    BY <2>2, <2>3 DEF WInv, InOrder, LogGrows
  <2>4. CASE ~(intents[<<d, i + 1>>] > 0)
    <3>1. <<d, i + 1>> = <<c, n>>
      BY <1>2, <2>2, <2>4 DEF LogGrows
    <3>2. commits[<<d, i>>] > 0
      BY <1>1, <2>1, <3>1
    <3> QED BY <2>2, <3>2 DEF LogGrows
  <2> QED BY <2>3, <2>4
<1>5. ApprovedContentOnly'
  <2> SUFFICES ASSUME NEW d \in ChangeSets, NEW i \in 1..MaxOps, intents'[<<d, i>>] > 0
               PROVE  /\ approval[d] \in Decisions
                      /\ approval[d].decision = "approved"
                      /\ i \in Ops(d, approval[d].ver)
                      /\ about'[<<d, i>>] =
                           {[kind |-> Content[d][approval[d].ver][i].kind,
                             ent |-> Content[d][approval[d].ver][i].ent]}
    BY DEF ApprovedContentOnly
  <2>1. <<d, i>> \in OpIds /\ intents[<<d, i>>] \in Nat
    BY DEF ApplyAssumption, TInv, RepoTypeOK
  <2>2. CASE /\ intents'[<<d, i>>] = intents[<<d, i>>]
             /\ about'[<<d, i>>] = about[<<d, i>>]
    BY <2>1, <2>2 DEF WInv, ApprovedContentOnly
  <2>3. CASE /\ <<d, i>> = req[p].op
             /\ about'[<<d, i>>] = about[<<d, i>>] \union {x}
    <3>1. d = c /\ i = n
      BY <1>2, <2>3
    <3>2. x = [kind |-> Content[c][ver[p]][n].kind, ent |-> Content[c][ver[p]][n].ent]
      BY <1>1, SMTT(30) DEF OpRequest
    <3>3. about[<<d, i>>] \in {{}, {x}}
      <4>1. CASE intents[<<d, i>>] = 0
        BY <2>1, <4>1 DEF WInv, AnnouncedOK
      <4>2. CASE intents[<<d, i>>] > 0
        <5>1. about[<<d, i>>] = {[kind |-> Content[d][approval[d].ver][i].kind,
                                  ent |-> Content[d][approval[d].ver][i].ent]}
          BY <4>2 DEF WInv, ApprovedContentOnly
        <5> QED BY <1>1, <3>1, <3>2, <5>1
      <4> QED BY <2>1, <4>1, <4>2
    <3>4. about'[<<d, i>>] = {x}
      BY <2>3, <3>3
    <3> QED BY <1>1, <3>1, <3>2, <3>4
  <2> QED BY <2>1, <2>2, <2>3 DEF LogGrows
<1>6. RecordsTellTheTruth'
  <2> SUFFICES ASSUME NEW d \in ChangeSets, NEW k \in 1..Len(attempts[d])
               PROVE  /\ \A i \in 1..attempts[d][k].applied : commits'[<<d, i>>] > 0
                      /\ attempts[d][k].outcome = "applied" =>
                           attempts[d][k].applied = Len(Content[d][attempts[d][k].ver])
    BY DEF RecordsTellTheTruth
  <2>1. attempts[d][k] \in Attempts
    BY DEF WInv, TypeOK
  <2>2. attempts[d][k].applied \in 0..MaxOps
    BY <2>1 DEF Attempts
  <2>3. \A i \in 1..attempts[d][k].applied : <<d, i>> \in OpIds
    BY <2>2 DEF ApplyAssumption
  <2> QED BY <2>3 DEF WInv, RecordsTellTheTruth, LogGrows
<1> QED BY <1>3, <1>4, <1>5, <1>6

(* They survive a decision being made, and a true record being appended.   *)
LEMMA LogQuiet ==
  ASSUME RepoAssumption, ApplyAssumption, TInv, WInv,
         UNCHANGED <<intents, commits, about>>,
         \A c \in ChangeSets : approval[c] \in Decisions => approval'[c] = approval[c]
  PROVE  AnnouncedOK' /\ InOrder' /\ ApprovedContentOnly'
BY SMTT(30) DEF WInv, AnnouncedOK, InOrder, ApprovedContentOnly

(* What a run knows is not disturbed by steps of others.                   *)
LEMMA RunKept ==
  ASSUME ApplyAssumption, TInv, WInv, NEW q \in Procs,
         \A o \in OpIds : commits[o] > 0 => commits'[o] > 0,
         \A c \in ChangeSets : approval[c] \in Decisions => approval'[c] = approval[c],
         pc'[q] = pc[q], cs'[q] = cs[q], ver'[q] = ver[q], decided'[q] = decided[q],
         nxt'[q] = nxt[q], outcome'[q] = outcome[q],
         step'[q] = step[q], req'[q] = req[q], res'[q] = res[q]
  PROVE  RunOK(q)'
<1>1. RunOK(q)
  BY DEF WInv
<1>2. pc[q] \in Loaded => \A j \in 1..MaxOps : <<cs[q], j>> \in OpIds
  BY <1>1 DEF RunOK, ApplyAssumption, Loaded
<1>3. pc[q] \in After => \A j \in 1..outcome[q].applied : j \in 1..MaxOps
  BY <1>1 DEF RunOK, AttemptOf, Attempts, ApplyAssumption
<1>4. step[q] = "done" => req[q].op \in OpIds
  <2> HAVE step[q] = "done"
  <2>1. /\ cs[q] \in ChangeSets /\ ver[q] \in Versions /\ nxt[q] \in Ops(cs[q], ver[q])
        /\ req[q] = OpRequest(cs[q], ver[q], nxt[q])
    BY <1>1 DEF RunOK, Loaded
  <2>2. /\ OpRequest(cs[q], ver[q], nxt[q]).op = <<cs[q], nxt[q]>>
        /\ <<cs[q], nxt[q]>> \in OpIds
    BY <2>1, OpIdOf
  <2> QED BY <2>1, <2>2
<1> QED BY <1>1, <1>2, <1>3, <1>4 DEF RunOK, AttemptOf, Loaded, Before, After

-----------------------------------------------------------------------------
LEMMA RepositoryTyped ==
  ASSUME RepoAssumption, ApplyAssumption, TInv, WInv, [Next]_vars
  PROVE  TInv'
BY RepositoryStep, TypeStep, ElsewhereKeeps

(* Steps of the reviewer, the owner and the file system.                   *)
LEMMA OutsideStep ==
  ASSUME RepoAssumption, ApplyAssumption, TInv, WInv, TInv',
         UNCHANGED <<callVars, runVars, attempts, intents, commits, about>>,
         proposal' \in [ChangeSets -> Versions \union {Absent, Torn}],
         approval' \in [ChangeSets -> Decisions \union {Absent, Torn}],
         cut' = cut,
         \A c \in ChangeSets : approval[c] \in Decisions => approval'[c] = approval[c]
  PROVE  WInv'
<1>1. TypeOK'
  BY DEF WInv, TypeOK, TInv, runVars
<1>2. \A p \in Procs : RunOK(p)'
  BY RunKept DEF runVars, callVars
<1>3. AnnouncedOK' /\ InOrder' /\ ApprovedContentOnly'
  BY LogQuiet
<1>4. RecordsTellTheTruth'
  BY DEF WInv, RecordsTellTheTruth
<1> QED BY <1>1, <1>2, <1>3, <1>4 DEF WInv

(* Steps of a run that change neither the log nor an artifact, and no      *)
(* other run.                                                              *)
OnlyRun(p) ==
  /\ UNCHANGED <<intents, commits, about, artifacts>>
  /\ \A q \in Procs \ {p} :
       /\ pc'[q] = pc[q] /\ cs'[q] = cs[q] /\ ver'[q] = ver[q]
       /\ decided'[q] = decided[q] /\ nxt'[q] = nxt[q] /\ outcome'[q] = outcome[q]
       /\ step'[q] = step[q] /\ req'[q] = req[q] /\ res'[q] = res[q]

LEMMA RunStep ==
  ASSUME RepoAssumption, ApplyAssumption, TInv, WInv, NEW p \in Procs,
         OnlyRun(p), TypeOK', RunOK(p)'
  PROVE  WInv'
<1>1. ASSUME NEW q \in Procs PROVE RunOK(q)'
  BY RunKept DEF OnlyRun, artifacts
<1>2. AnnouncedOK' /\ InOrder' /\ ApprovedContentOnly'
  BY LogQuiet DEF OnlyRun, artifacts
<1>3. RecordsTellTheTruth'
  BY DEF WInv, RecordsTellTheTruth, OnlyRun, artifacts
<1> QED BY <1>1, <1>2, <1>3 DEF WInv

LEMMA ExitRun ==
  ASSUME TInv, WInv, NEW p \in Procs, Exit(p), step'[p] = "idle"
  PROVE  /\ RunOK(p)'
         /\ \A q \in Procs \ {p} :
              /\ pc'[q] = pc[q] /\ cs'[q] = cs[q] /\ ver'[q] = ver[q]
              /\ decided'[q] = decided[q] /\ nxt'[q] = nxt[q]
              /\ outcome'[q] = outcome[q]
<1>1. /\ pc'[p] = "idle" /\ nxt'[p] = 1
  BY DEF Exit, Move, WInv, TypeOK
<1>2. RunOK(p)'
  BY <1>1 DEF RunOK, Before, After, Loaded
<1> QED BY <1>2 DEF Exit, Move, WInv, TypeOK

LEMMA ExitTypes ==
  ASSUME ApplyAssumption, TInv, WInv, TInv', NEW p \in Procs, Exit(p),
         proposal' = proposal, approval' = approval,
         attempts' \in [ChangeSets -> Seq(Attempts)],
         cut' \in [ChangeSets -> BOOLEAN]
  PROVE  TypeOK'
<1>1. NoOutcome \in Outcomes
  BY DEF NoOutcome, Outcomes, OutcomeKinds, CommitStates, ApplyAssumption
<1>2. <<>> \in Seq(Attempts)
  OBVIOUS
<1> QED BY <1>1, <1>2 DEF Exit, Move, WInv, TypeOK, TInv

(* A run before and after it performs its operations.                      *)
LEMMA ReadingStep ==
  ASSUME RepoAssumption, ApplyAssumption, TInv, WInv, TInv', NEW p \in Procs,
         \/ \E c \in ChangeSets : Preflight(p, c)
         \/ Load(p) \/ ReadAttempts(p) \/ Gate(p) \/ Validate(p) \/ ReadHistory(p)
  PROVE  WInv'
<1>1. /\ UNCHANGED <<repoVars, artifacts>>
      /\ pc[p] # "apply"
  BY DEF Preflight, Load, ReadAttempts, Gate, Validate, ReadHistory, At
<1>2. step[p] = "idle" /\ step'[p] = "idle"
  BY <1>1 DEF WInv, RunOK, repoVars
<1>3. ASSUME Exit(p)
      PROVE  WInv'
  <2>1. TypeOK'
    BY <1>1, <1>3, ExitTypes DEF artifacts, WInv, TypeOK
  <2>2. OnlyRun(p) /\ RunOK(p)'
    BY <1>1, <1>2, <1>3, ExitRun DEF OnlyRun, repoVars
  <2> QED BY <2>1, <2>2, RunStep
<1>4. ASSUME ~Exit(p)
      PROVE  /\ OnlyRun(p) /\ outcome' = outcome
             /\ pc'[p] \in {"load", "attempts", "gate", "validate", "apply", "append"}
    BY <1>1, <1>4 DEF Preflight, Load, ReadAttempts, Gate, Validate, ReadHistory,
                      OnlyRun, repoVars, Move, WInv, TypeOK
<1>5. ASSUME NEW c \in ChangeSets, Preflight(p, c)
      PROVE  WInv'
  <2>1. ~Exit(p)
    BY <1>5 DEF Preflight, Exit, Move, WInv, TypeOK
  <2>2. /\ pc[p] = "idle" /\ pc'[p] = "load" /\ cs'[p] = c /\ nxt'[p] = nxt[p]
    BY <1>5 DEF Preflight, Move, At, WInv, TypeOK
  <2>3. RunOK(p)'
    BY <1>2, <2>2 DEF RunOK, WInv, Before, After, Loaded
  <2>4. TypeOK'
    BY <1>5 DEF Preflight, Move, WInv, TypeOK, TInv, artifacts
  <2> QED BY <1>4, <2>1, <2>3, <2>4, RunStep
<1>6. ASSUME Load(p), ~Exit(p)
      PROVE  WInv'
  <2>1. /\ pc[p] = "load" /\ pc'[p] = "attempts" /\ nxt' = nxt /\ cs' = cs
        /\ ApprovalLoads(cs[p])
        /\ ver'[p] = proposal[cs[p]] /\ decided'[p] = approval[cs[p]]
    BY <1>6 DEF Load, Move, At, WInv, TypeOK
  <2>2. RunOK(p)'
    BY <1>1, <1>2, <2>1 DEF RunOK, WInv, Before, After, Loaded, ApprovalLoads, artifacts
  <2>3. TypeOK'
    <3>1. /\ pc' = [pc EXCEPT ![p] = "attempts"]
          /\ ver' = [ver EXCEPT ![p] = proposal[cs[p]]]
          /\ decided' = [decided EXCEPT ![p] = approval[cs[p]]]
          /\ UNCHANGED <<cs, history, nxt, outcome>>
      BY <1>6 DEF Load, Move
    <3>2. proposal[cs[p]] \in Versions /\ approval[cs[p]] \in Decisions
      BY <2>1 DEF ApprovalLoads
    <3> QED BY <1>1, <3>1, <3>2 DEF WInv, TypeOK, TInv, artifacts
  <2> QED BY <1>4, <1>6, <2>2, <2>3, RunStep
<1>7. ASSUME ReadAttempts(p) \/ Gate(p) \/ ReadHistory(p), ~Exit(p)
      PROVE  WInv'
  <2>1. /\ \/ pc[p] = "attempts" /\ pc'[p] = "gate"
           \/ pc[p] = "gate" /\ pc'[p] = "validate"
           \/ pc[p] = "record" /\ pc'[p] = "append"
        /\ UNCHANGED <<cs, ver, decided, nxt, outcome>>
    BY <1>7 DEF ReadAttempts, Gate, ReadHistory, Move, At, WInv, TypeOK
  <2>2. RunOK(p)'
    BY <1>1, <1>2, <2>1 DEF RunOK, WInv, Before, After, Loaded, artifacts, repoVars, AttemptOf
  <2>3. history' \in [Procs -> Seq(Attempts)] /\ pc' = [pc EXCEPT ![p] = pc'[p]]
    <3>1. cs[p] \in ChangeSets
      BY <2>1 DEF WInv, RunOK
    <3> QED BY <1>7, <2>1, <3>1, ZenonT(30) DEF ReadAttempts, Gate, ReadHistory, WInv, TypeOK, Move
  <2>4. TypeOK'
    BY <1>1, <2>1, <2>3 DEF WInv, TypeOK, TInv, artifacts
  <2> QED BY <1>4, <1>7, <2>2, <2>4, RunStep
<1>8. ASSUME Validate(p), ~Exit(p)
      PROVE  WInv'
  <2>1. /\ pc[p] = "validate" /\ pc'[p] = "apply" /\ decided[p].ver = ver[p]
        /\ UNCHANGED <<cs, ver, decided, history, nxt, outcome>>
    BY <1>8 DEF Validate, Move, At, WInv, TypeOK
  <2>2. cs[p] \in ChangeSets /\ ver[p] \in Versions /\ nxt[p] = 1
    BY <2>1 DEF WInv, RunOK, Loaded, Before
  <2>3. nxt[p] \in Ops(cs[p], ver[p])
    BY <2>2 DEF Ops, ApplyAssumption
  <2>4. \A j \in 1..MaxOps : ~(j < nxt[p])
    BY <2>2 DEF ApplyAssumption
  <2>5. RunOK(p)'
    BY <1>1, <1>2, <2>1, <2>2, <2>3, <2>4
    DEF RunOK, WInv, Before, After, Loaded, artifacts, repoVars
  <2>6. TypeOK'
    BY <1>8, <2>1 DEF Validate, Move, WInv, TypeOK, TInv, artifacts
  <2> QED BY <1>4, <1>8, <2>5, <2>6, RunStep
<1> QED BY <1>3, <1>5, <1>6, <1>7, <1>8

-----------------------------------------------------------------------------
(* A run while it performs its operations.                                 *)
LEMMA BeginStep ==
  ASSUME RepoAssumption, ApplyAssumption, TInv, WInv, TInv', NEW p \in Procs,
         BeginOperation(p)
  PROVE  WInv'
<1>1. /\ UNCHANGED <<artifacts, runVars, intents, commits, about, res>>
      /\ step' = [step EXCEPT ![p] = "check"]
      /\ req' = [req EXCEPT ![p] = OpRequest(cs[p], ver[p], nxt[p])]
      /\ pc[p] = "apply"
  BY DEF BeginOperation, CallBegin, Goto, At, auditVars
<1>2. step'[p] = "check" /\ req'[p] = OpRequest(cs[p], ver[p], nxt[p])
  BY <1>1 DEF TInv, RepoTypeOK
<1>3. OnlyRun(p)
  BY <1>1 DEF OnlyRun, runVars, TInv, RepoTypeOK
<1>4. RunOK(p)'
  BY <1>1, <1>2 DEF RunOK, WInv, Before, After, Loaded, artifacts, runVars
<1>5. TypeOK'
  BY <1>1 DEF WInv, TypeOK, TInv, artifacts, runVars
<1> QED BY <1>3, <1>4, <1>5, RunStep

LEMMA PerformStep ==
  ASSUME RepoAssumption, ApplyAssumption, TInv, WInv, TInv', NEW p \in Procs,
         Performing(p)
  PROVE  WInv'
<1>1. /\ UNCHANGED <<artifacts, runVars>>
      /\ pc[p] = "apply" /\ CallStep(p)
  BY DEF Performing, At
<1>2. /\ step[p] # "idle" /\ step'[p] # "idle"
      /\ \A q \in Procs \ {p} : step'[q] = step[q] /\ res'[q] = res[q]
      /\ req' = req
      /\ LogGrows(p)
      /\ step'[p] = "done" /\ res'[p] = "ok" => commits'[req[p].op] > 0
  BY <1>1, CallEffect
<1>3. AnnouncedOK' /\ InOrder' /\ ApprovedContentOnly' /\ RecordsTellTheTruth'
  BY <1>1, <1>2, LogStep DEF artifacts
<1>4. TypeOK'
  BY <1>1 DEF WInv, TypeOK, TInv, artifacts, runVars
<1>5. \A o \in OpIds : commits[o] > 0 => commits'[o] > 0
  BY <1>2 DEF LogGrows
<1>6. ASSUME NEW q \in Procs, q # p
      PROVE  RunOK(q)'
  BY <1>1, <1>2, <1>5, <1>6, RunKept DEF artifacts, runVars
<1>7. RunOK(p)'
  <2>1. cs[p] \in ChangeSets /\ \A j \in 1..MaxOps : <<cs[p], j>> \in OpIds
    BY <1>1 DEF WInv, RunOK, ApplyAssumption
  <2> QED BY <1>1, <1>2, <1>5, <2>1
          DEF RunOK, WInv, Before, After, Loaded, artifacts, runVars
<1> QED BY <1>3, <1>4, <1>6, <1>7 DEF WInv

LEMMA ReturnStep ==
  ASSUME RepoAssumption, ApplyAssumption, TInv, WInv, TInv', NEW p \in Procs,
         OperationApplied(p) \/ OperationFailed(p)
  PROVE  WInv'
<1> DEFINE c == cs[p]
           v == ver[p]
           n == nxt[p]
<1>1. /\ UNCHANGED <<artifacts, intents, commits, about, cs, ver, decided, history>>
      /\ pc[p] = "apply" /\ step[p] = "done" /\ Forget(p)
  BY DEF OperationApplied, OperationFailed,
     OperationFailedWith, Return, At, auditVars
<1>2. /\ c \in ChangeSets /\ v \in Versions /\ n \in Ops(c, v) /\ n \in 1..MaxOps
      /\ n \in 1..Len(Content[c][v])
      /\ Len(Content[c][v]) \in 1..MaxOps
      /\ req[p].op = <<c, n>>
      /\ \A j \in 1..MaxOps : j < n => commits[<<c, j>>] > 0
  <2>1. /\ c \in ChangeSets /\ v \in Versions /\ n \in Ops(c, v)
        /\ req[p] = OpRequest(c, v, n)
        /\ \A j \in 1..MaxOps : j < n => commits[<<c, j>>] > 0
    BY <1>1 DEF WInv, RunOK, Loaded
  <2> HIDE DEF c, v, n
  <2>2. n \in 1..MaxOps /\ OpRequest(c, v, n).op = <<c, n>>
    BY <2>1, OpIdOf
  <2> USE DEF c, v, n
  <2> QED BY <2>1, <2>2 DEF ApplyAssumption, Ops
<1>3. /\ step'[p] = "idle"
      /\ \A q \in Procs \ {p} : step'[q] = step[q] /\ req'[q] = req[q] /\ res'[q] = res[q]
  BY <1>1 DEF Forget, Goto, TInv, RepoTypeOK
<1>4. CASE OperationApplied(p) /\ n < Len(Content[c][v])
  <2>1. /\ nxt' = [nxt EXCEPT ![p] = n + 1] /\ UNCHANGED <<pc, outcome>>
        /\ res[p] = "ok"
    BY <1>2, <1>4 DEF OperationApplied
  <2>2. nxt'[p] = n + 1 /\ n + 1 \in Ops(c, v) /\ n + 1 \in Nat
    BY <1>2, <1>4, <2>1 DEF WInv, TypeOK, Ops
  <2>3. \A j \in 1..MaxOps : j < n + 1 => commits[<<c, j>>] > 0
    BY <1>1, <1>2, <2>1 DEF WInv, RunOK
  <2>4. RunOK(p)'
    BY <1>1, <1>3, <2>1, <2>2, <2>3
    DEF RunOK, WInv, Before, After, Loaded, artifacts
  <2>5. TypeOK'
    BY <1>1, <2>1, <2>2 DEF WInv, TypeOK, TInv, artifacts
  <2>6. OnlyRun(p)
    BY <1>1, <1>3, <2>1 DEF OnlyRun, WInv, TypeOK
  <2> QED BY <2>4, <2>5, <2>6, RunStep
<1>5. CASE ~(OperationApplied(p) /\ n < Len(Content[c][v]))
  <2>1. PICK x \in Outcomes, m \in Nat :
          /\ outcome' = [outcome EXCEPT ![p] = x]
          /\ nxt' = [nxt EXCEPT ![p] = m]
          /\ pc' = [pc EXCEPT ![p] = "record"]
          /\ \A j \in 1..x.applied : commits[<<c, j>>] > 0
          /\ x.outcome = "applied" => x.applied = Len(Content[c][v])
    <3>1. CASE OperationApplied(p)
      <4> DEFINE x == [outcome |-> "applied", applied |-> n, state |-> "none"]
      <4>1. /\ n = Len(Content[c][v]) /\ res[p] = "ok"
            /\ outcome' = [outcome EXCEPT ![p] = x]
            /\ pc' = [pc EXCEPT ![p] = "record"]
            /\ nxt' = [nxt EXCEPT ![p] = n + 1]
        BY <1>5, <3>1 DEF OperationApplied, Move
      <4>2. \A j \in 1..n : commits[<<c, j>>] > 0
        BY <1>1, <1>2, <4>1, SMTT(30) DEF WInv, RunOK
      <4>3. x \in Outcomes /\ n + 1 \in Nat
        BY <1>2 DEF Outcomes, OutcomeKinds, CommitStates, ApplyAssumption
      <4>4. x.applied = n
        OBVIOUS
      <4> HIDE DEF x
      <4> QED BY <4>1, <4>2, <4>3, <4>4
    <3>2. CASE OperationFailed(p)
      <4> DEFINE k == IF n > 1 THEN "partial" ELSE "failed"
                 w == IF res[p] = "storage" THEN "unconfirmed" ELSE "not_written"
                 x == [outcome |-> k, applied |-> n - 1, state |-> w]
      <4>1. /\ outcome' = [outcome EXCEPT ![p] = x]
            /\ pc' = [pc EXCEPT ![p] = "record"]
            /\ nxt' = [nxt EXCEPT ![p] = n]
        BY <3>2 DEF OperationFailed, OperationFailedWith, Move, WInv, TypeOK
      <4>2. n - 1 \in 0..MaxOps /\ \A j \in 1..(n - 1) : j \in 1..MaxOps /\ j < n
        BY <1>2 DEF ApplyAssumption
      <4>3. x \in Outcomes
        BY <4>2 DEF Outcomes, OutcomeKinds, CommitStates
      <4>4. x.applied = n - 1 /\ x.outcome # "applied" /\ n \in Nat
        BY <1>2
      <4>5. \A j \in 1..x.applied : commits[<<c, j>>] > 0
        BY <1>2, <4>2, <4>4
      <4> HIDE DEF x
      <4> QED BY <4>1, <4>3, <4>4, <4>5
    <3> QED BY <3>1, <3>2
  <2>2. outcome'[p] = x /\ pc'[p] = "record"
    BY <2>1 DEF WInv, TypeOK
  <2>3. AttemptOf(p)' \in Attempts
    BY <1>1, <1>2, <2>2 DEF AttemptOf, Attempts, Outcomes
  <2>4. RunOK(p)'
    BY <1>1, <1>3, <2>1, <2>2, <2>3
    DEF RunOK, WInv, Before, After, Loaded, artifacts
  <2>5. TypeOK'
    BY <1>1, <2>1 DEF WInv, TypeOK, TInv, artifacts
  <2>6. OnlyRun(p)
    BY <1>1, <1>3, <2>1 DEF OnlyRun, WInv, TypeOK
  <2> QED BY <2>4, <2>5, <2>6, RunStep
<1> QED BY <1>4, <1>5

LEMMA AppendStep ==
  ASSUME RepoAssumption, ApplyAssumption, TInv, WInv, TInv', NEW p \in Procs,
         AppendAttempt(p) \/ AppendAttemptFails(p)
  PROVE  WInv'
<1>1. /\ UNCHANGED <<intents, commits, about, proposal, approval, step, req, res>>
      /\ pc[p] = "append" /\ Exit(p)
  BY DEF AppendAttempt, AppendAttemptFails, At, repoVars, auditVars, callVars
<1>2. step[p] = "idle" /\ cs[p] \in ChangeSets /\ AttemptOf(p) \in Attempts
  BY <1>1 DEF WInv, RunOK, After
<1>3. /\ attempts' \in [ChangeSets -> Seq(Attempts)]
      /\ cut' \in [ChangeSets -> BOOLEAN]
      /\ RecordsTellTheTruth'
  <2>1. CASE AppendAttemptFails(p)
    <3>1. attempts' = attempts /\ cut' \in {cut, [cut EXCEPT ![cs[p]] = TRUE]}
      BY <2>1 DEF AppendAttemptFails
    <3>2. cut' \in [ChangeSets -> BOOLEAN]
      BY <3>1 DEF WInv, TypeOK
    <3>3. RecordsTellTheTruth'
      BY <1>1, <3>1 DEF WInv, RecordsTellTheTruth
    <3> QED BY <3>1, <3>2, <3>3 DEF WInv, TypeOK
  <2>2. CASE AppendAttempt(p)
    <3>1. /\ attempts' = [attempts EXCEPT ![cs[p]] = Append(attempts[cs[p]], AttemptOf(p))]
          /\ cut' = cut
      BY <2>2 DEF AppendAttempt
    <3>2. attempts[cs[p]] \in Seq(Attempts)
      BY <1>2 DEF WInv, TypeOK
    <3>3. Append(attempts[cs[p]], AttemptOf(p)) \in Seq(Attempts)
      BY <1>2, <3>2
    <3>4. attempts' \in [ChangeSets -> Seq(Attempts)]
      BY <3>1, <3>3 DEF WInv, TypeOK
    <3>5. RecordsTellTheTruth'
      <4> SUFFICES ASSUME NEW d \in ChangeSets, NEW k \in 1..Len(attempts'[d])
                   PROVE  /\ \A i \in 1..attempts'[d][k].applied : commits'[<<d, i>>] > 0
                          /\ attempts'[d][k].outcome = "applied" =>
                               attempts'[d][k].applied
                                 = Len(Content[d][attempts'[d][k].ver])
        BY DEF RecordsTellTheTruth
      <4>1. CASE /\ k \in 1..Len(attempts[d]) /\ attempts'[d][k] = attempts[d][k]
        BY <1>1, <4>1 DEF WInv, RecordsTellTheTruth
      <4>2. CASE d = cs[p] /\ attempts'[d][k] = AttemptOf(p)
        <5>1. /\ \A i \in 1..outcome[p].applied : commits[<<cs[p], i>>] > 0
              /\ outcome[p].outcome = "applied" =>
                   outcome[p].applied = Len(Content[cs[p]][ver[p]])
          BY <1>1 DEF WInv, RunOK, After
        <5> QED BY <1>1, <4>2, <5>1 DEF AttemptOf
      <4>3. \/ k \in 1..Len(attempts[d]) /\ attempts'[d][k] = attempts[d][k]
            \/ d = cs[p] /\ attempts'[d][k] = AttemptOf(p)
        <5>1. CASE d # cs[p]
          BY <3>1, <5>1 DEF WInv, TypeOK
        <5>2. CASE d = cs[p]
          <6>1. attempts'[d] = Append(attempts[d], AttemptOf(p))
            BY <1>2, <3>1, <5>2 DEF WInv, TypeOK
          <6> QED BY <3>2, <5>2, <6>1
        <5> QED BY <5>1, <5>2
      <4> QED BY <4>1, <4>2, <4>3
    <3> QED BY <3>1, <3>4, <3>5 DEF WInv, TypeOK
  <2> QED BY <2>1, <2>2
<1>4. TypeOK'
  BY <1>1, <1>3, ExitTypes
<1>5. /\ RunOK(p)'
      /\ \A q \in Procs \ {p} :
           /\ pc'[q] = pc[q] /\ cs'[q] = cs[q] /\ ver'[q] = ver[q]
           /\ decided'[q] = decided[q] /\ nxt'[q] = nxt[q] /\ outcome'[q] = outcome[q]
  BY <1>1, <1>2, ExitRun
<1>6. \A q \in Procs \ {p} : RunOK(q)'
  BY <1>1, <1>5, RunKept
<1>7. AnnouncedOK' /\ InOrder' /\ ApprovedContentOnly'
  BY <1>1, LogQuiet
<1> QED BY <1>3, <1>4, <1>5, <1>6, <1>7 DEF WInv

LEMMA CrashStep ==
  ASSUME RepoAssumption, ApplyAssumption, TInv, WInv, TInv', NEW p \in Procs,
         ApplyCrashes(p)
  PROVE  WInv'
<1>1. UNCHANGED artifacts /\ Exit(p)
  BY DEF ApplyCrashes
<1>2. TypeOK'
  BY <1>1, ExitTypes DEF artifacts, WInv, TypeOK
<1>3. CASE Crash(p) \/ CrashInAppend(p)
  <2>1. /\ step[p] # "idle" /\ step'[p] = "idle"
        /\ \A q \in Procs \ {p} :
             step'[q] = step[q] /\ res'[q] = res[q] /\ req'[q] = req[q]
        /\ LogGrows(p)
    BY <1>3, CrashEffect
  <2>2. AnnouncedOK' /\ InOrder' /\ ApprovedContentOnly' /\ RecordsTellTheTruth'
    BY <1>1, <2>1, LogStep DEF artifacts
  <2>3. /\ RunOK(p)'
        /\ \A q \in Procs \ {p} :
             /\ pc'[q] = pc[q] /\ cs'[q] = cs[q] /\ ver'[q] = ver[q]
             /\ decided'[q] = decided[q] /\ nxt'[q] = nxt[q] /\ outcome'[q] = outcome[q]
    BY <1>1, <2>1, ExitRun
  <2>4. \A o \in OpIds : commits[o] > 0 => commits'[o] > 0
    BY <2>1 DEF LogGrows
  <2>5. \A q \in Procs \ {p} : RunOK(q)'
    BY <1>1, <2>1, <2>3, <2>4, RunKept DEF artifacts
  <2> QED BY <1>2, <2>2, <2>3, <2>5 DEF WInv
<1>4. CASE step[p] = "idle" /\ UNCHANGED <<vault, auditVars, callVars, writes>>
  <2>1. /\ step'[p] = "idle"
        /\ UNCHANGED <<intents, commits, about, step, req, res>>
    BY <1>4 DEF auditVars, callVars
  <2>2. OnlyRun(p) /\ RunOK(p)'
    BY <1>1, <2>1, ExitRun DEF OnlyRun
  <2> QED BY <1>2, <2>2, RunStep
<1> QED BY <1>3, <1>4 DEF ApplyCrashes

-----------------------------------------------------------------------------
LEMMA WorkflowStep ==
  ASSUME RepoAssumption, ApplyAssumption, TInv, WInv, [Next]_vars
  PROVE  TInv' /\ WInv'
<1>1. TInv'
  BY RepositoryTyped
<1>2. WInv'
  <2>1. CASE UNCHANGED vars
    BY <1>1, <2>1, OutsideStep
    DEF vars, repoVars, callVars, artifacts, auditVars, WInv, TypeOK
  <2>2. CASE Environment /\ UNCHANGED <<artifacts, runVars>>
    <3>1. UNCHANGED <<callVars, intents, commits, about>>
      BY <2>2 DEF Environment, OwnerEdits, OwnerDeletes, RepairAuditTail, auditVars
    <3> QED BY <1>1, <2>2, <3>1, OutsideStep DEF artifacts, WInv, TypeOK
  <2>3. ASSUME NEW c \in ChangeSets,
               \/ \E v \in Versions : Save(c, v) \/ ReplaceProposal(c, v)
               \/ CrashInCreate(c)
               \/ \E d \in {"approved", "rejected"} : Decide(c, d)
        PROVE  WInv'
    <3>1. UNCHANGED <<callVars, runVars, attempts, intents, commits, about, cut>>
      BY <2>3 DEF Save, ReplaceProposal, CrashInCreate, Decide, repoVars, auditVars,
                  callVars
    <3>2. /\ proposal' \in [ChangeSets -> Versions \union {Absent, Torn}]
          /\ \/ approval' = approval
             \/ /\ approval[c] = Absent
                /\ \E x \in Decisions \union {Torn} :
                     approval' = [approval EXCEPT ![c] = x]
      <4>1. CASE \E v \in Versions : Save(c, v) \/ ReplaceProposal(c, v)
        <5>1. PICK v \in Versions : Save(c, v) \/ ReplaceProposal(c, v)
          BY <4>1
        <5>2. approval' = approval /\ proposal' = [proposal EXCEPT ![c] = v]
          BY <5>1 DEF Save, ReplaceProposal
        <5> QED BY <5>2 DEF WInv, TypeOK
      <4>2. CASE CrashInCreate(c)
        <5>1. \/ /\ proposal' = [proposal EXCEPT ![c] = Torn]
                 /\ approval' = approval
              \/ /\ approval[c] = Absent /\ proposal' = proposal
                 /\ approval' = [approval EXCEPT ![c] = Torn]
          BY <4>2 DEF CrashInCreate
        <5> QED BY <5>1 DEF WInv, TypeOK
      <4>3. ASSUME NEW d \in {"approved", "rejected"}, Decide(c, d)
            PROVE  /\ proposal' = proposal
                   /\ approval[c] = Absent
                   /\ \E x \in Decisions : approval' = [approval EXCEPT ![c] = x]
        <5>1. [decision |-> d, ver |-> proposal[c]] \in Decisions
          BY <4>3 DEF Decide, Decisions
        <5> QED BY <4>3, <5>1 DEF Decide
      <4> QED BY <2>3, <4>1, <4>2, <4>3 DEF WInv, TypeOK
    <3>3. approval' \in [ChangeSets -> Decisions \union {Absent, Torn}]
      BY <3>2 DEF WInv, TypeOK
    <3>4. Absent \notin Decisions
      BY DEF ApplyAssumption
    <3>5. \A d \in ChangeSets : approval[d] \in Decisions => approval'[d] = approval[d]
      BY <3>2, <3>4 DEF WInv, TypeOK
    <3> QED BY <1>1, <3>1, <3>2, <3>3, <3>5, OutsideStep
  <2>4. ASSUME NEW p \in Procs, Apply(p)
        PROVE  WInv'
    BY <1>1, <2>4, ReadingStep, BeginStep, PerformStep, ReturnStep, AppendStep, CrashStep
    DEF Apply
  <2> QED BY <2>1, <2>2, <2>3, <2>4 DEF Next
<1> QED BY <1>1, <1>2

LEMMA WorkflowInvariant == Spec => [](TInv /\ WInv)
<1>1. Init => TInv /\ WInv
  BY RepoAssumption, ApplyAssumption, TypeInit, WorkflowInit DEF Init
<1>2. TInv /\ WInv /\ [Next]_vars => (TInv /\ WInv)'
  BY RepoAssumption, ApplyAssumption, WorkflowStep
<1> QED BY <1>1, <1>2, PTL DEF Spec

(* Type correctness of the workflow, for any number of runs of apply.      *)
THEOREM WorkflowTypeCorrect == Spec => []TypeOK
BY WorkflowInvariant, PTL DEF WInv

(* In every interleaving of any number of runs of apply, with any number   *)
(* of crashes and failed writes, an operation is announced only when the   *)
(* one before it is committed.                                             *)
THEOREM WorkflowInOrder == Spec => []InOrder
BY WorkflowInvariant, PTL DEF WInv

(* Only operations of the content a reviewer approved are ever announced,  *)
(* even when the proposal file is replaced by hand at any moment.          *)
THEOREM WorkflowApprovedOnly == Spec => []ApprovedContentOnly
BY WorkflowInvariant, PTL DEF WInv

(* What an attempt record says was applied is committed in the audit log.  *)
THEOREM WorkflowRecordsTrue == Spec => []RecordsTellTheTruth
BY WorkflowInvariant, PTL DEF WInv

(* The write-ahead rule of the repository holds of the workflow: its steps *)
(* are steps of the repository, or leave the Vault and the log alone.      *)
THEOREM WorkflowWriteAhead == Spec => [](WriteAhead /\ CommittedWasWritten)
<1>1. Init => AInv
  BY RepoAssumption, WriteAheadInit DEF Init
<1>2. TInv /\ WInv /\ AInv /\ [Next]_vars => AInv'
  BY RepoAssumption, ApplyAssumption, RepositoryStep, WriteAheadStep, ElsewhereKeeps
<1> QED BY <1>1, <1>2, WorkflowInvariant, WriteAheadMeaning, PTL DEF Spec

LEMMA SoloWorkflow ==
  ASSUME OneProcess
  PROVE  Spec => [](TInv /\ WInv /\ AInv /\ SInv)
<1>1. Init => AInv /\ SInv
  BY RepoAssumption, WriteAheadInit, SoloInit DEF Init
<1>2. TInv /\ WInv /\ AInv /\ SInv /\ [Next]_vars => AInv' /\ SInv'
  BY OneProcess, RepoAssumption, ApplyAssumption, RepositoryStep, WriteAheadStep,
     SoloStep, ElsewhereKeeps
<1> QED BY <1>1, <1>2, WorkflowInvariant, PTL DEF Spec

(* With one run of apply at a time each operation of a ChangeSet is        *)
(* written at most once, however often apply is tried again.               *)
THEOREM WorkflowAtMostOnce ==
  ASSUME OneProcess
  PROVE  Spec => []AtMostOnce
BY SoloWorkflow, SoloMeaning, PTL

(* With one run of apply at a time no entity ever has two files.           *)
THEOREM WorkflowUniqueEntity ==
  ASSUME OneProcess
  PROVE  Spec => []UniqueEntity
BY SoloWorkflow, SoloMeaning, PTL

(* With one run of apply at a time no content of an applied operation is   *)
(* taken out of a file that stays, and no revision goes back.              *)
THEOREM WorkflowNothingLost ==
  ASSUME OneProcess
  PROVE  Spec => NothingLost
<1>1. TInv /\ WInv /\ SInv /\ [Next]_vars =>
        [\A f \in Paths :
           vault[f] # NoDoc /\ vault'[f] # NoDoc =>
             /\ vault[f].marks \subseteq vault'[f].marks
             /\ vault[f].rev <= vault'[f].rev]_vault
  <2>1. Elsewhere => UNCHANGED vault
    BY DEF Elsewhere
  <2> QED BY <2>1, RepoAssumption, ApplyAssumption, RepositoryStep, SoloKeeps
<1> QED BY <1>1, SoloWorkflow, PTL DEF Spec, NothingLost

-----------------------------------------------------------------------------
(* One run of apply at a time: what is known of the operation it has       *)
(* reached, and of those it has not.                                       *)

LEMMA ReportsTrue ==
  ASSUME RepoAssumption, ApplyAssumption, TInv, WInv, EInv, [Next]_vars
  PROVE  EInv'
<1>1. CASE [RepoNext]_repoVars
  BY <1>1, ReportStep
<1>2. CASE Elsewhere
  BY <1>2 DEF Elsewhere, auditVars, callVars, EInv
<1> QED BY <1>1, <1>2, RepositoryStep

NotReached(p) ==
  /\ pc[p] = "validate" =>
       \A i \in Ops(cs[p], ver[p]) : intents[<<cs[p], i>>] = 0
  /\ pc[p] = "apply" =>
       /\ \A i \in 1..MaxOps : i > nxt[p] => intents[<<cs[p], i>>] = 0
       /\ step[p] \in {"idle", "check", "snapshot", "intent"} =>
            intents[<<cs[p], nxt[p]>>] = 0
       /\ ~wrote[p] => writes[<<cs[p], nxt[p]>>] = 0
  /\ pc[p] \in After /\ outcome[p].outcome # "applied" =>
       /\ outcome[p].state = "not_written" => writes[<<cs[p], nxt[p]>>] = 0
       /\ \A i \in 1..MaxOps : i > nxt[p] => intents[<<cs[p], i>>] = 0

FInv == \A p \in Procs : NotReached(p)

(* A call that has not announced its operation leaves the log alone, and   *)
(* one that has not replaced its file leaves the count of writes alone.    *)
LEMMA CallProgress ==
  ASSUME RepoAssumption, TInv, EInv, NEW p \in Procs, CallStep(p)
  PROVE  /\ step'[p] \in {"idle", "check", "snapshot", "intent"} =>
              /\ intents' = intents
              /\ step[p] \in {"idle", "check", "snapshot", "intent"}
         /\ ~wrote'[p] => ~wrote[p] /\ writes' = writes
         /\ ReplaceFile(p) \/ writes' = writes
<1> USE DEF TInv, RepoTypeOK
<1>1. ASSUME NEW r, Finish(p, r)
      PROVE  step'[p] = "done" /\ wrote' = wrote /\ writes' = writes
  BY <1>1 DEF Finish, Goto
<1>2. CASE \/ CheckAudit(p) \/ SnapshotForCreate(p) \/ SnapshotForUpdate(p)
           \/ RecheckCreate(p) \/ RecheckUpdate(p) \/ ReadBack(p)
  <2>1. CASE \E r : Finish(p, r)
    BY <1>1, <2>1
  <2>2. CASE ~\E r : Finish(p, r)
    BY <1>2, <2>2
    DEF CheckAudit, SnapshotForCreate, SnapshotForUpdate, RecheckCreate,
        RecheckUpdate, ReadBack, Goto, auditVars
  <2> QED BY <2>1, <2>2
<1>3. CASE AppendIntent(p)
  BY <1>3 DEF AppendIntent, Goto
<1>4. CASE ReplaceFile(p)
  BY <1>4 DEF ReplaceFile, Goto
<1>5. CASE AppendCommitted(p)
  BY <1>5 DEF AppendCommitted, Goto
<1>6. CASE AppendFails(p) \/ ReplaceFails(p)
  BY <1>6 DEF AppendFails, ReplaceFails, Goto, auditVars
<1> QED BY <1>2, <1>3, <1>4, <1>5, <1>6 DEF CallStep

LEMMA ReachInit ==
  ASSUME Init
  PROVE  FInv
BY DEF Init, FInv, NotReached, After

(* A run whose position, call, intents and writes stay knows what it knew. *)
LEMMA ReachKept ==
  ASSUME NEW p \in Procs, NotReached(p),
         UNCHANGED <<intents, writes, pc, cs, ver, nxt, outcome, step, wrote>>
  PROVE  NotReached(p)'
BY DEF NotReached

LEMMA ReachStep ==
  ASSUME RepoAssumption, ApplyAssumption, OneProcess, TInv, WInv, AInv, SInv, EInv,
         FInv, [Next]_vars
  PROVE  FInv'
<1>1. CASE UNCHANGED vars
  BY <1>1, ReachKept DEF vars, repoVars, runVars, FInv
<1>2. CASE Environment /\ UNCHANGED <<artifacts, runVars>>
  <2>1. UNCHANGED <<intents, writes, pc, cs, ver, nxt, outcome, step, wrote>>
    BY <1>2 DEF Environment, OwnerEdits, OwnerDeletes, RepairAuditTail, auditVars,
                callVars, runVars
  <2> QED BY <2>1, ReachKept DEF FInv
<1>3. ASSUME NEW c \in ChangeSets,
             \/ \E v \in Versions : Save(c, v) \/ ReplaceProposal(c, v)
             \/ \E d \in {"approved", "rejected"} : Decide(c, d)
             \/ CrashInCreate(c)
      PROVE  FInv'
  <2>1. UNCHANGED <<intents, writes, pc, cs, ver, nxt, outcome, step, wrote>>
    BY <1>3 DEF Save, ReplaceProposal, Decide, CrashInCreate, repoVars, auditVars,
                callVars, runVars
  <2> QED BY <2>1, ReachKept DEF FInv
<1>4. ASSUME NEW p \in Procs, NotReached(p)'
      PROVE  FInv'
  BY <1>4 DEF FInv, OneProcess
<1>5. ASSUME NEW p \in Procs, pc'[p] \in {"idle", "load", "attempts", "gate"}
      PROVE  FInv'
  <2>1. NotReached(p)'
    BY <1>5 DEF NotReached, After
  <2> QED BY <1>4, <2>1
<1>6. ASSUME NEW p \in Procs, Exit(p)
      PROVE  FInv'
  <2>1. pc'[p] = "idle"
    BY <1>6 DEF Exit, Move, WInv, TypeOK
  <2> QED BY <1>5, <2>1
<1>7. ASSUME NEW p \in Procs,
             (\E c \in ChangeSets : Preflight(p, c)) \/ Load(p) \/ ReadAttempts(p)
      PROVE  FInv'
  <2>1. Exit(p) \/ pc'[p] \in {"load", "attempts", "gate"}
    BY <1>7 DEF Preflight, Load, ReadAttempts, Move, WInv, TypeOK
  <2> QED BY <1>5, <1>6, <2>1
<1>8. ASSUME NEW p \in Procs, Gate(p), ~Exit(p)
      PROVE  FInv'
  <2>1. /\ pc'[p] = "validate" /\ UNCHANGED <<cs, ver, intents>>
        /\ \A i \in Ops(cs[p], ver[p]) : intents[<<cs[p], i>>] = 0
    BY <1>8 DEF Gate, Move, Applicable, WInv, TypeOK, repoVars
  <2>2. NotReached(p)'
    BY <2>1 DEF NotReached, After
  <2> QED BY <1>4, <2>2
<1>9. ASSUME NEW p \in Procs, Validate(p), ~Exit(p)
      PROVE  FInv'
  <2> DEFINE c == cs[p]
  <2>1. /\ pc[p] = "validate" /\ pc'[p] = "apply" /\ decided[p].ver = ver[p]
        /\ UNCHANGED <<cs, ver, decided, nxt, outcome, repoVars, approval>>
    BY <1>9 DEF Validate, Move, At, WInv, TypeOK, artifacts
  <2>2. /\ c \in ChangeSets /\ approval[c] = decided[p] /\ nxt[p] = 1
        /\ ver[p] \in Versions
    BY <2>1 DEF WInv, RunOK, Loaded, Before
  <2>3. \A i \in Ops(c, ver[p]) : intents[<<c, i>>] = 0
    BY <2>1 DEF FInv, NotReached
  <2>4. ASSUME NEW i \in 1..MaxOps
        PROVE  intents[<<c, i>>] = 0 /\ writes[<<c, i>>] = 0
    <3>1. <<c, i>> \in OpIds
      BY <2>2 DEF ApplyAssumption
    <3>2. ~(intents[<<c, i>>] > 0)
      <4> SUFFICES ASSUME intents[<<c, i>>] > 0 PROVE FALSE
        OBVIOUS
      <4>1. i \in Ops(c, approval[c].ver)
        BY <2>2 DEF WInv, ApprovedContentOnly
      <4> QED BY <2>1, <2>2, <2>3, <4>1
    <3>3. intents[<<c, i>>] \in Nat /\ writes[<<c, i>>] \in Nat
      BY <3>1 DEF TInv, RepoTypeOK
    <3>4. writes[<<c, i>>] <= intents[<<c, i>>]
      BY <3>1, WriteAheadMeaning DEF WriteAhead
    <3> QED BY <3>2, <3>3, <3>4
  <2>5. nxt[p] \in 1..MaxOps
    BY <2>2 DEF ApplyAssumption
  <2>6. NotReached(p)'
    BY <2>1, <2>4, <2>5 DEF NotReached, After, repoVars
  <2> QED BY <1>4, <2>6
<1>10. ASSUME NEW p \in Procs, BeginOperation(p)
       PROVE  FInv'
  <2>1. /\ pc[p] = "apply" /\ step[p] = "idle"
        /\ UNCHANGED <<pc, cs, ver, nxt, outcome, intents, writes, wrote>>
    BY <1>10 DEF BeginOperation, CallBegin, At, runVars, auditVars
  <2>2. NotReached(p)'
    BY <2>1 DEF FInv, NotReached, After
  <2> QED BY <1>4, <2>2
<1>11. ASSUME NEW p \in Procs, Performing(p)
       PROVE  FInv'
  <2> DEFINE c == cs[p]
             n == nxt[p]
  <2>1. /\ pc[p] = "apply" /\ CallStep(p)
        /\ UNCHANGED <<pc, cs, ver, nxt, outcome>>
    BY <1>11 DEF Performing, At, runVars
  <2>2. step[p] # "idle" /\ LogGrows(p)
    BY <2>1, CallEffect
  <2>3. /\ c \in ChangeSets /\ ver[p] \in Versions /\ n \in Ops(c, ver[p])
        /\ req[p] = OpRequest(c, ver[p], n)
    BY <2>1, <2>2 DEF WInv, RunOK, Loaded
  <2>4. req[p].op = <<c, n>> /\ n \in 1..MaxOps
    <3> HIDE DEF c, n
    <3> QED BY <2>3, OpIdOf
  <2>5. /\ step'[p] \in {"idle", "check", "snapshot", "intent"} =>
             /\ intents' = intents
             /\ step[p] \in {"idle", "check", "snapshot", "intent"}
        /\ ~wrote'[p] => ~wrote[p] /\ writes' = writes
    BY <2>1, CallProgress
  <2>6. ASSUME NEW i \in 1..MaxOps, i > n
        PROVE  intents'[<<c, i>>] = 0
    <3>1. <<c, i>> \in OpIds /\ <<c, i>> # <<c, n>>
      BY <2>3, <2>4, <2>6 DEF ApplyAssumption
    <3>2. intents'[<<c, i>>] = intents[<<c, i>>]
      BY <2>2, <2>4, <3>1 DEF LogGrows
    <3> QED BY <2>1, <2>6, <3>2 DEF FInv, NotReached
  <2>7. NotReached(p)'
    BY <2>1, <2>5, <2>6 DEF FInv, NotReached, After
  <2> QED BY <1>4, <2>7
<1>12. ASSUME NEW p \in Procs, OperationApplied(p)
       PROVE  FInv'
  <2> DEFINE c == cs[p]
             n == nxt[p]
  <2>1. /\ pc[p] = "apply"
        /\ UNCHANGED <<cs, ver, intents, writes>>
        /\ nxt'[p] = n + 1 /\ n \in Nat
        /\ \/ pc'[p] = "apply" /\ n < Len(Content[c][ver[p]])
           \/ pc'[p] = "record" /\ outcome'[p].outcome = "applied"
    <3>1. nxt' = [nxt EXCEPT ![p] = n + 1] /\ n \in Nat
      BY <1>12 DEF OperationApplied, WInv, TypeOK
    <3>2. /\ pc[p] = "apply" /\ UNCHANGED <<cs, ver, intents, writes>>
          /\ \/ pc'[p] = "apply" /\ n < Len(Content[c][ver[p]])
             \/ pc'[p] = "record" /\ outcome'[p].outcome = "applied"
      BY <1>12 DEF OperationApplied, Return, At, Move, auditVars, WInv, TypeOK
    <3> QED BY <3>1, <3>2 DEF WInv, TypeOK
  <2>2. CASE pc'[p] = "record" /\ outcome'[p].outcome = "applied"
    <3>1. NotReached(p)'
      BY <2>2 DEF NotReached, After
    <3> QED BY <1>4, <3>1
  <2>3. CASE pc'[p] = "apply" /\ n < Len(Content[c][ver[p]])
    <3>1. c \in ChangeSets /\ ver[p] \in Versions
      BY <2>1 DEF WInv, RunOK, Loaded
    <3>2. n + 1 \in 1..MaxOps /\ <<c, n + 1>> \in OpIds
      BY <2>1, <2>3, <3>1 DEF ApplyAssumption
    <3>3. \A i \in 1..MaxOps : i > n => intents[<<c, i>>] = 0
      BY <2>1 DEF FInv, NotReached
    <3>4. writes[<<c, n + 1>>] = 0
      <4>1. intents[<<c, n + 1>>] = 0
        BY <2>1, <3>2, <3>3
      <4>2. writes[<<c, n + 1>>] <= intents[<<c, n + 1>>]
        BY <3>2, WriteAheadMeaning DEF WriteAhead
      <4>3. writes[<<c, n + 1>>] \in Nat
        BY <3>2 DEF TInv, RepoTypeOK
      <4> QED BY <4>1, <4>2, <4>3
    <3>5. NotReached(p)'
      BY <2>1, <2>3, <3>2, <3>3, <3>4 DEF NotReached, After
    <3> QED BY <1>4, <3>5
  <2> QED BY <2>1, <2>2, <2>3
<1>13. ASSUME NEW p \in Procs, OperationFailed(p)
       PROVE  FInv'
  <2>1. /\ pc[p] = "apply" /\ step[p] = "done" /\ res[p] # "ok" /\ pc'[p] = "record"
        /\ UNCHANGED <<cs, nxt, intents, writes>>
        /\ outcome'[p].state =
             IF res[p] = "storage" THEN "unconfirmed" ELSE "not_written"
    BY <1>13 DEF OperationFailed, OperationFailedWith, Return, At, Move, auditVars,
                 WInv, TypeOK
  <2>2. res[p] # "storage" => ~wrote[p]
    BY <2>1 DEF EInv, TInv, RepoTypeOK, Results
  <2>3. NotReached(p)'
    BY <2>1, <2>2 DEF FInv, NotReached, After
  <2> QED BY <1>4, <2>3
<1>14. ASSUME NEW p \in Procs, ReadHistory(p), ~Exit(p)
       PROVE  FInv'
  <2>1. /\ pc[p] = "record" /\ pc'[p] = "append"
        /\ UNCHANGED <<cs, nxt, outcome, intents, writes>>
    BY <1>14 DEF ReadHistory, At, Move, WInv, TypeOK, repoVars
  <2>2. NotReached(p)'
    BY <2>1 DEF FInv, NotReached, After
  <2> QED BY <1>4, <2>2
<1>15. ASSUME NEW p \in Procs,
              AppendAttempt(p) \/ AppendAttemptFails(p) \/ ApplyCrashes(p)
       PROVE  FInv'
  BY <1>6, <1>15 DEF AppendAttempt, AppendAttemptFails, ApplyCrashes
<1> QED BY <1>1, <1>2, <1>3, <1>6, <1>7, <1>8, <1>9, <1>10, <1>11, <1>12, <1>13, <1>14,
           <1>15
        DEF Next, Apply

LEMMA ReachInvariant ==
  ASSUME OneProcess
  PROVE  Spec => [](TInv /\ WInv /\ AInv /\ SInv /\ EInv /\ FInv)
<1>1. Init => EInv /\ FInv
  BY ReportInit, ReachInit DEF Init
<1>2. TInv /\ WInv /\ AInv /\ SInv /\ EInv /\ FInv /\ [Next]_vars => EInv' /\ FInv'
  BY OneProcess, RepoAssumption, ApplyAssumption, ReportsTrue, ReachStep
<1> QED BY <1>1, <1>2, SoloWorkflow, PTL DEF Spec

(* With one run of apply at a time, a failure recorded as not written left *)
(* the operation's file alone in this run and in every earlier one, and    *)
(* nothing after the operation that failed was announced.                  *)
THEOREM WorkflowFailureTrue ==
  ASSUME OneProcess
  PROVE  Spec => []FailureTellsTheTruth
<1>1. FInv => FailureTellsTheTruth
  BY DEF FInv, NotReached, After, FailureTellsTheTruth
<1> QED BY <1>1, ReachInvariant, PTL

(* With one run of apply at a time, an intent without its commit belongs   *)
(* to the approved proposal, so that recovery leaves it to the ChangeSet   *)
(* and other commands pass their preflight.                                *)
THEOREM WorkflowDelegated ==
  ASSUME OneProcess
  PROVE  Spec => []IntentsAreDelegated
<1>1. TInv /\ WInv /\ SInv => IntentsAreDelegated
  <2> SUFFICES ASSUME TInv, WInv, SInv, NEW c \in ChangeSets, NEW i \in 1..MaxOps,
                      Unresolved(c, i), approval[c] \in Decisions,
                      proposal[c] = approval[c].ver
               PROVE  Owned(c, i)
    BY DEF IntentsAreDelegated
  <2>1. <<c, i>> \in OpIds
    BY ApplyAssumption DEF ApplyAssumption
  <2>2. intents[<<c, i>>] = 1 /\ commits[<<c, i>>] = 0
    BY <2>1 DEF Unresolved, SInv, Fresh, TInv, RepoTypeOK
  <2>3. proposal[c] \in Versions
    BY DEF Decisions
  <2>4. /\ i \in Ops(c, approval[c].ver)
        /\ about[<<c, i>>] = {[kind |-> Content[c][approval[c].ver][i].kind,
                               ent |-> Content[c][approval[c].ver][i].ent]}
    BY <2>2, SMTT(30) DEF WInv, ApprovedContentOnly
  <2> QED BY <2>2, <2>3, <2>4 DEF Owned
<1> QED BY <1>1, SoloWorkflow, PTL

-----------------------------------------------------------------------------
(* One run of apply at a time: the attempt records.  A run that appends    *)
(* one has just read that the history is open; nobody closes it since.     *)

Open(h) == h # <<>> => ~Terminal(h[Len(h)])

HInv ==
  /\ \A c \in ChangeSets : attempts[c] # <<>> => approval[c] \in Decisions
  /\ \A c \in ChangeSets : approval[c] \in Decisions =>
       HistoryValid(approval[c].ver, attempts[c])
  /\ \A p \in Procs : pc[p] = "append" => Open(attempts[cs[p]])

LEMMA HistoryGrows ==
  ASSUME NEW v, NEW h \in Seq(Attempts), NEW a \in Attempts,
         HistoryValid(v, h), Open(h), a.ver = v
  PROVE  HistoryValid(v, Append(h, a))
<1>1. /\ Len(Append(h, a)) = Len(h) + 1 /\ Len(h) \in Nat
      /\ \A k \in 1..Len(h) : Append(h, a)[k] = h[k]
      /\ Append(h, a)[Len(h) + 1] = a
  OBVIOUS
<1>2. ASSUME NEW k \in 1..(Len(h) + 1)
      PROVE  Append(h, a)[k].ver = v
  <2>1. CASE k \in 1..Len(h)
    BY <1>1, <2>1 DEF HistoryValid
  <2>2. CASE k = Len(h) + 1
    BY <1>1, <2>2
  <2> QED BY <1>1, <2>1, <2>2
<1>3. ASSUME NEW k \in 1..Len(h)
      PROVE  ~Terminal(Append(h, a)[k])
  <2>1. Append(h, a)[k] = h[k]
    BY <1>1
  <2>2. CASE k \in 1..(Len(h) - 1)
    BY <2>1, <2>2 DEF HistoryValid
  <2>3. CASE k = Len(h)
    <3>1. h # <<>>
      BY <1>1, <2>3
    <3> QED BY <2>1, <2>3, <3>1 DEF Open
  <2> QED BY <1>1, <2>2, <2>3
<1>4. 1..(Len(Append(h, a)) - 1) = 1..Len(h)
  BY <1>1
<1> HIDE <1>1
<1>5. Len(Append(h, a)) = Len(h) + 1
  BY <1>1
<1> QED BY <1>2, <1>3, <1>4, <1>5 DEF HistoryValid

LEMMA HistoryInit ==
  ASSUME Init
  PROVE  HInv
BY DEF Init, HInv, HistoryValid

LEMMA HistoryStep ==
  ASSUME RepoAssumption, ApplyAssumption, OneProcess, TInv, WInv, HInv, [Next]_vars
  PROVE  HInv'
<1>1. ASSUME UNCHANGED <<attempts, cs>>,
             \A c \in ChangeSets : approval[c] # Absent => approval'[c] = approval[c],
             \A p \in Procs : pc'[p] = "append" => pc[p] = "append"
      PROVE  HInv'
  <2>1. \A c \in ChangeSets : approval[c] \in Decisions => approval'[c] = approval[c]
    BY <1>1 DEF ApplyAssumption
  <2>2. \A c \in ChangeSets : attempts'[c] # <<>> => approval'[c] \in Decisions
    BY <1>1, <2>1 DEF HInv
  <2>3. \A c \in ChangeSets : \A v : HistoryValid(v, <<>>)
    BY DEF HistoryValid
  <2>4. ASSUME NEW c \in ChangeSets, approval'[c] \in Decisions
        PROVE  HistoryValid(approval'[c].ver, attempts'[c])
    <3>1. CASE approval[c] \in Decisions
      BY <1>1, <2>1, <3>1 DEF HInv
    <3>2. CASE approval[c] \notin Decisions
      <4>1. attempts'[c] = <<>>
        BY <1>1, <3>2 DEF HInv
      <4> QED BY <2>3, <4>1
    <3> QED BY <3>1, <3>2
  <2> QED BY <1>1, <2>2, <2>4 DEF HInv
<1>2. CASE UNCHANGED vars
  BY <1>1, <1>2 DEF vars, artifacts, runVars
<1>3. CASE Environment /\ UNCHANGED <<artifacts, runVars>>
  BY <1>1, <1>3 DEF artifacts, runVars
<1>4. ASSUME NEW c \in ChangeSets,
             \/ \E v \in Versions : Save(c, v) \/ ReplaceProposal(c, v)
             \/ \E d \in {"approved", "rejected"} : Decide(c, d)
             \/ CrashInCreate(c)
      PROVE  HInv'
  <2>1. /\ UNCHANGED <<attempts, pc, cs>>
        /\ \/ approval' = approval
           \/ approval[c] = Absent /\ \E x : approval' = [approval EXCEPT ![c] = x]
    BY <1>4 DEF Save, ReplaceProposal, Decide, CrashInCreate, runVars
  <2>2. \A d \in ChangeSets : approval[d] # Absent => approval'[d] = approval[d]
    BY <2>1 DEF WInv, TypeOK
  <2> QED BY <1>1, <2>1, <2>2
<1>5. ASSUME NEW p \in Procs, UNCHANGED <<attempts, approval>>,
             pc'[p] # "append" \/ Open(attempts[cs'[p]])
      PROVE  HInv'
  <2>1. \A q \in Procs : q = p
    BY DEF OneProcess
  <2> QED BY <1>5, <2>1 DEF HInv
<1>6. ASSUME NEW p \in Procs, Exit(p)
      PROVE  pc'[p] = "idle"
  BY <1>6 DEF Exit, Move, WInv, TypeOK
<1>7. ASSUME NEW p \in Procs,
             \/ \E c \in ChangeSets : Preflight(p, c)
             \/ Load(p) \/ ReadAttempts(p) \/ Gate(p) \/ Validate(p)
      PROVE  HInv'
  <2>1. UNCHANGED <<attempts, approval>>
    BY <1>7 DEF Preflight, Load, ReadAttempts, Gate, Validate, artifacts
  <2>2. Exit(p) \/ pc'[p] \in {"load", "attempts", "gate", "validate", "apply"}
    BY <1>7 DEF Preflight, Load, ReadAttempts, Gate, Validate, Move, WInv, TypeOK
  <2>3. pc'[p] # "append"
    BY <1>6, <2>2
  <2> QED BY <1>5, <2>1, <2>3
<1>8. ASSUME NEW p \in Procs, BeginOperation(p) \/ Performing(p)
      PROVE  HInv'
  BY <1>1, <1>8 DEF BeginOperation, Performing, artifacts, runVars
<1>9. ASSUME NEW p \in Procs, OperationApplied(p) \/ OperationFailed(p)
      PROVE  HInv'
  <2>1. pc'[p] \in {"apply", "record"}
    BY <1>9 DEF OperationApplied, OperationFailed, OperationFailedWith, At, Move,
                WInv, TypeOK
  <2> QED BY <1>5, <1>9, <2>1
          DEF OperationApplied, OperationFailed, OperationFailedWith, artifacts
<1>10. ASSUME NEW p \in Procs, ReadHistory(p)
       PROVE  HInv'
  <2>1. CASE Exit(p)
    BY <1>5, <1>6, <1>10, <2>1 DEF ReadHistory, artifacts
  <2>2. CASE ~Exit(p)
    BY <1>5, <1>10, <2>2 DEF ReadHistory, artifacts, Open
  <2> QED BY <2>1, <2>2
<1>11. ASSUME NEW p \in Procs, AppendAttempt(p)
       PROVE  HInv'
  <2> DEFINE c == cs[p]
             a == AttemptOf(p)
  <2>1. /\ pc[p] = "append" /\ pc'[p] = "idle" /\ approval' = approval
        /\ attempts' = [attempts EXCEPT ![c] = Append(attempts[c], a)]
    BY <1>6, <1>11 DEF AppendAttempt, At
  <2>2. /\ c \in ChangeSets /\ a \in Attempts /\ a.ver = ver[p]
        /\ approval[c] \in Decisions /\ approval[c].ver = ver[p]
        /\ attempts[c] \in Seq(Attempts)
    BY <2>1 DEF WInv, RunOK, TypeOK, Loaded, After, AttemptOf
  <2>3. Open(attempts[c]) /\ HistoryValid(ver[p], attempts[c])
    BY <2>1, <2>2 DEF HInv
  <2>4. HistoryValid(ver[p], Append(attempts[c], a))
    <3> HIDE DEF a, c
    <3> QED BY <2>2, <2>3, HistoryGrows
  <2>5. /\ attempts'[c] = Append(attempts[c], a)
        /\ \A d \in ChangeSets : d # c => attempts'[d] = attempts[d]
    BY <2>1, <2>2 DEF WInv, TypeOK
  <2>6. \A q \in Procs : q = p
    BY DEF OneProcess
  <2> HIDE DEF c, a
  <2> QED BY <2>1, <2>2, <2>4, <2>5, <2>6 DEF HInv
<1>12. ASSUME NEW p \in Procs, AppendAttemptFails(p) \/ ApplyCrashes(p)
       PROVE  HInv'
  BY <1>5, <1>6, <1>12 DEF AppendAttemptFails, ApplyCrashes, artifacts
<1> QED BY <1>2, <1>3, <1>4, <1>7, <1>8, <1>9, <1>10, <1>11, <1>12 DEF Next, Apply

(* With one run of apply at a time the evidence `dnd changeset status`     *)
(* reads is never contradictory: none, one or a matched pair of records of *)
(* each operation, and no attempt after a terminal one.                    *)
THEOREM WorkflowNoContradiction ==
  ASSUME OneProcess
  PROVE  Spec => []NoContradiction
<1>1. Init => HInv
  BY HistoryInit
<1>2. TInv /\ WInv /\ HInv /\ [Next]_vars => HInv'
  BY OneProcess, RepoAssumption, ApplyAssumption, HistoryStep
<1>3. TInv /\ WInv /\ AInv /\ SInv /\ HInv => NoContradiction
  <2> SUFFICES ASSUME TInv, WInv, AInv, SInv, HInv, NEW c \in ChangeSets,
                      approval[c] \in Decisions
               PROVE  /\ ~CorrelationFails(c, approval[c].ver)
                      /\ HistoryValid(approval[c].ver, attempts[c])
    BY DEF NoContradiction
  <2>1. ASSUME NEW i \in Ops(c, approval[c].ver)
        PROVE  <<intents[<<c, i>>], commits[<<c, i>>]>>
                 \in {<<0, 0>>, <<1, 0>>, <<1, 1>>}
    <3>1. <<c, i>> \in OpIds
      BY ApplyAssumption, OpIdOf DEF Decisions
    <3>2. /\ intents[<<c, i>>] \in Nat /\ commits[<<c, i>>] \in Nat
          /\ writes[<<c, i>>] \in Nat
          /\ commits[<<c, i>>] <= writes[<<c, i>>]
          /\ writes[<<c, i>>] <= intents[<<c, i>>]
          /\ intents[<<c, i>>] <= 1
      BY <3>1, WriteAheadMeaning
      DEF TInv, RepoTypeOK, WriteAhead, CommittedWasWritten, SInv, Fresh
    <3> QED BY <3>2
  <2> QED BY <2>1 DEF CorrelationFails, HInv
<1> QED BY <1>1, <1>2, <1>3, SoloWorkflow, PTL DEF Spec

-----------------------------------------------------------------------------
(* One run of apply at a time: the refinement of ApplyOnce.  Passing       *)
(* validation starts a ChangeSet, ReplaceFile writes its next operation,   *)
(* and leaving the loop over the operations closes it or, when nothing was *)
(* announced, gives it up; every other step is a stutter.                  *)

phaseOf == [c \in ChangeSets |-> PhaseOf(c)]
writtenOf == [c \in ChangeSets |-> [i \in 1..MaxOps |-> writes[<<c, i>>]]]

Announces(c) == \E i \in 1..MaxOps : intents[<<c, i>>] > 0

LEMMA PhaseRunning ==
  ASSUME NEW p \in Procs, pc[p] = "apply", NEW c \in ChangeSets, cs[p] = c
  PROVE  phaseOf[c] = "running"
BY DEF phaseOf, PhaseOf

LEMMA PhaseQuiet ==
  ASSUME NEW c \in ChangeSets, \A p \in Procs : ~(pc[p] = "apply" /\ cs[p] = c)
  PROVE  phaseOf[c] = IF Announces(c) THEN "closed" ELSE "open"
BY DEF phaseOf, PhaseOf, Announces

(* Only steps inside the loop over the operations show.                    *)
LEMMA HiddenStep ==
  ASSUME UNCHANGED <<intents, writes>>,
         \A p \in Procs : \/ pc'[p] = pc[p] /\ cs'[p] = cs[p]
                          \/ pc[p] # "apply" /\ pc'[p] # "apply"
  PROVE  phaseOf' = phaseOf /\ writtenOf' = writtenOf
<1>1. \A c \in ChangeSets : PhaseOf(c)' = PhaseOf(c)
  BY DEF PhaseOf
<1> QED BY <1>1 DEF phaseOf, writtenOf

(* A call in flight is for the operation the run has reached.              *)
LEMMA CallFor ==
  ASSUME ApplyAssumption, WInv, NEW p \in Procs, pc[p] = "apply"
  PROVE  /\ cs[p] \in ChangeSets
         /\ nxt[p] \in 1..MaxOps /\ nxt[p] \in Nat /\ <<cs[p], nxt[p]>> \in OpIds
         /\ step[p] # "idle" => req[p].op = <<cs[p], nxt[p]>>
<1> DEFINE c == cs[p]
           v == ver[p]
           n == nxt[p]
<1>1. /\ c \in ChangeSets /\ v \in Versions /\ n \in Ops(c, v)
      /\ step[p] # "idle" => req[p] = OpRequest(c, v, n)
  BY DEF WInv, RunOK, Loaded
<1> HIDE DEF c, v, n
<1>2. /\ n \in 1..MaxOps /\ <<c, n>> \in OpIds
      /\ OpRequest(c, v, n).op = <<c, n>>
  BY <1>1, OpIdOf
<1>3. n \in Nat
  BY <1>2 DEF ApplyAssumption
<1>4. step[p] # "idle" => req[p].op = <<c, n>>
  BY <1>1, <1>2
<1> QED BY <1>1, <1>2, <1>3, <1>4 DEF c, n

(* What a step of the run in the loop does to the abstract state.          *)
LEMMA RunningStep ==
  ASSUME RepoAssumption, ApplyAssumption, OneProcess, TInv, WInv,
         NEW p \in Procs, pc[p] = "apply", NEW c, c = cs[p],
         \A o \in OpIds : o = <<c, nxt[p]>> \/ intents'[o] = intents[o],
         pc'[p] = "apply" => cs'[p] = c
  PROVE  /\ c \in ChangeSets
         /\ phaseOf[c] = "running"
         /\ pc'[p] = "apply" => phaseOf' = phaseOf
         /\ pc'[p] # "apply" =>
              phaseOf' = [phaseOf EXCEPT ![c] = IF Announces(c)' THEN "closed" ELSE "open"]
<1>1. c \in ChangeSets
  BY CallFor
<1>2. phaseOf[c] = "running"
  BY <1>1, PhaseRunning
<1>3. \A q \in Procs : q = p
  BY DEF OneProcess
<1>4. ASSUME NEW d \in ChangeSets, d # c
      PROVE  PhaseOf(d)' = PhaseOf(d)
  <2>1. \A i \in 1..MaxOps : intents'[<<d, i>>] = intents[<<d, i>>]
    BY <1>4 DEF ApplyAssumption
  <2>2. \A q \in Procs : ~(pc[q] = "apply" /\ cs[q] = d)
    BY <1>3, <1>4
  <2>3. \A q \in Procs : ~(pc'[q] = "apply" /\ cs'[q] = d)
    BY <1>3, <1>4
  <2> QED BY <2>1, <2>2, <2>3 DEF PhaseOf
<1>5. ASSUME pc'[p] = "apply"
      PROVE  phaseOf' = phaseOf
  <2>1. PhaseOf(c)' = "running" /\ PhaseOf(c) = "running"
    BY <1>5 DEF PhaseOf
  <2>2. \A d \in ChangeSets : PhaseOf(d)' = PhaseOf(d)
    BY <1>4, <2>1
  <2> QED BY <2>2 DEF phaseOf
<1>6. ASSUME pc'[p] # "apply"
      PROVE  phaseOf' = [phaseOf EXCEPT ![c] = IF Announces(c)' THEN "closed" ELSE "open"]
  <2>1. \A q \in Procs : ~(pc'[q] = "apply" /\ cs'[q] = c)
    BY <1>3, <1>6
  <2>2. PhaseOf(c)' = IF Announces(c)' THEN "closed" ELSE "open"
    BY <2>1 DEF PhaseOf, Announces
  <2> QED BY <1>1, <1>4, <2>2 DEF phaseOf
<1> QED BY <1>1, <1>2, <1>5, <1>6

(* How far the writing of a running ChangeSet has come.                    *)
LEMMA WrittenSoFar ==
  ASSUME RepoAssumption, ApplyAssumption, TInv, WInv, AInv, SInv, FInv,
         NEW p \in Procs, pc[p] = "apply", ~wrote[p]
  PROVE  \A j \in 1..MaxOps :
           writtenOf[cs[p]][j] = IF j < nxt[p] THEN 1 ELSE 0
<1>1. cs[p] \in ChangeSets /\ ver[p] \in Versions /\ nxt[p] \in Ops(cs[p], ver[p])
  BY DEF WInv, RunOK, Loaded
<1>2. nxt[p] \in 1..MaxOps
  BY <1>1, OpIdOf
<1> SUFFICES ASSUME NEW j \in 1..MaxOps
             PROVE  writes[<<cs[p], j>>] = IF j < nxt[p] THEN 1 ELSE 0
  BY <1>1 DEF writtenOf
<1>3. <<cs[p], j>> \in OpIds
  BY <1>1 DEF ApplyAssumption
<1>4. /\ intents[<<cs[p], j>>] \in Nat /\ commits[<<cs[p], j>>] \in Nat
      /\ writes[<<cs[p], j>>] \in Nat
      /\ commits[<<cs[p], j>>] <= writes[<<cs[p], j>>]
      /\ writes[<<cs[p], j>>] <= intents[<<cs[p], j>>]
      /\ intents[<<cs[p], j>>] <= 1
  BY <1>3, WriteAheadMeaning
  DEF TInv, RepoTypeOK, WriteAhead, CommittedWasWritten, SInv, Fresh
<1>5. CASE j < nxt[p]
  <2>1. commits[<<cs[p], j>>] > 0
    BY <1>5 DEF WInv, RunOK
  <2> QED BY <1>4, <1>5, <2>1
<1>6. CASE j = nxt[p]
  BY <1>2, <1>6 DEF FInv, NotReached
<1>7. CASE j > nxt[p]
  <2>1. intents[<<cs[p], j>>] = 0
    BY <1>7 DEF FInv, NotReached
  <2> QED BY <1>2, <1>4, <1>7, <2>1
<1> QED BY <1>2, <1>5, <1>6, <1>7

LEMMA LeavingStep ==
  ASSUME RepoAssumption, ApplyAssumption, OneProcess, TInv, WInv, TInv', WriteAhead',
         NEW p \in Procs, pc[p] = "apply", pc'[p] # "apply",
         \A o \in OpIds : o = <<cs[p], nxt[p]>> \/ intents'[o] = intents[o],
         writes' = writes
  PROVE  \E c \in ChangeSets :
           /\ phaseOf[c] = "running"
           /\ writtenOf' = writtenOf
           /\ \/ phaseOf' = [phaseOf EXCEPT ![c] = "closed"]
              \/ /\ \A i \in 1..MaxOps : writtenOf[c][i] = 0
                 /\ phaseOf' = [phaseOf EXCEPT ![c] = "open"]
<1>1. PICK c : c = cs[p]
  OBVIOUS
<1>2. /\ c \in ChangeSets /\ phaseOf[c] = "running"
      /\ phaseOf' = [phaseOf EXCEPT ![c] = IF Announces(c)' THEN "closed" ELSE "open"]
  BY <1>1, RunningStep
<1>3. writtenOf' = writtenOf
  BY DEF writtenOf
<1>4. CASE Announces(c)'
  BY <1>2, <1>3, <1>4
<1>5. CASE ~Announces(c)'
  <2>2. ASSUME NEW i \in 1..MaxOps
        PROVE  writtenOf[c][i] = 0
    <3>1. <<c, i>> \in OpIds
      BY <1>2 DEF ApplyAssumption
    <3>2. ~(intents'[<<c, i>>] > 0)
      BY <1>5 DEF Announces
    <3>3. intents'[<<c, i>>] \in Nat /\ writes'[<<c, i>>] \in Nat
      BY <3>1 DEF TInv, RepoTypeOK
    <3>4. writes'[<<c, i>>] <= intents'[<<c, i>>]
      BY <3>1 DEF WriteAhead
    <3>5. writtenOf[c][i] = writes[<<c, i>>]
      BY <1>2 DEF writtenOf
    <3> QED BY <3>2, <3>3, <3>4, <3>5
  <2> QED BY <1>2, <1>3, <1>5, <2>2
<1> QED BY <1>4, <1>5

LEMMA OnceStep ==
  ASSUME RepoAssumption, ApplyAssumption, OneProcess,
         TInv, WInv, AInv, SInv, EInv, FInv, [Next]_vars,
         TInv', FInv', WriteAhead'
  PROVE  \/ UNCHANGED <<phaseOf, writtenOf>>
         \/ \E c \in ChangeSets :
              \/ /\ phaseOf[c] = "open"
                 /\ phaseOf' = [phaseOf EXCEPT ![c] = "running"]
                 /\ writtenOf' = writtenOf
              \/ /\ phaseOf[c] = "running"
                 /\ \E i \in 1..MaxOps :
                      /\ \A j \in 1..MaxOps :
                           writtenOf[c][j] = IF j < i THEN 1 ELSE 0
                      /\ writtenOf' = [writtenOf EXCEPT ![c][i] = 1]
                 /\ phaseOf' = phaseOf
              \/ /\ phaseOf[c] = "running"
                 /\ writtenOf' = writtenOf
                 /\ \/ phaseOf' = [phaseOf EXCEPT ![c] = "closed"]
                    \/ /\ \A i \in 1..MaxOps : writtenOf[c][i] = 0
                       /\ phaseOf' = [phaseOf EXCEPT ![c] = "open"]
<1> DEFINE Shown == \E c \in ChangeSets :
              \/ /\ phaseOf[c] = "open"
                 /\ phaseOf' = [phaseOf EXCEPT ![c] = "running"]
                 /\ writtenOf' = writtenOf
              \/ /\ phaseOf[c] = "running"
                 /\ \E i \in 1..MaxOps :
                      /\ \A j \in 1..MaxOps :
                           writtenOf[c][j] = IF j < i THEN 1 ELSE 0
                      /\ writtenOf' = [writtenOf EXCEPT ![c][i] = 1]
                 /\ phaseOf' = phaseOf
              \/ /\ phaseOf[c] = "running"
                 /\ writtenOf' = writtenOf
                 /\ \/ phaseOf' = [phaseOf EXCEPT ![c] = "closed"]
                    \/ /\ \A i \in 1..MaxOps : writtenOf[c][i] = 0
                       /\ phaseOf' = [phaseOf EXCEPT ![c] = "open"]
<1>1. ASSUME UNCHANGED vars
      PROVE  UNCHANGED <<phaseOf, writtenOf>>
  BY <1>1, HiddenStep DEF vars, repoVars, runVars
<1>2. ASSUME Environment /\ UNCHANGED <<artifacts, runVars>>
      PROVE  UNCHANGED <<phaseOf, writtenOf>>
  <2>1. UNCHANGED <<intents, writes, pc, cs>>
    BY <1>2 DEF Environment, OwnerEdits, OwnerDeletes, RepairAuditTail, auditVars, runVars
  <2> QED BY <2>1, HiddenStep
<1>3. ASSUME NEW c \in ChangeSets,
             \/ \E v \in Versions : Save(c, v) \/ ReplaceProposal(c, v)
             \/ \E d \in {"approved", "rejected"} : Decide(c, d)
             \/ CrashInCreate(c)
      PROVE  UNCHANGED <<phaseOf, writtenOf>>
  <2>1. UNCHANGED <<intents, writes, pc, cs>>
    BY <1>3 DEF Save, ReplaceProposal, Decide, CrashInCreate, repoVars, auditVars,
                runVars
  <2> QED BY <2>1, HiddenStep
<1>4. ASSUME NEW p \in Procs, UNCHANGED <<intents, writes>>,
             pc[p] # "apply", pc'[p] # "apply"
      PROVE  UNCHANGED <<phaseOf, writtenOf>>
  <2>1. \A q \in Procs : q = p
    BY DEF OneProcess
  <2> QED BY <1>4, <2>1, HiddenStep
<1>5. ASSUME NEW p \in Procs, Exit(p)
      PROVE  pc'[p] = "idle"
  BY <1>5 DEF Exit, Move, WInv, TypeOK
<1>6. ASSUME NEW p \in Procs,
             \/ \E c \in ChangeSets : Preflight(p, c)
             \/ Load(p) \/ ReadAttempts(p) \/ Gate(p) \/ ReadHistory(p)
             \/ AppendAttempt(p) \/ AppendAttemptFails(p)
             \/ Validate(p) /\ Exit(p)
             \/ ApplyCrashes(p) /\ pc[p] # "apply"
      PROVE  UNCHANGED <<phaseOf, writtenOf>>
  <2>1. pc[p] # "apply"
    BY <1>6 DEF Preflight, Load, ReadAttempts, Gate, ReadHistory, AppendAttempt,
                AppendAttemptFails, Validate, At
  <2>2. step[p] = "idle"
    BY <2>1 DEF WInv, RunOK
  <2>3. UNCHANGED <<intents, writes>>
    BY <1>6, <2>2 DEF Preflight, Load, ReadAttempts, Gate, ReadHistory, AppendAttempt,
                AppendAttemptFails, Validate, ApplyCrashes, Crash, CrashInAppend,
                repoVars, auditVars
  <2>4. Exit(p) \/ pc'[p] \in {"load", "attempts", "gate", "validate", "append"}
    BY <1>6 DEF Preflight, Load, ReadAttempts, Gate, ReadHistory, AppendAttempt,
                AppendAttemptFails, ApplyCrashes, Move, WInv, TypeOK
  <2> QED BY <1>4, <1>5, <2>1, <2>3, <2>4
<1>7. ASSUME NEW p \in Procs, Validate(p), ~Exit(p)
      PROVE  Shown
  <2>1. PICK c : c = cs[p]
    OBVIOUS
  <2>2. /\ pc[p] = "validate" /\ pc'[p] = "apply"
        /\ UNCHANGED <<cs, ver, nxt, repoVars>>
    BY <1>7 DEF Validate, Move, At, WInv, TypeOK
  <2>3. UNCHANGED <<intents, writes, step>>
    BY <2>2 DEF repoVars
  <2>4. c \in ChangeSets /\ step[p] = "idle" /\ nxt[p] = 1
    BY <2>1, <2>2 DEF WInv, RunOK, Before
  <2>5. \A i \in 1..MaxOps : intents[<<c, i>>] = 0
    <3>1. /\ \A i \in 1..MaxOps : i > 1 => intents'[<<c, i>>] = 0
          /\ intents'[<<c, 1>>] = 0
      BY <2>1, <2>2, <2>3, <2>4 DEF FInv, NotReached
    <3>2. \A i \in 1..MaxOps : i > 1 \/ i = 1
      BY DEF ApplyAssumption
    <3> QED BY <2>3, <3>1, <3>2
  <2>6. \A q \in Procs : q = p
    BY DEF OneProcess
  <2>7. phaseOf[c] = "open"
    <3>1. \A i \in 1..MaxOps : ~(intents[<<c, i>>] > 0)
      BY <2>5
    <3>2. ~Announces(c)
      BY <3>1 DEF Announces
    <3> QED BY <2>2, <2>4, <2>6, <3>2, PhaseQuiet
  <2>8. phaseOf' = [phaseOf EXCEPT ![c] = "running"]
    <3>1. PhaseOf(c)' = "running"
      BY <2>1, <2>2 DEF PhaseOf
    <3>2. ASSUME NEW d \in ChangeSets, d # c
          PROVE  PhaseOf(d)' = PhaseOf(d)
      <4>1. \A q \in Procs : ~(pc[q] = "apply" /\ cs[q] = d)
        BY <2>2, <2>6
      <4>2. \A q \in Procs : ~(pc'[q] = "apply" /\ cs'[q] = d)
        BY <2>1, <2>2, <2>6, <3>2
      <4> QED BY <2>3, <4>1, <4>2 DEF PhaseOf
    <3> QED BY <2>4, <3>1, <3>2 DEF phaseOf
  <2>9. writtenOf' = writtenOf
    BY <2>3 DEF writtenOf
  <2> QED BY <2>4, <2>7, <2>8, <2>9
<1>8. ASSUME NEW p \in Procs, BeginOperation(p)
      PROVE  UNCHANGED <<phaseOf, writtenOf>>
  <2>1. UNCHANGED <<pc, cs, intents, writes>>
    BY <1>8 DEF BeginOperation, CallBegin, runVars, auditVars
  <2> QED BY <2>1, HiddenStep
<1>9. ASSUME NEW p \in Procs, step[p] # "idle", LogGrows(p)
      PROVE  \A o \in OpIds : o = <<cs[p], nxt[p]>> \/ intents'[o] = intents[o]
  <2>1. pc[p] = "apply"
    BY <1>9 DEF WInv, RunOK
  <2>2. req[p].op = <<cs[p], nxt[p]>>
    BY <1>9, <2>1, CallFor
  <2> QED BY <1>9, <2>2 DEF LogGrows
<1>10. ASSUME NEW p \in Procs, Performing(p)
       PROVE  UNCHANGED <<phaseOf, writtenOf>> \/ Shown
  <2>1. PICK c : c = cs[p]
    OBVIOUS
  <2>2. PICK n : n = nxt[p]
    OBVIOUS
  <2>3. pc[p] = "apply" /\ CallStep(p) /\ UNCHANGED <<pc, cs, nxt>>
    BY <1>10 DEF Performing, At, runVars
  <2>4. step[p] # "idle" /\ LogGrows(p)
    BY <2>3, CallEffect
  <2>5. /\ c \in ChangeSets /\ n \in 1..MaxOps /\ n \in Nat
        /\ <<c, n>> \in OpIds /\ req[p].op = <<c, n>>
    BY <2>1, <2>2, <2>3, <2>4, CallFor
  <2>6. phaseOf[c] = "running" /\ phaseOf' = phaseOf
    BY <1>9, <2>1, <2>2, <2>3, <2>4, RunningStep
  <2>7. CASE writes' = writes
    BY <2>6, <2>7 DEF writtenOf
  <2>8. CASE ReplaceFile(p)
    <3>1. ~wrote[p]
      BY <2>8 DEF ReplaceFile, EInv
    <3>2. \A j \in 1..MaxOps : writtenOf[c][j] = IF j < n THEN 1 ELSE 0
      BY <2>1, <2>2, <2>3, <3>1, WrittenSoFar
    <3>3. writes' = [writes EXCEPT ![<<c, n>>] = writes[<<c, n>>] + 1]
      BY <2>5, <2>8 DEF ReplaceFile
    <3>4. ~(n < n)
      BY <2>5
    <3>5. writtenOf[c][n] = 0
      BY <2>5, <3>2, <3>4
    <3>6. writes[<<c, n>>] = 0
      BY <2>5, <3>5 DEF writtenOf
    <3>7. writes \in [OpIds -> Nat]
      BY DEF TInv, RepoTypeOK
    <3>8. writes'[<<c, n>>] = 1
      BY <2>5, <3>3, <3>6, <3>7
    <3>9. \A d \in ChangeSets : \A i \in 1..MaxOps :
            d # c \/ i # n => writes'[<<d, i>>] = writes[<<d, i>>]
      <4>1. \A o \in OpIds : o # <<c, n>> => writes'[o] = writes[o]
        BY <3>3, <3>7
      <4>2. \A d \in ChangeSets : \A i \in 1..MaxOps : <<d, i>> \in OpIds
        BY DEF ApplyAssumption
      <4> QED BY <4>1, <4>2
    <3>10. writtenOf' = [writtenOf EXCEPT ![c] = [writtenOf[c] EXCEPT ![n] = 1]]
      <4>1. [writtenOf[c] EXCEPT ![n] = 1] = [i \in 1..MaxOps |-> writes'[<<c, i>>]]
        BY <2>5, <3>8, <3>9 DEF writtenOf
      <4>2. \A d \in ChangeSets : d # c =>
              [i \in 1..MaxOps |-> writes'[<<d, i>>]] = writtenOf[d]
        BY <3>9 DEF writtenOf
      <4> QED BY <2>5, <4>1, <4>2, ZenonT(60) DEF writtenOf
    <3> QED BY <2>5, <2>6, <3>2, <3>10
  <2> QED BY <2>3, <2>7, <2>8, CallProgress
<1>11. ASSUME NEW p \in Procs, pc[p] = "apply", pc'[p] # "apply", writes' = writes,
              \A o \in OpIds : o = <<cs[p], nxt[p]>> \/ intents'[o] = intents[o]
       PROVE  Shown
  <2>1. PICK c \in ChangeSets :
           /\ phaseOf[c] = "running"
           /\ writtenOf' = writtenOf
           /\ \/ phaseOf' = [phaseOf EXCEPT ![c] = "closed"]
              \/ /\ \A i \in 1..MaxOps : writtenOf[c][i] = 0
                 /\ phaseOf' = [phaseOf EXCEPT ![c] = "open"]
    BY <1>11, LeavingStep
  <2> QED BY <2>1
<1>12. ASSUME NEW p \in Procs, OperationApplied(p) \/ OperationFailed(p)
       PROVE  UNCHANGED <<phaseOf, writtenOf>> \/ Shown
  <2>1. /\ pc[p] = "apply" /\ UNCHANGED <<intents, writes, cs>>
        /\ pc' = pc \/ pc'[p] # "apply"
    BY <1>12 DEF OperationApplied, OperationFailed, OperationFailedWith, Return, At,
                 Move, auditVars, WInv, TypeOK
  <2>2. CASE pc' = pc
    BY <2>1, <2>2, HiddenStep
  <2>3. CASE pc'[p] # "apply"
    BY <1>11, <2>1, <2>3
  <2> QED BY <2>1, <2>2, <2>3
<1>13. ASSUME NEW p \in Procs, ApplyCrashes(p), pc[p] = "apply"
       PROVE  Shown
  <2>1. pc'[p] # "apply" /\ writes' = writes
    BY <1>5, <1>13 DEF ApplyCrashes, Crash, CrashInAppend
  <2>2. \A o \in OpIds : o = <<cs[p], nxt[p]>> \/ intents'[o] = intents[o]
    <3>1. CASE Crash(p) \/ CrashInAppend(p)
      BY <1>9, <3>1, CrashEffect
    <3>2. CASE UNCHANGED auditVars
      BY <3>2 DEF auditVars
    <3> QED BY <1>13, <3>1, <3>2 DEF ApplyCrashes
  <2> QED BY <1>11, <1>13, <2>1, <2>2
<1> HIDE DEF Shown
<1>14. ASSUME NEW p \in Procs, Apply(p)
       PROVE  UNCHANGED <<phaseOf, writtenOf>> \/ Shown
  <2>1. CASE Validate(p)
    BY <1>6, <1>7, <2>1
  <2>2. CASE ApplyCrashes(p)
    BY <1>6, <1>13, <2>2
  <2>3. CASE \/ \E c \in ChangeSets : Preflight(p, c)
             \/ Load(p) \/ ReadAttempts(p) \/ Gate(p) \/ ReadHistory(p)
             \/ AppendAttempt(p) \/ AppendAttemptFails(p)
    BY <1>6, <2>3
  <2>4. CASE \/ BeginOperation(p) \/ Performing(p)
             \/ OperationApplied(p) \/ OperationFailed(p)
    BY <1>8, <1>10, <1>12, <2>4
  <2> QED BY <1>14, <2>1, <2>2, <2>3, <2>4 DEF Apply
<1>15. UNCHANGED <<phaseOf, writtenOf>> \/ Shown
  BY <1>1, <1>2, <1>3, <1>14 DEF Next
<1> QED BY <1>15 DEF Shown

(* With one run of apply at a time the workflow implements ApplyOnce: the  *)
(* operations of a ChangeSet reach the Vault in order and each once, by    *)
(* one run of apply, and only a run that announced nothing is repeated.    *)
THEOREM WorkflowAppliesOnce ==
  ASSUME OneProcess
  PROVE  Spec => AppliesOnce
<1> DEFINE I == TInv /\ WInv /\ AInv /\ SInv /\ EInv /\ FInv
<1>1. Init => Promise!Init
  <2> SUFFICES ASSUME Init
               PROVE  /\ phaseOf = [c \in ChangeSets |-> "open"]
                      /\ writtenOf = [c \in ChangeSets |-> [i \in 1..MaxOps |-> 0]]
    BY DEF Promise!Init, phaseOf, writtenOf
  <2>1. \A c \in ChangeSets : \A i \in 1..MaxOps : <<c, i>> \in OpIds
    BY ApplyAssumption DEF ApplyAssumption
  <2>2. \A c \in ChangeSets : \A i \in 1..MaxOps :
          writes[<<c, i>>] = 0 /\ ~(intents[<<c, i>>] > 0)
    <3>1. \A o \in OpIds : writes[o] = 0 /\ intents[o] = 0
      BY DEF Init, RepoInit
    <3>2. \A n : n = 0 => ~(n > 0)
      OBVIOUS
    <3> QED BY <2>1, <3>1, <3>2
  <2>3. \A p \in Procs : pc[p] # "apply"
    BY DEF Init
  <2>4. \A c \in ChangeSets : PhaseOf(c) = "open"
    BY <2>2, <2>3 DEF PhaseOf
  <2> QED BY <2>2, <2>4 DEF phaseOf, writtenOf
<1>2. I /\ I' /\ WriteAhead' /\ [Next]_vars =>
        [Promise!Next]_<<[c \in ChangeSets |-> PhaseOf(c)],
                         [c \in ChangeSets |-> [i \in 1..MaxOps |-> writes[<<c, i>>]]]>>
  <2> SUFFICES ASSUME I, I', WriteAhead', [Next]_vars
               PROVE  \/ UNCHANGED <<phaseOf, writtenOf>>
                      \/ Promise!Next
    BY DEF phaseOf, writtenOf
  <2>1. \/ UNCHANGED <<phaseOf, writtenOf>>
        \/ \E c \in ChangeSets :
              \/ /\ phaseOf[c] = "open"
                 /\ phaseOf' = [phaseOf EXCEPT ![c] = "running"]
                 /\ writtenOf' = writtenOf
              \/ /\ phaseOf[c] = "running"
                 /\ \E i \in 1..MaxOps :
                      /\ \A j \in 1..MaxOps :
                           writtenOf[c][j] = IF j < i THEN 1 ELSE 0
                      /\ writtenOf' = [writtenOf EXCEPT ![c][i] = 1]
                 /\ phaseOf' = phaseOf
              \/ /\ phaseOf[c] = "running"
                 /\ writtenOf' = writtenOf
                 /\ \/ phaseOf' = [phaseOf EXCEPT ![c] = "closed"]
                    \/ /\ \A i \in 1..MaxOps : writtenOf[c][i] = 0
                       /\ phaseOf' = [phaseOf EXCEPT ![c] = "open"]
    BY OneProcess, RepoAssumption, ApplyAssumption, OnceStep
  <2> QED BY <2>1 DEF Promise!Next, Promise!Start, Promise!WriteNext, Promise!Close,
                      Promise!GiveUp, phaseOf, writtenOf
<1>3. TInv /\ AInv => WriteAhead
  BY WriteAheadMeaning
<1> QED BY <1>1, <1>2, <1>3, ReachInvariant, PTL DEF Spec, AppliesOnce, Promise!Spec
=============================================================================
