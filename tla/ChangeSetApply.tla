---------------------------- MODULE ChangeSetApply ----------------------------
(***************************************************************************)
(* The ChangeSet workflow of cli/changeset.py: a proposal is saved, a      *)
(* reviewer approves or rejects it, and `dnd changeset apply` applies its  *)
(* operations through the repository of VaultMutation, one call for each.  *)
(*                                                                         *)
(* apply passes the recovery preflight, loads proposal and approval, reads *)
(* the attempt records and then the audit log to decide whether applying   *)
(* is allowed at all, validates the operations against the Vault, performs *)
(* them in order, and appends a record of how it went.  Several processes  *)
(* may run it at once; each read below is a step of its own.               *)
(***************************************************************************)
EXTENDS VaultMutation, Sequences

CONSTANTS
  ChangeSets,    \* ChangeSet ids
  Versions,      \* contents a ChangeSet may have (each its own fingerprint)
  Content,       \* ChangeSet -> version -> sequence of operations
  MaxOps,        \* bound on the operations of a ChangeSet
  SessionBound,  \* ChangeSets whose session_ref names a recorded session
  Absent,        \* an artifact that does not exist
  Torn,          \* an artifact whose creation was cut off by a crash
  MaxAttempts    \* bound on the attempts of one ChangeSet

OpRequest(c, v, i) ==
  [op |-> <<c, i>>, kind |-> Content[c][v][i].kind,
   ent |-> Content[c][v][i].ent, exp |-> Content[c][v][i].exp]

Decisions == [decision : {"approved", "rejected"}, ver : Versions]

ASSUME ApplyAssumption ==
  /\ MaxOps \in Nat
  /\ OpIds = ChangeSets \X (1..MaxOps)
  /\ SessionBound \subseteq ChangeSets
  /\ \A c \in ChangeSets : \A v \in Versions :
       /\ Len(Content[c][v]) \in 1..MaxOps
       /\ \A i \in 1..Len(Content[c][v]) : OpRequest(c, v, i) \in Requests
  /\ {Absent, Torn} \intersect (Versions \union Decisions) = {}

VARIABLES
  proposal,   \* ChangeSet -> the version its proposal artifact holds
  approval,   \* ChangeSet -> the decision artifact
  attempts,   \* ChangeSet -> the apply-attempt records
  cut,        \* ChangeSet -> whether the attempt artifact ends in a fragment
  pc,         \* process -> where its run of apply is
  cs,         \* process -> the ChangeSet it applies
  ver,        \* process -> the version of it that it loaded
  decided,    \* process -> the approval it loaded
  history,    \* process -> the attempt records it read
  nxt,        \* process -> index of the operation to perform next
  outcome     \* process -> the result of apply_changeset

artifacts == <<proposal, approval, attempts, cut>>
runVars == <<pc, cs, ver, decided, history, nxt, outcome>>
vars == <<repoVars, artifacts, runVars>>

Ops(c, v) == 1..Len(Content[c][v])
OutcomeKinds == {"applied", "partial", "failed"}
CommitStates == {"none", "not_written", "unconfirmed"}
Outcomes == [outcome : OutcomeKinds, applied : 0..MaxOps, state : CommitStates]
Attempts == [ver : Versions, outcome : OutcomeKinds, applied : 0..MaxOps,
             state : CommitStates]
Terminal(a) == a.outcome \in {"applied", "partial"}
NoOutcome == [outcome |-> "failed", applied |-> 0, state |-> "none"]

-----------------------------------------------------------------------------
(* The gates, as functions of what they read.                              *)

OwnedOffByOne(c, i) ==              \* mutant: the index is looked up one too far
  /\ proposal[c] \in Versions
  /\ i + 1 \in Ops(c, proposal[c])
  /\ intents[<<c, i>>] = 1 /\ commits[<<c, i>>] = 0
  /\ about[<<c, i>>] = {[kind |-> Content[c][proposal[c]][i + 1].kind,
                         ent |-> Content[c][proposal[c]][i + 1].ent]}

(* classify_changeset_intent: an unmatched intent belongs to a ChangeSet   *)
(* if the proposal it names says so and it is the only record.             *)
Owned(c, i) ==
  /\ proposal[c] \in Versions
  /\ i \in Ops(c, proposal[c])
  /\ intents[<<c, i>>] = 1 /\ commits[<<c, i>>] = 0
  /\ about[<<c, i>>] = {[kind |-> Content[c][proposal[c]][i].kind,
                         ent |-> Content[c][proposal[c]][i].ent]}

(* The detector of session recovery sees the intents that carry a session. *)
Unresolved(c, i) ==
  c \in SessionBound /\ intents[<<c, i>>] > 0 /\ commits[<<c, i>>] = 0

(* _recovery_preflight: any blocking issue stops a mutating command.       *)
PreflightPasses ==
  /\ tail = "clean"
  /\ \A c \in ChangeSets : \A i \in 1..MaxOps : Unresolved(c, i) => Owned(c, i)

(* correlate_audit knows no, one or a matched pair of records; the history *)
(* may not go on after a terminal record.                                  *)
CorrelationFails(c, v) ==
  \E i \in Ops(c, v) :
    <<intents[<<c, i>>], commits[<<c, i>>]>> \notin {<<0, 0>>, <<1, 0>>, <<1, 1>>}

HistoryValid(v, h) ==
  /\ \A k \in 1..Len(h) : h[k].ver = v
  /\ \A k \in 1..(Len(h) - 1) : ~Terminal(h[k])

ApplicableByHistory(c, v, h) ==     \* mutant: records without an attempt pass
  /\ HistoryValid(v, h)
  /\ ~CorrelationFails(c, v)
  /\ h # <<>> => /\ ~Terminal(h[Len(h)])
                 /\ h[Len(h)].state # "unconfirmed"

(* assert_changeset_applicable.                                            *)
Applicable(c, v, h) ==
  /\ HistoryValid(v, h)
  /\ ~CorrelationFails(c, v)
  /\ h # <<>> => /\ ~Terminal(h[Len(h)])
                 /\ h[Len(h)].state # "unconfirmed"
  /\ \A i \in Ops(c, v) : intents[<<c, i>>] = 0

(* validate_changeset projects the revisions forward: creating an entity   *)
(* takes it from none to 1, every later operation adds one.                *)
StoredRevision(e) ==
  IF Exists(e) THEN vault[CHOOSE f \in FilesOf(e) : TRUE].rev ELSE 0

RevisionBeforeOffByOne(s, i) ==     \* mutant: an operation counts itself
  StoredRevision(s[i].ent) + Cardinality({j \in 1..i : s[j].ent = s[i].ent})

RevisionBefore(s, i) ==
  StoredRevision(s[i].ent) + Cardinality({j \in 1..(i - 1) : s[j].ent = s[i].ent})

Valid(s) ==
  /\ ~Duplicated
  /\ \A i \in 1..Len(s) :
       /\ s[i].kind = "create" => RevisionBefore(s, i) = 0
       /\ s[i].kind # "create" => RevisionBefore(s, i) = s[i].exp /\ s[i].exp > 0

-----------------------------------------------------------------------------
Init ==
  /\ RepoInit
  /\ proposal = [c \in ChangeSets |-> Absent]
  /\ approval = [c \in ChangeSets |-> Absent]
  /\ attempts = [c \in ChangeSets |-> <<>>]
  /\ cut = [c \in ChangeSets |-> FALSE]
  /\ pc = [p \in Procs |-> "idle"]
  /\ cs = [p \in Procs |-> Absent]
  /\ ver = [p \in Procs |-> Absent]
  /\ decided = [p \in Procs |-> Absent]
  /\ history = [p \in Procs |-> <<>>]
  /\ nxt = [p \in Procs |-> 1]
  /\ outcome = [p \in Procs |-> NoOutcome]

(* dnd changeset save: an absent proposal is created exclusively; saving   *)
(* the same content again changes nothing, other content is refused.       *)
Save(c, v) ==
  /\ PreflightPasses
  /\ proposal[c] = Absent
  /\ proposal' = [proposal EXCEPT ![c] = v]
  /\ UNCHANGED <<repoVars, approval, attempts, cut, runVars>>

(* dnd changeset approve and reject: the review needs a valid proposal,    *)
(* and the decision is bound to its fingerprint and never replaced.        *)
Decide(c, d) ==
  /\ PreflightPasses
  /\ proposal[c] \in Versions
  /\ Valid(Content[c][proposal[c]])
  /\ approval[c] = Absent
  /\ approval' = [approval EXCEPT ![c] = [decision |-> d, ver |-> proposal[c]]]
  /\ UNCHANGED <<repoVars, proposal, attempts, cut, runVars>>

(* A crash while an artifact is created leaves a part of it behind.        *)
CrashInCreate(c) ==
  /\ PreflightPasses
  /\ Fault
  /\ \/ /\ proposal[c] = Absent
        /\ proposal' = [proposal EXCEPT ![c] = Torn]
        /\ UNCHANGED approval
     \/ /\ proposal[c] \in Versions
        /\ approval[c] = Absent
        /\ approval' = [approval EXCEPT ![c] = Torn]
        /\ UNCHANGED proposal
  /\ UNCHANGED <<vault, auditVars, callVars, writes, attempts, cut, runVars>>

(* The proposal file is replaced by hand after it was saved.               *)
ReplaceProposal(c, v) ==
  /\ proposal[c] \in Versions \ {v}
  /\ Fault
  /\ proposal' = [proposal EXCEPT ![c] = v]
  /\ UNCHANGED <<vault, auditVars, callVars, writes, approval, attempts, cut,
                 runVars>>

-----------------------------------------------------------------------------
(* dnd changeset apply.                                                    *)

At(p, l) == pc[p] = l
Move(p, l) == pc' = [pc EXCEPT ![p] = l]

(* The command ends and its variables are gone.                            *)
Exit(p) ==
  /\ Move(p, "idle")
  /\ cs' = [cs EXCEPT ![p] = Absent]
  /\ ver' = [ver EXCEPT ![p] = Absent]
  /\ decided' = [decided EXCEPT ![p] = Absent]
  /\ history' = [history EXCEPT ![p] = <<>>]
  /\ nxt' = [nxt EXCEPT ![p] = 1]
  /\ outcome' = [outcome EXCEPT ![p] = NoOutcome]

Preflight(p, c) ==
  /\ At(p, "idle")
  /\ Len(attempts[c]) < MaxAttempts
  /\ PreflightPasses
  /\ Move(p, "load")
  /\ cs' = [cs EXCEPT ![p] = c]
  /\ UNCHANGED <<repoVars, artifacts, ver, decided, history, nxt, outcome>>

ApprovalLoads(c) ==
  /\ proposal[c] \in Versions
  /\ approval[c] \in Decisions
  /\ approval[c].decision = "approved"

(* A missing or torn artifact and a rejected proposal end the command.     *)
Load(p) ==
  /\ At(p, "load")
  /\ \/ /\ ApprovalLoads(cs[p])
        /\ Move(p, "attempts")
        /\ ver' = [ver EXCEPT ![p] = proposal[cs[p]]]
        /\ decided' = [decided EXCEPT ![p] = approval[cs[p]]]
        /\ UNCHANGED <<cs, history, nxt, outcome>>
     \/ /\ ~ApprovalLoads(cs[p])
        /\ Exit(p)
  /\ UNCHANGED <<repoVars, artifacts>>

ReadAttempts(p) ==
  /\ At(p, "attempts")
  /\ \/ /\ ~cut[cs[p]]
        /\ Move(p, "gate")
        /\ history' = [history EXCEPT ![p] = attempts[cs[p]]]
        /\ UNCHANGED <<cs, ver, decided, nxt, outcome>>
     \/ /\ cut[cs[p]]
        /\ Exit(p)
  /\ UNCHANGED <<repoVars, artifacts>>

Gate(p) ==
  /\ At(p, "gate")
  /\ \/ /\ Readable /\ Applicable(cs[p], ver[p], history[p])
        /\ Move(p, "validate")
        /\ UNCHANGED <<cs, ver, decided, history, nxt, outcome>>
     \/ /\ ~Readable \/ ~Applicable(cs[p], ver[p], history[p])
        /\ Exit(p)
  /\ UNCHANGED <<repoVars, artifacts>>

ValidateUnmatched(p) ==             \* mutant: any approval of the ChangeSet will do
  LET ready == Valid(Content[cs[p]][ver[p]]) IN
  /\ At(p, "validate")
  /\ \/ /\ ready
        /\ Move(p, "apply")
        /\ UNCHANGED <<cs, ver, decided, history, nxt, outcome>>
     \/ /\ ~ready
        /\ Exit(p)
  /\ UNCHANGED <<repoVars, artifacts>>

(* apply_changeset: approval of this very content, then a fresh preflight  *)
(* of the operations; either failing leaves no attempt record.             *)
Validate(p) ==
  LET ready == decided[p].ver = ver[p] /\ Valid(Content[cs[p]][ver[p]]) IN
  /\ At(p, "validate")
  /\ \/ /\ ready
        /\ Move(p, "apply")
        /\ UNCHANGED <<cs, ver, decided, history, nxt, outcome>>
     \/ /\ ~ready
        /\ Exit(p)
  /\ UNCHANGED <<repoVars, artifacts>>

BeginOperation(p) ==
  /\ At(p, "apply")
  /\ CallBegin(p, OpRequest(cs[p], ver[p], nxt[p]))
  /\ UNCHANGED <<artifacts, runVars>>

OperationAppliedAhead(p) ==         \* mutant: the count is one too high
  /\ At(p, "apply")
  /\ Return(p)
  /\ res[p] = "ok"
  /\ nxt' = [nxt EXCEPT ![p] = @ + 1]
  /\ \/ /\ nxt[p] < Len(Content[cs[p]][ver[p]])
        /\ UNCHANGED <<pc, outcome>>
     \/ /\ nxt[p] = Len(Content[cs[p]][ver[p]])
        /\ Move(p, "record")
        /\ outcome' = [outcome EXCEPT ![p] =
             [outcome |-> "applied", applied |-> nxt[p] + 1, state |-> "none"]]
  /\ UNCHANGED <<artifacts, cs, ver, decided, history>>

(* The run goes on to the next operation, ...                              *)
OperationApplied(p) ==
  /\ At(p, "apply")
  /\ Return(p)
  /\ res[p] = "ok"
  /\ nxt' = [nxt EXCEPT ![p] = @ + 1]
  /\ \/ /\ nxt[p] < Len(Content[cs[p]][ver[p]])
        /\ UNCHANGED <<pc, outcome>>
     \/ /\ nxt[p] = Len(Content[cs[p]][ver[p]])
        /\ Move(p, "record")
        /\ outcome' = [outcome EXCEPT ![p] =
             [outcome |-> "applied", applied |-> nxt[p], state |-> "none"]]
  /\ UNCHANGED <<artifacts, cs, ver, decided, history>>

OperationFailedWith(p, k, applied, state) ==
  /\ At(p, "apply")
  /\ Return(p)
  /\ res[p] # "ok"
  /\ Move(p, "record")
  /\ outcome' = [outcome EXCEPT ![p] =
       [outcome |-> k, applied |-> applied, state |-> state]]
  /\ UNCHANGED <<artifacts, cs, ver, decided, history, nxt>>

OperationFailedCounted(p) ==        \* mutant: the failing operation is counted
  OperationFailedWith(p, "partial", nxt[p],
    IF res[p] = "storage" THEN "unconfirmed" ELSE "not_written")

OperationFailedUnwritten(p) ==      \* mutant: no error leaves a write in doubt
  OperationFailedWith(p, IF nxt[p] > 1 THEN "partial" ELSE "failed", nxt[p] - 1,
    "not_written")

OperationFailedGoesOn(p) ==         \* mutant: the next operation is tried
  /\ At(p, "apply")
  /\ Return(p)
  /\ res[p] # "ok"
  /\ nxt[p] < Len(Content[cs[p]][ver[p]])
  /\ nxt' = [nxt EXCEPT ![p] = @ + 1]
  /\ UNCHANGED <<artifacts, pc, cs, ver, decided, history, outcome>>

(* ... and stops at the first error; what the error says about the file is *)
(* derived from its category alone.                                        *)
OperationFailed(p) ==
  OperationFailedWith(p, IF nxt[p] > 1 THEN "partial" ELSE "failed", nxt[p] - 1,
    IF res[p] = "storage" THEN "unconfirmed" ELSE "not_written")

(* record_apply_attempt reads the history again and refuses to extend one  *)
(* that is unreadable, invalid or terminal.                                *)
ReadHistory(p) ==
  LET h == attempts[cs[p]]
      open == /\ ~cut[cs[p]]
              /\ HistoryValid(ver[p], h)
              /\ h # <<>> => ~Terminal(h[Len(h)]) IN
  /\ At(p, "record")
  /\ \/ open /\ Move(p, "append") /\ UNCHANGED <<cs, ver, decided, history, nxt, outcome>>
     \/ ~open /\ Exit(p)
  /\ UNCHANGED <<repoVars, artifacts>>

AttemptOf(p) ==
  [ver |-> ver[p], outcome |-> outcome[p].outcome,
   applied |-> outcome[p].applied, state |-> outcome[p].state]

AppendAttemptTwice(p) ==            \* mutant: an append that succeeded is retried
  /\ At(p, "append")
  /\ attempts' = [attempts EXCEPT ![cs[p]] = @ \o <<AttemptOf(p), AttemptOf(p)>>]
  /\ Exit(p)
  /\ UNCHANGED <<repoVars, proposal, approval, cut>>

(* An append that raises after the whole record was written, its line feed *)
(* included, leaves the same: the command ends in either case.             *)
AppendAttempt(p) ==
  /\ At(p, "append")
  /\ attempts' = [attempts EXCEPT ![cs[p]] = Append(@, AttemptOf(p))]
  /\ Exit(p)
  /\ UNCHANGED <<repoVars, proposal, approval, cut>>

(* The append raises, or the process dies in it, short of a whole record.  *)
AppendAttemptFails(p) ==
  /\ At(p, "append")
  /\ Fault
  /\ cut' \in {cut, [cut EXCEPT ![cs[p]] = TRUE]}
  /\ Exit(p)
  /\ UNCHANGED <<vault, auditVars, callVars, writes, proposal, approval, attempts>>

(* A step of the repository call that is in flight.                        *)
Performing(p) ==
  /\ At(p, "apply")
  /\ CallStep(p)
  /\ UNCHANGED <<artifacts, runVars>>

(* The process dies, inside a repository call or outside of one.           *)
ApplyCrashes(p) ==
  /\ pc[p] # "idle"
  /\ \/ Crash(p)
     \/ CrashInAppend(p)
     \/ /\ step[p] = "idle"
        /\ Fault
        /\ UNCHANGED <<vault, auditVars, callVars, writes>>
  /\ Exit(p)
  /\ UNCHANGED artifacts

Apply(p) ==
  \/ \E c \in ChangeSets : Preflight(p, c)
  \/ Load(p)
  \/ ReadAttempts(p)
  \/ Gate(p)
  \/ Validate(p)
  \/ BeginOperation(p)
  \/ Performing(p)
  \/ OperationApplied(p)
  \/ OperationFailed(p)
  \/ ReadHistory(p)
  \/ AppendAttempt(p)
  \/ AppendAttemptFails(p)
  \/ ApplyCrashes(p)

Next ==
  \/ \E c \in ChangeSets :
       \/ \E v \in Versions : Save(c, v) \/ ReplaceProposal(c, v)
       \/ \E d \in {"approved", "rejected"} : Decide(c, d)
       \/ CrashInCreate(c)
  \/ \E p \in Procs : Apply(p)
  \/ Environment /\ UNCHANGED <<artifacts, runVars>>

Spec == Init /\ [][Next]_vars

-----------------------------------------------------------------------------
TypeOK ==
  /\ RepoTypeOK
  /\ proposal \in [ChangeSets -> Versions \union {Absent, Torn}]
  /\ approval \in [ChangeSets -> Decisions \union {Absent, Torn}]
  /\ attempts \in [ChangeSets -> Seq(Attempts)]
  /\ cut \in [ChangeSets -> BOOLEAN]
  /\ pc \in [Procs -> {"idle", "load", "attempts", "gate", "validate", "apply",
                       "record", "append"}]
  /\ cs \in [Procs -> ChangeSets \union {Absent}]
  /\ ver \in [Procs -> Versions \union {Absent}]
  /\ decided \in [Procs -> Decisions \union {Absent}]
  /\ history \in [Procs -> Seq(Attempts)]
  /\ nxt \in [Procs -> Nat]
  /\ outcome \in [Procs -> Outcomes]

(* An operation is announced only when the one before it is committed, in  *)
(* every interleaving of several runs of apply and whatever crashes.       *)
InOrder ==
  \A c \in ChangeSets : \A i \in 1..(MaxOps - 1) :
    intents[<<c, i + 1>>] > 0 => commits[<<c, i>>] > 0

(* Nothing is announced, hence written, for a ChangeSet but the operations *)
(* a reviewer approved, even if the proposal file is replaced by hand      *)
(* before, while or after it is applied.                                   *)
ApprovedContentOnly ==
  \A c \in ChangeSets : \A i \in 1..MaxOps : intents[<<c, i>>] > 0 =>
    /\ approval[c] \in Decisions
    /\ approval[c].decision = "approved"
    /\ i \in Ops(c, approval[c].ver)
    /\ LET o == Content[c][approval[c].ver][i] IN
         about[<<c, i>>] = {[kind |-> o.kind, ent |-> o.ent]}

(* What an attempt record says was applied is committed in the audit log.  *)
RecordsTellTheTruth ==
  \A c \in ChangeSets : \A k \in 1..Len(attempts[c]) :
    LET a == attempts[c][k] IN
    /\ \A i \in 1..a.applied : commits[<<c, i>>] > 0
    /\ a.outcome = "applied" => a.applied = Len(Content[c][a.ver])

(* One process at a time: when a run is about to be recorded as not having *)
(* written its failing operation, no run ever wrote it, so that the retry  *)
(* the record permits is safe; and nothing after the failing operation was *)
(* announced.                                                              *)
FailureTellsTheTruth ==
  \A p \in Procs :
    pc[p] \in {"record", "append"} /\ outcome[p].outcome # "applied" =>
      /\ outcome[p].state = "not_written" => writes[<<cs[p], nxt[p]>>] = 0
      /\ \A i \in 1..MaxOps : i > nxt[p] => intents[<<cs[p], i>>] = 0

(* One process at a time: what validate_changeset let through, the         *)
(* repository does.  Its projection of revisions through a ChangeSet is    *)
(* the one the operations will meet, so that without a fault no operation  *)
(* is refused half way.                                                    *)
ValidatedApplies ==
  faults = 0 => \A p \in Procs : pc[p] = "apply" => res[p] \in {"none", "ok"}

(* One process at a time: the evidence status reads never contradicts      *)
(* itself.  The audit log holds none, one or a matched pair of records of  *)
(* each operation, and no attempt record follows a terminal one.           *)
NoContradiction ==
  \A c \in ChangeSets : approval[c] \in Decisions =>
    /\ ~CorrelationFails(c, approval[c].ver)
    /\ HistoryValid(approval[c].ver, attempts[c])

(* One process at a time: an unmatched intent of a ChangeSet never stops   *)
(* the preflight of other commands, as long as the proposal it belongs to  *)
(* is the one that was approved.                                           *)
IntentsAreDelegated ==
  \A c \in ChangeSets : \A i \in 1..MaxOps :
    Unresolved(c, i) /\ approval[c] \in Decisions /\ proposal[c] = approval[c].ver
      => Owned(c, i)

(* One process at a time: the workflow implements ApplyOnce.               *)
PhaseOf(c) ==
  IF \E p \in Procs : pc[p] = "apply" /\ cs[p] = c THEN "running"
  ELSE IF \E i \in 1..MaxOps : intents[<<c, i>>] > 0 THEN "closed" ELSE "open"

Promise == INSTANCE ApplyOnce WITH
  phase <- [c \in ChangeSets |-> PhaseOf(c)],
  written <- [c \in ChangeSets |-> [i \in 1..MaxOps |-> writes[<<c, i>>]]]

AppliesOnce == Promise!Spec
=============================================================================
