---------------------------- MODULE VaultMutation ----------------------------
(***************************************************************************)
(* The audit-protected entity mutations of storage/vault_repository.py:    *)
(* create_entity, patch_entity and append_entity_fact, as several          *)
(* processes (dnd commands, the TUI, an agent run) execute them against    *)
(* one Vault with no lock between them.                                    *)
(*                                                                         *)
(* A call reads the audit log, reads the Vault, appends an intent record,  *)
(* reads again what it is about to replace, replaces the file atomically,  *)
(* reads it back and appends a committed record.  Each of those is a step  *)
(* here, so that two calls interleave, a process dies between two steps,   *)
(* a write fails, and the owner of the Vault edits a note in Obsidian.     *)
(***************************************************************************)
EXTENDS Naturals, FiniteSets

CONSTANTS
  Procs,      \* processes that call the repository
  Entities,   \* entity ids
  OpIds,      \* audit operation ids a caller may use
  Requests,   \* the mutations callers may ask for
  Existing,   \* the entities the Vault holds at the start
  Seed,       \* stands for the files the Vault holds at the start
  NoDoc,      \* no file at a path
  NoPath,     \* a call that has not chosen its target yet
  NoReq,      \* no call
  MaxFaults   \* bound on crashes, failed writes and edits by the owner

Kinds == {"create", "patch", "append"}
Mutations == [op : OpIds, kind : Kinds, ent : Entities, exp : Nat]

ASSUME RepoAssumption ==
  /\ IsFiniteSet(Procs)
  /\ Requests \subseteq Mutations
  /\ Existing \subseteq Entities
  /\ Seed \notin Procs
  /\ NoDoc \notin [rev : Nat, marks : SUBSET OpIds, edits : Nat]
  /\ MaxFaults \in Nat

VARIABLES
  vault,    \* path -> the document in that file
  intents,  \* operation id -> how many intent records the audit log holds
  commits,  \* operation id -> how many committed records it holds
  about,    \* operation id -> the (kind, entity) pairs its intents name
  tail,     \* the physical state of the end of the audit log
  step,     \* process -> the step of its repository call
  req,      \* process -> the mutation it asked for
  path,     \* process -> the file the call is to write
  base,     \* process -> the document the candidate was computed from
  res,      \* process -> how its last call ended
  wrote,    \* history: process -> its current call has replaced the file
  writes,   \* history: operation id -> how often a file was replaced for it
  faults    \* how many faults have happened

repoVars == <<vault, intents, commits, about, tail, step, req, path, base,
              res, wrote, writes, faults>>
callVars == <<step, req, path, base, res, wrote>>
auditVars == <<intents, commits, about, tail>>

-----------------------------------------------------------------------------
(* A file name is generated for the process that creates it, so a path is  *)
(* an entity and the creator of the file; a document is its revision, the  *)
(* operations its contents carry, and how often the owner has edited it.   *)
(* Equal documents have equal hashes.                                      *)

Paths == Entities \X (Procs \union {Seed})
Docs == [rev : Nat, marks : SUBSET OpIds, edits : Nat]
Steps == {"idle", "check", "snapshot", "intent", "recheck", "replace",
          "readback", "commit", "done"}
Results == {"none", "ok", "conflict", "not_found", "storage"}
Tails == {"clean", "unterminated", "torn", "corrupt"}

FilesOf(e) == {f \in Paths : f[1] = e /\ vault[f] # NoDoc}
Duplicated == \E e \in Entities : \E f, g \in FilesOf(e) : f # g
ExistsAsCreated(e) == \E f \in FilesOf(e) : f[2] # Seed   \* mutant: by file name
Exists(e) == FilesOf(e) # {}

(* read_all raises StorageError on a fragment of a record; it accepts a    *)
(* complete last record that lacks its line feed.                          *)
Readable == tail \in {"clean", "unterminated"}
(* An append goes after whatever the file ends with.                       *)
TailAfterAppend == IF tail = "clean" THEN "clean" ELSE "corrupt"

CandidateFromRequest(p) ==          \* mutant: the stored contents are dropped
  [rev |-> IF req[p].kind = "create" THEN 1 ELSE base[p].rev + 1,
   marks |-> {req[p].op}, edits |-> 0]

Candidate(p) ==
  IF req[p].kind = "create"
  THEN [rev |-> 1, marks |-> {req[p].op}, edits |-> 0]
  ELSE [rev |-> base[p].rev + 1, marks |-> base[p].marks \union {req[p].op},
        edits |-> base[p].edits]

-----------------------------------------------------------------------------
RepoInit ==
  /\ vault = [f \in Paths |->
               IF f[1] \in Existing /\ f[2] = Seed
               THEN [rev |-> 1, marks |-> {}, edits |-> 0] ELSE NoDoc]
  /\ intents = [o \in OpIds |-> 0]
  /\ commits = [o \in OpIds |-> 0]
  /\ about = [o \in OpIds |-> {}]
  /\ tail = "clean"
  /\ step = [p \in Procs |-> "idle"]
  /\ req = [p \in Procs |-> NoReq]
  /\ path = [p \in Procs |-> NoPath]
  /\ base = [p \in Procs |-> NoDoc]
  /\ res = [p \in Procs |-> "none"]
  /\ wrote = [p \in Procs |-> FALSE]
  /\ writes = [o \in OpIds |-> 0]
  /\ faults = 0

Goto(p, s) == step' = [step EXCEPT ![p] = s]

(* The call raises (or returns) and touches nothing else.                  *)
Finish(p, r) ==
  /\ Goto(p, "done")
  /\ res' = [res EXCEPT ![p] = r]
  /\ UNCHANGED <<vault, auditVars, req, path, base, wrote, writes, faults>>

(* A caller enters create_entity, patch_entity or append_entity_fact.      *)
CallBegin(p, m) ==
  /\ step[p] = "idle"
  /\ Goto(p, "check")
  /\ req' = [req EXCEPT ![p] = m]
  /\ UNCHANGED <<vault, auditVars, path, base, res, wrote, writes, faults>>

CheckAuditReadableOnly(p) ==        \* mutant: a used operation id is accepted
  /\ step[p] = "check"
  /\ IF Readable
     THEN /\ Goto(p, "snapshot")
          /\ UNCHANGED <<vault, auditVars, req, path, base, res, wrote, writes,
                         faults>>
     ELSE Finish(p, "storage")

(* _check_audit_health: an unreadable log stops the call, and so does an   *)
(* operation id the log already holds.                                     *)
CheckAudit(p) ==
  /\ step[p] = "check"
  /\ \/ /\ ~Readable
        /\ Finish(p, "storage")
     \/ /\ Readable
        /\ intents[req[p].op] + commits[req[p].op] > 0
        /\ Finish(p, "conflict")
     \/ /\ Readable
        /\ intents[req[p].op] + commits[req[p].op] = 0
        /\ Goto(p, "snapshot")
        /\ UNCHANGED <<vault, auditVars, req, path, base, res, wrote, writes,
                       faults>>

(* create_entity refuses an entity the snapshot holds and otherwise picks  *)
(* an unused file name.                                                    *)
SnapshotForCreate(p) ==
  /\ step[p] = "snapshot"
  /\ req[p].kind = "create"
  /\ \/ /\ Duplicated \/ Exists(req[p].ent)
        /\ Finish(p, "conflict")
     \/ /\ ~Duplicated /\ ~Exists(req[p].ent)
        /\ Goto(p, "intent")
        /\ path' = [path EXCEPT ![p] = <<req[p].ent, p>>]
        /\ UNCHANGED <<vault, auditVars, req, base, res, wrote, writes, faults>>

(* patch_entity and append_entity_fact need the entity at the revision the *)
(* caller expects; the candidate is computed from what is read here.       *)
SnapshotForUpdate(p) ==
  /\ step[p] = "snapshot"
  /\ req[p].kind # "create"
  /\ \/ /\ Duplicated
        /\ Finish(p, "conflict")
     \/ /\ ~Duplicated /\ ~Exists(req[p].ent)
        /\ Finish(p, "not_found")
     \/ \E f \in FilesOf(req[p].ent) :
          /\ ~Duplicated
          /\ vault[f].rev # req[p].exp
          /\ Finish(p, "conflict")
     \/ \E f \in FilesOf(req[p].ent) :
          /\ ~Duplicated
          /\ vault[f].rev = req[p].exp
          /\ Goto(p, "intent")
          /\ path' = [path EXCEPT ![p] = f]
          /\ base' = [base EXCEPT ![p] = vault[f]]
          /\ UNCHANGED <<vault, auditVars, req, res, wrote, writes, faults>>

WriteIntentOnce(p) ==               \* mutant: a used id gets no second record
  /\ intents' = [intents EXCEPT ![req[p].op] = 1]
  /\ about' = [about EXCEPT ![req[p].op] =
                 @ \union {[kind |-> req[p].kind, ent |-> req[p].ent]}]

WriteIntent(p) ==
  /\ intents' = [intents EXCEPT ![req[p].op] = @ + 1]
  /\ about' = [about EXCEPT ![req[p].op] =
                 @ \union {[kind |-> req[p].kind, ent |-> req[p].ent]}]

AppendIntent(p) ==
  /\ step[p] = "intent"
  /\ WriteIntent(p)
  /\ tail' = TailAfterAppend
  /\ Goto(p, "recheck")
  /\ UNCHANGED <<vault, commits, req, path, base, res, wrote, writes, faults>>

(* After the intent a create takes a fresh snapshot.                       *)
RecheckCreate(p) ==
  /\ step[p] = "recheck"
  /\ req[p].kind = "create"
  /\ \/ /\ Duplicated \/ Exists(req[p].ent)
        /\ Finish(p, "conflict")
     \/ /\ ~Duplicated /\ ~Exists(req[p].ent)
        /\ Goto(p, "replace")
        /\ UNCHANGED <<vault, auditVars, req, path, base, res, wrote, writes,
                       faults>>

(* After the intent an update reads its one target file again: it must be  *)
(* there, and have the revision and the hash the candidate was built on.   *)
RecheckUpdate(p) ==
  /\ step[p] = "recheck"
  /\ req[p].kind # "create"
  /\ \/ /\ vault[path[p]] = NoDoc
        /\ Finish(p, "storage")
     \/ /\ vault[path[p]] \notin {NoDoc, base[p]}
        /\ Finish(p, "conflict")
     \/ /\ vault[path[p]] = base[p]
        /\ Goto(p, "replace")
        /\ UNCHANGED <<vault, auditVars, req, path, base, res, wrote, writes,
                       faults>>

(* atomic_write_text replaces whatever the path holds by then.             *)
ReplaceFile(p) ==
  /\ step[p] = "replace"
  /\ vault' = [vault EXCEPT ![path[p]] = Candidate(p)]
  /\ wrote' = [wrote EXCEPT ![p] = TRUE]
  /\ writes' = [writes EXCEPT ![req[p].op] = @ + 1]
  /\ Goto(p, "readback")
  /\ UNCHANGED <<auditVars, req, path, base, res, faults>>

ReadBackConflict(p) ==              \* mutant: a mismatch raises ConflictError
  /\ step[p] = "readback"
  /\ \/ /\ vault[path[p]] # Candidate(p)
        /\ Finish(p, "conflict")
     \/ /\ vault[path[p]] = Candidate(p)
        /\ Goto(p, "commit")
        /\ UNCHANGED <<vault, auditVars, req, path, base, res, wrote, writes,
                       faults>>

ReadBack(p) ==
  /\ step[p] = "readback"
  /\ \/ /\ vault[path[p]] # Candidate(p)
        /\ Finish(p, "storage")
     \/ /\ vault[path[p]] = Candidate(p)
        /\ Goto(p, "commit")
        /\ UNCHANGED <<vault, auditVars, req, path, base, res, wrote, writes,
                       faults>>

WriteCommitted(p) == commits' = [commits EXCEPT ![req[p].op] = @ + 1]

AppendCommitted(p) ==
  /\ step[p] = "commit"
  /\ WriteCommitted(p)
  /\ tail' = TailAfterAppend
  /\ Goto(p, "done")
  /\ res' = [res EXCEPT ![p] = "ok"]
  /\ UNCHANGED <<vault, intents, about, req, path, base, wrote, writes, faults>>

ForgetRequestOnly(p) ==             \* mutant: the call stays where it is
  /\ step' = step
  /\ req' = [req EXCEPT ![p] = NoReq]
  /\ path' = [path EXCEPT ![p] = NoPath]
  /\ base' = [base EXCEPT ![p] = NoDoc]
  /\ res' = [res EXCEPT ![p] = "none"]
  /\ wrote' = [wrote EXCEPT ![p] = FALSE]

(* The call is over and its local variables are gone: the caller has taken *)
(* the result, or the process has died.                                    *)
Forget(p) ==
  /\ Goto(p, "idle")
  /\ req' = [req EXCEPT ![p] = NoReq]
  /\ path' = [path EXCEPT ![p] = NoPath]
  /\ base' = [base EXCEPT ![p] = NoDoc]
  /\ res' = [res EXCEPT ![p] = "none"]
  /\ wrote' = [wrote EXCEPT ![p] = FALSE]

Return(p) ==
  /\ step[p] = "done"
  /\ Forget(p)
  /\ UNCHANGED <<vault, auditVars, writes, faults>>

-----------------------------------------------------------------------------
(* Faults.                                                                 *)

Fault == faults < MaxFaults /\ faults' = faults + 1

(* What an interrupted append leaves: a fragment of the record, or the     *)
(* whole record, without its line feed or, if only fsync failed, with it.  *)
Interrupted(p) ==
  \/ /\ tail' = IF tail = "clean" THEN "torn" ELSE "corrupt"
     /\ UNCHANGED <<intents, commits, about>>
  \/ /\ tail' \in {TailAfterAppend, IF tail = "clean" THEN "unterminated" ELSE "corrupt"}
     /\ IF step[p] = "intent"
        THEN WriteIntent(p) /\ UNCHANGED commits
        ELSE WriteCommitted(p) /\ UNCHANGED <<intents, about>>

(* An append raises: the file is as it was, or the write was interrupted.  *)
AppendFails(p) ==
  /\ step[p] \in {"intent", "commit"}
  /\ Fault
  /\ UNCHANGED auditVars \/ Interrupted(p)
  /\ Goto(p, "done")
  /\ res' = [res EXCEPT ![p] = "storage"]
  /\ UNCHANGED <<vault, req, path, base, wrote, writes>>

ReplaceFailsUnnoticed(p) ==         \* mutant: the error is swallowed
  /\ step[p] = "replace"
  /\ Fault
  /\ Goto(p, "commit")
  /\ UNCHANGED <<vault, auditVars, req, path, base, res, wrote, writes>>

(* atomic_write_text raises before os.replace: the target is untouched.    *)
ReplaceFails(p) ==
  /\ step[p] = "replace"
  /\ Fault
  /\ Goto(p, "done")
  /\ res' = [res EXCEPT ![p] = "storage"]
  /\ UNCHANGED <<vault, auditVars, req, path, base, wrote, writes>>

Crash(p) ==
  /\ step[p] # "idle"
  /\ Fault
  /\ Forget(p)
  /\ UNCHANGED <<vault, auditVars, writes>>

(* It dies while the record is on its way to the disk.                     *)
CrashInAppend(p) ==
  /\ step[p] \in {"intent", "commit"}
  /\ Fault
  /\ Forget(p)
  /\ Interrupted(p)
  /\ UNCHANGED <<vault, writes>>

(* The owner edits a note in Obsidian: the text changes, the revision in   *)
(* its frontmatter does not.                                               *)
OwnerEdits(f) ==
  /\ vault[f] # NoDoc
  /\ Fault
  /\ vault' = [vault EXCEPT ![f].edits = @ + 1]
  /\ UNCHANGED <<auditVars, callVars, writes>>

OwnerDeletes(f) ==
  /\ vault[f] # NoDoc
  /\ Fault
  /\ vault' = [vault EXCEPT ![f] = NoDoc]
  /\ UNCHANGED <<auditVars, callVars, writes>>

(* repair_audit_tail, run while no call is in flight: the fragment is cut  *)
(* off, or the missing line feed is added.                                 *)
RepairAuditTail ==
  /\ tail \in {"torn", "unterminated"}
  /\ \A p \in Procs : step[p] = "idle"
  /\ tail' = "clean"
  /\ UNCHANGED <<vault, intents, commits, about, callVars, writes, faults>>

-----------------------------------------------------------------------------
(* A step of a call in flight, and a fault that ends it with an error.     *)
CallStep(p) ==
  \/ CheckAudit(p)
  \/ SnapshotForCreate(p) \/ SnapshotForUpdate(p)
  \/ AppendIntent(p)
  \/ RecheckCreate(p) \/ RecheckUpdate(p)
  \/ ReplaceFile(p)
  \/ ReadBack(p)
  \/ AppendCommitted(p)
  \/ AppendFails(p) \/ ReplaceFails(p)

Environment ==
  \/ \E f \in Paths : OwnerEdits(f) \/ OwnerDeletes(f)
  \/ RepairAuditTail

RepoNext ==
  \/ \E p \in Procs :
       \/ \E m \in Requests : CallBegin(p, m)
       \/ CallStep(p)
       \/ Return(p)
       \/ Crash(p) \/ CrashInAppend(p)
  \/ Environment

RepoSpec == RepoInit /\ [][RepoNext]_repoVars

-----------------------------------------------------------------------------
RepoTypeOK ==
  /\ vault \in [Paths -> Docs \union {NoDoc}]
  /\ intents \in [OpIds -> Nat]
  /\ commits \in [OpIds -> Nat]
  /\ about \in [OpIds -> SUBSET [kind : Kinds, ent : Entities]]
  /\ tail \in Tails
  /\ step \in [Procs -> Steps]
  /\ req \in [Procs -> Requests \union {NoReq}]
  /\ \A p \in Procs : step[p] # "idle" => req[p] \in Requests
  /\ path \in [Procs -> Paths \union {NoPath}]
  /\ base \in [Procs -> Docs \union {NoDoc}]
  /\ res \in [Procs -> Results]
  /\ wrote \in [Procs -> BOOLEAN]
  /\ writes \in [OpIds -> Nat]
  /\ faults \in Nat

(* Every replacement of a file was announced first, each by an intent of   *)
(* its own: no interleaving and no crash makes the audit log hold fewer    *)
(* intents of an operation than the Vault received writes of it.  So a     *)
(* write that happened twice shows in the log as two intents, which        *)
(* correlate_audit refuses.                                                *)
WriteAhead == \A o \in OpIds : writes[o] <= intents[o]

(* A committed record is only ever appended for a write that was made.     *)
CommittedWasWritten == \A o \in OpIds : commits[o] <= writes[o]

(* What apply_changeset derives from the kind of error: a ConflictError or *)
(* NotFoundError was raised before the file was replaced, and a call that  *)
(* returned has replaced it.                                               *)
ErrorsTellTheTruth ==
  \A p \in Procs : step[p] = "done" =>
    /\ res[p] \in {"conflict", "not_found"} => ~wrote[p]
    /\ res[p] = "ok" => wrote[p] /\ commits[req[p].op] > 0

(* Calls of one process at a time never write an operation twice, whatever *)
(* crashes, failures and repairs come between them.                        *)
AtMostOnce == \A o \in OpIds : writes[o] <= 1

(* Calls of one process at a time never leave two files for one entity.    *)
UniqueEntity == ~Duplicated

(* Calls of one process at a time never take an operation's contents out   *)
(* of the Vault again: a file keeps every operation it carries until the   *)
(* owner deletes it, and its revision does not go back.                    *)
NothingLost ==
  [][\A f \in Paths :
       vault[f] # NoDoc /\ vault'[f] # NoDoc =>
         /\ vault[f].marks \subseteq vault'[f].marks
         /\ vault[f].rev <= vault'[f].rev]_vault
=============================================================================
