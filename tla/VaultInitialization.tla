------------------------- MODULE VaultInitialization -------------------------
(***************************************************************************)
(* `dnd init`: create the managed directories of a Vault and publish its   *)
(* commit marker _system/campaign.yaml, or complete the directories of a   *)
(* Vault that has the marker.  Nothing locks the Vault: several runs may   *)
(* overlap, a run may die at any step and be started again, and a sync     *)
(* tool may drop an empty directory.                                       *)
(***************************************************************************)
EXTENDS Integers, Sequences

CONSTANTS
  Procs,      \* processes that run commands
  NoMarker,   \* campaign.yaml does not exist, or no identity was read
  MaxFaults   \* bound on crashes, failing appends and lost directories

VARIABLES
  dirs,       \* the managed directories that exist
  marker,     \* the identity campaign.yaml holds: the run that published it
  tail,       \* the physical state of the end of the audit log
  step,       \* process -> the step of its command
  mode,       \* process -> what its `dnd init` does: commit or repair
  at,         \* process -> the position of the next directory it ensures
  found,      \* process -> the identity it has read
  told,       \* process -> the identity its last successful `dnd init` reported
  lost,       \* history: directories something else has removed
  faults      \* how many faults have happened

initVars == <<dirs, marker, mode, at, found, told, lost>>

-----------------------------------------------------------------------------
(* MANAGED_DIRECTORIES, with one entity directory for all; the two the     *)
(* audit log needs are ensured before the intent, the rest after it.       *)
Layout == <<"_system", "audit", "Sessions", "raw", "rawSessions", "entities">>
Managed == {Layout[i] : i \in DOMAIN Layout}
AuditDirectories == 2
Parent(d) ==
  CASE d \in {"audit", "raw"} -> {"_system"}
    [] d = "rawSessions" -> {"raw"}
    [] OTHER -> {}
Missing == Managed \ dirs

Tails == {"clean", "unterminated", "torn", "corrupt"}
TailAfterAppend == IF tail = "clean" THEN "clean" ELSE "corrupt"

InitTypeOK ==
  /\ dirs \subseteq Managed /\ lost \subseteq Managed
  /\ marker \in Procs \union {NoMarker}
  /\ tail \in Tails
  /\ mode \in [Procs -> {"commit", "repair"}]
  /\ at \in [Procs -> 1..Len(Layout)]
  /\ found \in [Procs -> Procs \union {NoMarker}]
  /\ told \in [Procs -> Procs \union {NoMarker}]
  /\ faults \in Nat

VaultInit ==
  /\ dirs = {}
  /\ marker = NoMarker
  /\ tail = "clean"
  /\ step = [p \in Procs |-> "idle"]
  /\ mode = [p \in Procs |-> "commit"]
  /\ at = [p \in Procs |-> 1]
  /\ found = [p \in Procs |-> NoMarker]
  /\ told = [p \in Procs |-> NoMarker]
  /\ lost = {}
  /\ faults = 0

Goto(p, s) == step' = [step EXCEPT ![p] = s]
(* The run ends: it reports an identity, or (NoMarker) an error.           *)
EndsInit(p, id) ==
  /\ Goto(p, "idle")
  /\ told' = [told EXCEPT ![p] = id]
  /\ found' = [found EXCEPT ![p] = NoMarker]
  /\ mode' = [mode EXCEPT ![p] = "commit"]
  /\ at' = [at EXCEPT ![p] = 1]

-----------------------------------------------------------------------------
(* initialize: the read-only inspection decides what this run does.  The   *)
(* inspections that follow in commit_initialization and repair_layout only *)
(* refuse unsafe paths; repair reads the marker, which is there to stay.   *)
InspectVault(p) ==
  /\ step[p] = "idle"
  /\ IF marker # NoMarker /\ Missing = {}
     THEN EndsInit(p, marker)
     ELSE /\ Goto(p, "ensure")
          /\ mode' = [mode EXCEPT ![p] = IF marker = NoMarker THEN "commit" ELSE "repair"]
          /\ found' = [found EXCEPT ![p] = marker]
          /\ UNCHANGED at
          /\ told' = [told EXCEPT ![p] = NoMarker]
  /\ UNCHANGED <<dirs, marker, tail, lost, faults>>

EnsureDirectoryLeniently(p) ==       \* mutant: mkdir failing is not an error
  /\ step[p] = "ensure"
  /\ LET d == Layout[at[p]] IN
     /\ dirs' = dirs \union (IF Parent(d) \subseteq dirs THEN {d} ELSE {})
     /\ at' = [at EXCEPT ![p] = IF @ < Len(Layout) THEN @ + 1 ELSE @]
     /\ Goto(p, CASE at[p] = AuditDirectories -> "intent"
                  [] at[p] = Len(Layout) -> IF mode[p] = "commit" THEN "publish"
                                            ELSE "reread"
                  [] OTHER -> "ensure")
  /\ UNCHANGED <<marker, tail, mode, found, told, lost, faults>>

(* _ensure_directory: an existing directory is fine, also one that another *)
(* run has just made; a missing parent is an error.                        *)
EnsureDirectory(p) ==
  /\ step[p] = "ensure"
  /\ LET d == Layout[at[p]] IN
     IF d \in dirs \/ Parent(d) \subseteq dirs
     THEN /\ dirs' = dirs \union {d}
          /\ at' = [at EXCEPT ![p] = IF @ < Len(Layout) THEN @ + 1 ELSE @]
          /\ Goto(p, CASE at[p] = AuditDirectories -> "intent"
                       [] at[p] = Len(Layout) -> IF mode[p] = "commit" THEN "publish"
                                                 ELSE "reread"
                       [] OTHER -> "ensure")
          /\ UNCHANGED <<mode, found, told>>
     ELSE EndsInit(p, NoMarker) /\ UNCHANGED dirs
  /\ UNCHANGED <<marker, tail, lost, faults>>

AppendInitIntent(p) ==
  /\ step[p] = "intent"
  /\ tail' = TailAfterAppend
  /\ Goto(p, "ensure")
  /\ UNCHANGED <<initVars, faults>>

(* exclusive_atomic_write_text links a complete file to the name, or finds *)
(* the name taken: the loser of the race adopts the marker of the winner.  *)
PublishedByReplace(p) == p           \* mutant: os.replace instead of os.link
PublishedMarker(p) == IF marker = NoMarker THEN p ELSE marker

PublishMarker(p) ==
  /\ step[p] = "publish"
  /\ marker' = PublishedMarker(p)
  /\ Goto(p, "reread")
  /\ UNCHANGED <<dirs, tail, mode, at, found, told, lost, faults>>

(* The marker is read again; a repair refuses another identity than the    *)
(* one it began with.                                                      *)
RereadMarker(p) ==
  /\ step[p] = "reread"
  /\ IF mode[p] = "repair" /\ found[p] # marker
     THEN EndsInit(p, NoMarker)
     ELSE /\ Goto(p, "committed")
          /\ found' = [found EXCEPT ![p] = marker]
          /\ UNCHANGED <<mode, at, told>>
  /\ UNCHANGED <<dirs, marker, tail, lost, faults>>

AppendInitCommitted(p) ==
  /\ step[p] = "committed"
  /\ tail' = TailAfterAppend
  /\ EndsInit(p, found[p])
  /\ UNCHANGED <<dirs, marker, lost, faults>>

InitStep(p) ==
  \/ InspectVault(p) \/ EnsureDirectory(p) \/ AppendInitIntent(p)
  \/ PublishMarker(p) \/ RereadMarker(p) \/ AppendInitCommitted(p)

-----------------------------------------------------------------------------
(* Faults.  A crash leaves what is on the disk; one that hits an append    *)
(* leaves a fragment, or the record without its line feed.                 *)
Fault == faults < MaxFaults /\ faults' = faults + 1
TailAfterFragment == IF tail = "clean" THEN {"torn", "unterminated"} ELSE {"corrupt"}

InitSteps == {"ensure", "intent", "publish", "reread", "committed"}

CrashInit(p) ==
  /\ step[p] \in InitSteps
  /\ Fault
  /\ EndsInit(p, NoMarker)
  /\ tail' \in {tail} \union
       (IF step[p] \in {"intent", "committed"} THEN TailAfterFragment ELSE {})
  /\ UNCHANGED <<dirs, marker, lost>>

(* A tool that syncs the Vault drops an empty directory.                   *)
DirectoryLost(d) ==
  /\ d \in dirs \ {"_system", "audit"}
  /\ \A child \in dirs : d \notin Parent(child)
  /\ Fault
  /\ dirs' = dirs \ {d}
  /\ lost' = lost \union {d}
  /\ UNCHANGED <<marker, tail, step, mode, at, found, told>>

-----------------------------------------------------------------------------
(* Properties.                                                             *)

(* A Vault has one identity for ever: whatever overlaps and dies, every    *)
(* `dnd init` that succeeded reported the identity campaign.yaml holds     *)
(* now.  (commit_initialization: a loser adopts the winner's marker.)      *)
OneIdentity == \A p \in Procs : told[p] # NoMarker => told[p] = marker

(* The marker is the commit point of initialization: when it appears, the  *)
(* whole layout is there, but for directories something else removed.      *)
MarkerLast == [][marker' # marker => Missing \subseteq lost]_marker
===============================================================================
