---------------------------- MODULE SessionRuntime ----------------------------
(***************************************************************************)
(* The session runtime: `dnd session start`, notes and other events, `dnd  *)
(* session end`, and the recovery actions that clean up a partial start or *)
(* repair the tail of an event log.  Each is an audited operation on the   *)
(* two directories of a session, and several processes may run one at the  *)
(* same time: there is no lock, a file is read again after the intent and  *)
(* once more after the write.                                              *)
(*                                                                         *)
(* A session has a number s, a directory Sessions/<s> and a raw directory  *)
(* with its event log and its metadata.                                    *)
(***************************************************************************)
EXTENDS Naturals, Sequences, FiniteSetsExt

CONSTANTS
  Procs,        \* processes that run commands
  MaxSessions,  \* bound on the sessions that are started
  MaxEvents,    \* bound on the lines of an event log
  MaxFaults,    \* bound on crashes and failing operations
  Overlap,      \* whether a recovery action may overlap other calls
  NoLog,        \* there is no event log
  NoMeta,       \* there is no metadata
  NoProc,       \* stands for the author of a line that does not parse
  Nothing       \* a call that has read nothing yet

Sessions == 1..MaxSessions
Commands == {"start", "event", "end"}
Recoveries == {"cleanup", "repair"}
Kinds == Commands \union Recoveries
Tails == {"clean", "unterminated", "torn", "corrupt"}
Steps == {"idle", "lookup", "allocate", "validate", "read", "intent", "recheck",
          "mkdir", "mkraw", "mklog", "write", "unlink", "rmraw", "rmdir",
          "verify", "commit"}

(* A line is an event, known by its number and its author, or, with number *)
(* 0, one that does not parse.  A log ends with a line feed, with a        *)
(* complete line that lacks it, or with a fragment after its lines.        *)
Lines == [id : 0..MaxEvents, by : Procs \union {NoProc}]
Logs == [lines : Seq(Lines), end : {"lf", "nolf", "fragment"}]
Metas == [status : {"active", "completed"}, by : Procs]
Broken == [id |-> 0, by |-> NoProc]
EmptyLog == [lines |-> <<>>, end |-> "lf"]

ASSUME SessionAssumption ==
  /\ IsFiniteSet(Procs)
  /\ MaxSessions \in Nat /\ MaxEvents \in Nat /\ MaxFaults \in Nat
  /\ Overlap \in BOOLEAN
  /\ NoProc \notin Procs
  /\ NoLog \notin Logs
  /\ NoMeta \notin Metas

VARIABLES
  sessionDirs,  \* the sessions with a directory Sessions/<s>
  rawDirs,      \* the sessions with a raw directory
  log,          \* session -> its event log
  meta,         \* session -> its metadata
  open,         \* session -> kind -> intents without a committed record
  started,      \* the sessions with a committed session.start record
  tail,         \* the physical state of the end of the audit log
  pc,           \* process -> the step of its command
  cmd,          \* process -> which command it runs
  sid,          \* process -> the session it works on, 0 if none yet
  seen,         \* process -> what it read before its intent
  ended,        \* history: session -> its log when its metadata was completed
  faults        \* how many faults have happened

disk == <<sessionDirs, rawDirs, log, meta>>
audit == <<open, started, tail>>
callVars == <<pc, cmd, sid, seen>>
vars == <<disk, audit, callVars, ended, faults>>

Snapshots == [sdir : BOOLEAN, rdir : BOOLEAN, log : Logs \union {NoLog},
              meta : Metas \union {NoMeta}]

Snapshot(s) ==
  [sdir |-> s \in sessionDirs, rdir |-> s \in rawDirs, log |-> log[s],
   meta |-> meta[s]]

-----------------------------------------------------------------------------
(* The event log as a file.                                                *)

Wellformed(lines) ==
  /\ \A i \in DOMAIN lines : lines[i].id # 0
  /\ \A i, j \in DOMAIN lines : lines[i].id = lines[j].id => i = j

(* _parse_events_jsonl: complete lines, each an event, no id twice.        *)
Parses(l) == l.end = "lf" /\ Wellformed(l.lines)

(* O_APPEND writes after whatever the file ends with.                      *)
Appended(l, e) ==
  CASE l.end = "lf"       -> [lines |-> Append(l.lines, e), end |-> "lf"]
    [] l.end = "nolf"     -> [lines |-> [l.lines EXCEPT ![Len(l.lines)] = Broken], end |-> "lf"]
    [] l.end = "fragment" -> [lines |-> Append(l.lines, Broken), end |-> "lf"]

(* The lines that a line feed ends.                                        *)
Complete(l) ==
  IF l.end = "nolf" THEN SubSeq(l.lines, 1, Len(l.lines) - 1) ELSE l.lines

(* _allocate_event_id: one more than the greatest number in the log.       *)
NextEventId(l) == 1 + Max({0} \union {l.lines[i].id : i \in DOMAIN l.lines})

RepairedShort(l) ==                 \* mutant: the cut goes back one line too far
  [lines |-> IF l.end = "fragment" THEN SubSeq(l.lines, 1, Len(l.lines) - 1) ELSE l.lines,
   end |-> "lf"]

(* repair_event_tail adds the missing line feed or cuts the fragment off.  *)
Repaired(l) == [lines |-> l.lines, end |-> "lf"]

-----------------------------------------------------------------------------
(* What inspect_runtime reports.                                           *)

Active == {s \in Sessions : meta[s] # NoMeta /\ meta[s].status = "active"}
HasDirs(s) == s \in sessionDirs \union rawDirs

SafePartialStartByLog(s) ==         \* mutant: only the event log is looked at
  log[s] \in {NoLog, EmptyLog}

(* The remains of a start: directories, perhaps an empty event log.        *)
SafePartialStart(s) == meta[s] = NoMeta /\ log[s] \in {NoLog, EmptyLog}

EventTailRepairable(s) ==
  /\ meta[s] # NoMeta
  /\ log[s] # NoLog
  /\ log[s].end # "lf"
  /\ Wellformed(Complete(log[s]))

(* No issue of the session: its log parses and none of its intents is      *)
(* without a committed record; or it has no metadata and no directories.   *)
SessionSound(s) ==
  IF meta[s] # NoMeta
  THEN /\ log[s] # NoLog => Parses(log[s])
       /\ \A k \in Kinds : open[s][k] = 0
  ELSE HasDirs(s) => open[s]["start"] = 0 /\ s \in started

PreflightPasses ==
  /\ tail = "clean"
  /\ \A s \in Sessions : SessionSound(s)
  /\ Cardinality(Active) <= 1

-----------------------------------------------------------------------------
Init ==
  /\ sessionDirs = {}
  /\ rawDirs = {}
  /\ log = [s \in Sessions |-> NoLog]
  /\ meta = [s \in Sessions |-> NoMeta]
  /\ open = [s \in Sessions |-> [k \in Kinds |-> 0]]
  /\ started = {}
  /\ tail = "clean"
  /\ pc = [p \in Procs |-> "idle"]
  /\ cmd = [p \in Procs |-> "start"]
  /\ sid = [p \in Procs |-> 0]
  /\ seen = [p \in Procs |-> Nothing]
  /\ ended = [s \in Sessions |-> NoLog]
  /\ faults = 0

At(p, l) == pc[p] = l
Runs(p, kinds) == cmd[p] \in kinds
Move(p, l) == pc' = [pc EXCEPT ![p] = l]

(* The command is over, with a result or an error.                         *)
Exit(p) ==
  /\ Move(p, "idle")
  /\ cmd' = [cmd EXCEPT ![p] = "start"]
  /\ sid' = [sid EXCEPT ![p] = 0]
  /\ seen' = [seen EXCEPT ![p] = Nothing]

Goto(p, l) == Move(p, l) /\ UNCHANGED <<cmd, sid, seen>>

(* Go on if the condition holds, raise otherwise; the disk stays.          *)
GotoIf(condition, p, l) ==
  /\ IF condition THEN Goto(p, l) ELSE Exit(p)
  /\ UNCHANGED <<disk, audit, ended, faults>>

Quiet == \A p \in Procs : pc[p] = "idle"
Recovering == \E p \in Procs : pc[p] # "idle" /\ cmd[p] \in Recoveries

-----------------------------------------------------------------------------
(* The commands, up to their intent.                                       *)

Begin(p, k) ==
  /\ At(p, "idle")
  /\ Overlap \/ ~Recovering
  /\ PreflightPasses
  /\ Move(p, "lookup")
  /\ cmd' = [cmd EXCEPT ![p] = k]
  /\ UNCHANGED <<disk, audit, sid, seen, ended, faults>>

(* get_active_session: a raw directory without metadata is an error, and   *)
(* so is a second active session.                                          *)
Listable == \A s \in rawDirs : meta[s] # NoMeta

LookupForStartListed(p) ==          \* mutant: an active session is no obstacle
  /\ At(p, "lookup") /\ Runs(p, {"start"})
  /\ GotoIf(Listable, p, "allocate")

LookupForStart(p) ==
  /\ At(p, "lookup") /\ Runs(p, {"start"})
  /\ GotoIf(Listable /\ Active = {}, p, "allocate")

LookupActive(p) ==
  /\ At(p, "lookup") /\ Runs(p, {"event", "end"})
  /\ \/ \E s \in Sessions :
          /\ Listable /\ Active = {s}
          /\ Move(p, IF cmd[p] = "end" THEN "validate" ELSE "read")
          /\ sid' = [sid EXCEPT ![p] = s]
          /\ UNCHANGED <<cmd, seen>>
     \/ /\ ~Listable \/ Cardinality(Active) # 1
        /\ Exit(p)
  /\ UNCHANGED <<disk, audit, ended, faults>>

(* allocate_next_session_id looks at the names of all directories.         *)
Allocate(p) ==
  LET next == 1 + Max({0} \union sessionDirs \union rawDirs) IN
  /\ At(p, "allocate")
  /\ next \in Sessions
  /\ Move(p, "intent")
  /\ sid' = [sid EXCEPT ![p] = next]
  /\ UNCHANGED <<disk, audit, cmd, seen, ended, faults>>

(* end_session parses the event log before it calls close_session.         *)
ValidateLog(p) ==
  /\ At(p, "validate")
  /\ LET l == log[sid[p]] IN GotoIf(l # NoLog /\ Parses(l), p, "read")

(* append_event parses the log to number its event; close_session only     *)
(* takes its hash.  Both need the metadata to say active.                  *)
Usable(p) ==
  LET l == log[sid[p]] m == meta[sid[p]] IN
  /\ m # NoMeta /\ m.status = "active"
  /\ l # NoLog
  /\ cmd[p] = "event" => Parses(l)

Read(p) ==
  /\ At(p, "read") /\ Runs(p, {"event", "end"})
  /\ \/ /\ Usable(p)
        /\ cmd[p] = "event" => Len(log[sid[p]].lines) < MaxEvents
        /\ Move(p, "intent")
        /\ seen' = [seen EXCEPT ![p] = Snapshot(sid[p])]
        /\ UNCHANGED <<cmd, sid>>
     \/ ~Usable(p) /\ Exit(p)
  /\ UNCHANGED <<disk, audit, ended, faults>>

(* cleanup_partial_start and repair_event_tail read what they are to       *)
(* recover and need a clean audit log.                                     *)
Recover(p, k, s) ==
  /\ At(p, "idle")
  /\ Overlap \/ Quiet
  /\ tail = "clean"
  /\ \/ /\ k = "cleanup"
        /\ open[s]["start"] = 1
        /\ SafePartialStart(s)
     \/ /\ k = "repair"
        /\ EventTailRepairable(s)
  /\ Move(p, "intent")
  /\ cmd' = [cmd EXCEPT ![p] = k]
  /\ sid' = [sid EXCEPT ![p] = s]
  /\ seen' = [seen EXCEPT ![p] = Snapshot(s)]
  /\ UNCHANGED <<disk, audit, ended, faults>>

-----------------------------------------------------------------------------
(* The intent, and what is read again after it.                            *)

TailAfterAppend == IF tail = "clean" THEN "clean" ELSE "corrupt"
AnnounceOnce(p) ==                  \* mutant: a second intent is not recorded
  open' = [open EXCEPT ![sid[p]][cmd[p]] = 1]
Announce(p) == open' = [open EXCEPT ![sid[p]][cmd[p]] = @ + 1]

AppendIntent(p) ==
  /\ At(p, "intent")
  /\ Announce(p)
  /\ tail' = TailAfterAppend
  /\ Goto(p, IF cmd[p] = "start" THEN "mkdir" ELSE "recheck")
  /\ UNCHANGED <<disk, started, ended, faults>>

Unchanged(p) ==
  LET now == Snapshot(sid[p]) IN
  IF cmd[p] = "cleanup"
  THEN now = seen[p] /\ tail = "clean" /\ open[sid[p]]["start"] = 1
  ELSE now.log = seen[p].log /\ now.meta = seen[p].meta

Recheck(p) ==
  /\ At(p, "recheck")
  /\ GotoIf(Unchanged(p), p, IF cmd[p] = "cleanup" THEN "unlink" ELSE "write")

-----------------------------------------------------------------------------
(* create_session, one creation after the other.  Each is exclusive and    *)
(* needs the directory it creates in.                                      *)

MakeSessionDir(p) ==
  /\ At(p, "mkdir")
  /\ \/ /\ ~HasDirs(sid[p])
        /\ sessionDirs' = sessionDirs \union {sid[p]}
        /\ Goto(p, "mkraw")
     \/ /\ HasDirs(sid[p])
        /\ Exit(p)
        /\ UNCHANGED sessionDirs
  /\ UNCHANGED <<rawDirs, log, meta, audit, ended, faults>>

MakeRawDir(p) ==
  /\ At(p, "mkraw")
  /\ \/ /\ sid[p] \notin rawDirs
        /\ rawDirs' = rawDirs \union {sid[p]}
        /\ Goto(p, "mklog")
     \/ /\ sid[p] \in rawDirs
        /\ Exit(p)
        /\ UNCHANGED rawDirs
  /\ UNCHANGED <<sessionDirs, log, meta, audit, ended, faults>>

MakeLog(p) ==
  LET possible == sid[p] \in rawDirs /\ log[sid[p]] = NoLog IN
  /\ At(p, "mklog")
  /\ \/ /\ possible
        /\ log' = [log EXCEPT ![sid[p]] = EmptyLog]
        /\ Goto(p, "write")
     \/ /\ ~possible
        /\ Exit(p)
        /\ UNCHANGED log
  /\ UNCHANGED <<sessionDirs, rawDirs, meta, audit, ended, faults>>

-----------------------------------------------------------------------------
(* The write itself.                                                       *)

NewEvent(p) == [id |-> NextEventId(seen[p].log), by |-> p]
NewMeta(p) == [status |-> IF cmd[p] = "start" THEN "active" ELSE "completed", by |-> p]

(* metadata.json of a start or of an end replaces whatever is there.       *)
WriteMeta(p) ==
  LET s == sid[p] IN
  /\ At(p, "write") /\ Runs(p, {"start", "end"})
  /\ \/ /\ s \in rawDirs
        /\ meta' = [meta EXCEPT ![s] = NewMeta(p)]
        /\ ended' = [ended EXCEPT ![s] = IF cmd[p] = "end" /\ @ = NoLog THEN log[s] ELSE @]
        /\ Goto(p, "verify")
     \/ /\ s \notin rawDirs
        /\ Exit(p)
        /\ UNCHANGED <<meta, ended>>
  /\ UNCHANGED <<sessionDirs, rawDirs, log, audit, faults>>

(* _append_event_line opens an existing file only.                         *)
WriteEvent(p) ==
  LET s == sid[p] IN
  /\ At(p, "write") /\ Runs(p, {"event"})
  /\ \/ /\ log[s] # NoLog
        /\ log' = [log EXCEPT ![s] = Appended(@, NewEvent(p))]
        /\ Goto(p, "verify")
     \/ /\ log[s] = NoLog
        /\ Exit(p)
        /\ UNCHANGED log
  /\ UNCHANGED <<sessionDirs, rawDirs, meta, audit, ended, faults>>

(* The line feed goes to the end of the file as it is by then; the cut     *)
(* leaves the lines that were there when it was read.                      *)
WriteRepair(p) ==
  LET s == sid[p] IN
  /\ At(p, "write") /\ Runs(p, {"repair"})
  /\ log' = [log EXCEPT ![s] =
       IF seen[p].log.end = "fragment" THEN Repaired(seen[p].log)
       ELSE IF @.end = "nolf" THEN Repaired(@) ELSE Appended(@, Broken)]
  /\ Goto(p, "verify")
  /\ UNCHANGED <<sessionDirs, rawDirs, meta, audit, ended, faults>>

(* cleanup_partial_start removes what it saw: an empty event log, an empty *)
(* raw directory, the session directory.                                   *)
UnlinkLog(p) ==
  LET s == sid[p] IN
  /\ At(p, "unlink")
  /\ \/ /\ seen[p].log = NoLog
        /\ Goto(p, "rmraw")
        /\ UNCHANGED log
     \/ /\ seen[p].log # NoLog /\ log[s] = EmptyLog
        /\ log' = [log EXCEPT ![s] = NoLog]
        /\ Goto(p, "rmraw")
     \/ /\ seen[p].log # NoLog /\ log[s] # EmptyLog
        /\ Exit(p)
        /\ UNCHANGED log
  /\ UNCHANGED <<sessionDirs, rawDirs, meta, audit, ended, faults>>

RemoveRawDir(p) ==
  LET s == sid[p]
      empty == log[s] = NoLog /\ meta[s] = NoMeta IN
  /\ At(p, "rmraw")
  /\ \/ /\ ~seen[p].rdir \/ empty
        /\ rawDirs' = IF seen[p].rdir THEN rawDirs \ {s} ELSE rawDirs
        /\ Goto(p, "rmdir")
     \/ /\ seen[p].rdir /\ ~empty
        /\ Exit(p)
        /\ UNCHANGED rawDirs
  /\ UNCHANGED <<sessionDirs, log, meta, audit, ended, faults>>

RemoveSessionDir(p) ==
  /\ At(p, "rmdir")
  /\ sessionDirs' = IF seen[p].sdir THEN sessionDirs \ {sid[p]} ELSE sessionDirs
  /\ Goto(p, "verify")
  /\ UNCHANGED <<rawDirs, log, meta, audit, ended, faults>>

-----------------------------------------------------------------------------
(* What the read-back must find, and the committed record.                 *)

VerifiedByOwnWrite(p) ==            \* mutant: an end and an event read one file back
  LET s == sid[p] IN
  CASE cmd[p] \in {"start", "end"} -> meta[s] = NewMeta(p)
    [] cmd[p] = "event"  -> log[s] = Appended(seen[p].log, NewEvent(p))
    [] cmd[p] = "repair" -> log[s] = Repaired(seen[p].log)
    [] cmd[p] = "cleanup" -> TRUE

Verified(p) ==
  LET s == sid[p] IN
  CASE cmd[p] = "start"   -> meta[s] = NewMeta(p)
    [] cmd[p] = "end"     -> meta[s] = NewMeta(p) /\ log[s] = seen[p].log
    [] cmd[p] = "event"   -> /\ log[s] = Appended(seen[p].log, NewEvent(p))
                             /\ meta[s] = seen[p].meta
    [] cmd[p] = "repair"  -> /\ log[s] = Repaired(seen[p].log)
                             /\ Parses(log[s])
                             /\ meta[s] = seen[p].meta
    [] cmd[p] = "cleanup" -> /\ seen[p].log # NoLog => log[s] = NoLog
                             /\ seen[p].rdir => s \notin rawDirs
                             /\ seen[p].sdir => s \notin sessionDirs

Verify(p) ==
  /\ At(p, "verify")
  /\ GotoIf(Verified(p), p, "commit")

Commit(p) ==
  /\ open' = [open EXCEPT ![sid[p]][cmd[p]] = @ - 1]
  /\ started' = IF cmd[p] = "start" THEN started \union {sid[p]} ELSE started

AppendCommitted(p) ==
  /\ At(p, "commit")
  /\ Commit(p)
  /\ tail' = TailAfterAppend
  /\ Exit(p)
  /\ UNCHANGED <<disk, ended, faults>>

-----------------------------------------------------------------------------
(* Faults.                                                                 *)

Fault == faults < MaxFaults /\ faults' = faults + 1

(* The process dies, or a system call fails and the operation raises.      *)
Crash(p) ==
  /\ ~At(p, "idle")
  /\ Fault
  /\ Exit(p)
  /\ UNCHANGED <<disk, audit, ended>>

(* It dies while a record is on its way to the audit log: a fragment of it *)
(* stays, or the whole record without its line feed.                       *)
CrashInAudit(p) ==
  /\ pc[p] \in {"intent", "commit"}
  /\ Fault
  /\ Exit(p)
  /\ \/ /\ tail' = IF tail = "clean" THEN "torn" ELSE "corrupt"
        /\ UNCHANGED <<open, started>>
     \/ /\ tail' = IF tail = "clean" THEN "unterminated" ELSE "corrupt"
        /\ IF pc[p] = "intent" THEN Announce(p) /\ UNCHANGED started ELSE Commit(p)
  /\ UNCHANGED <<disk, ended>>

(* It dies, or writes short, while a line is appended to the event log.    *)
CrashInEvent(p) ==
  LET s == sid[p] IN
  /\ At(p, "write") /\ Runs(p, {"event"})
  /\ log[s] # NoLog
  /\ Fault
  /\ Exit(p)
  /\ \/ log' = [log EXCEPT ![s] = [lines |-> Complete(@), end |-> "fragment"]]
     \/ /\ log[s].end = "lf"
        /\ log' = [log EXCEPT ![s] =
             [lines |-> Append(@.lines, NewEvent(p)), end |-> "nolf"]]
  /\ UNCHANGED <<sessionDirs, rawDirs, meta, audit, ended>>

(* repair_audit_tail, run while no call is in flight.                      *)
RepairAuditTail ==
  /\ tail \in {"torn", "unterminated"}
  /\ Quiet
  /\ tail' = "clean"
  /\ UNCHANGED <<disk, open, started, callVars, ended, faults>>

-----------------------------------------------------------------------------
Step(p) ==
  \/ \E k \in Commands : Begin(p, k)
  \/ LookupForStart(p) \/ LookupActive(p) \/ Allocate(p)
  \/ ValidateLog(p) \/ Read(p)
  \/ \E s \in Sessions, k \in Recoveries : Recover(p, k, s)
  \/ AppendIntent(p) \/ Recheck(p)
  \/ MakeSessionDir(p) \/ MakeRawDir(p) \/ MakeLog(p)
  \/ WriteMeta(p) \/ WriteEvent(p) \/ WriteRepair(p)
  \/ UnlinkLog(p) \/ RemoveRawDir(p) \/ RemoveSessionDir(p)
  \/ Verify(p) \/ AppendCommitted(p)
  \/ Crash(p) \/ CrashInAudit(p) \/ CrashInEvent(p)

Next == (\E p \in Procs : Step(p)) \/ RepairAuditTail

Spec == Init /\ [][Next]_vars

-----------------------------------------------------------------------------
TypeOK ==
  /\ sessionDirs \subseteq Sessions
  /\ rawDirs \subseteq Sessions
  /\ log \in [Sessions -> Logs \union {NoLog}]
  /\ meta \in [Sessions -> Metas \union {NoMeta}]
  /\ open \in [Sessions -> [Kinds -> Nat]]
  /\ started \subseteq Sessions
  /\ tail \in Tails
  /\ pc \in [Procs -> Steps]
  /\ cmd \in [Procs -> Kinds]
  /\ sid \in [Procs -> Sessions \union {0}]
  /\ seen \in [Procs -> Snapshots \union {Nothing}]
  /\ ended \in [Sessions -> Logs \union {NoLog}]
  /\ faults \in 0..MaxFaults

(* Damage done by calls that overlapped never goes unnoticed: when nothing *)
(* is in flight and the preflight passes, at most one session is active,   *)
(* each session has its event log with the events 1, 2, 3 and so on, and   *)
(* the log of a completed session is what it was when it was completed.    *)
NumberedLog(s) ==
  log[s] # NoLog /\ \A i \in DOMAIN log[s].lines : log[s].lines[i].id = i

DamageIsDetected ==
  Quiet /\ PreflightPasses =>
    /\ Cardinality(Active) <= 1
    /\ \A s \in Sessions : meta[s] # NoMeta => NumberedLog(s)
    /\ \A s \in Sessions : ended[s] # NoLog =>
         meta[s].status = "completed" /\ log[s] = ended[s]

(* The lines of a raw event log stay, and new ones go to its end, through  *)
(* every interleaving, crash and repair.                                   *)
AppendOnly ==
  [][\A s \in Sessions : log[s] # NoLog /\ log'[s] # NoLog =>
       LET old == Complete(log[s]) new == Complete(log'[s]) IN
       Len(old) <= Len(new) /\ SubSeq(new, 1, Len(old)) = old]_log

(* A session that has its metadata never loses its event log or one of its *)
(* directories.                                                            *)
SessionKept ==
  [][\A s \in Sessions : meta[s] # NoMeta =>
       /\ meta'[s] # NoMeta
       /\ log[s] # NoLog => log'[s] # NoLog
       /\ s \in sessionDirs => s \in sessionDirs'
       /\ s \in rawDirs => s \in rawDirs']_vars

(* docs/development/project-invariants.md:126: after the end of a session  *)
(* its raw event log is immutable.                                         *)
EndedLogImmutable == \A s \in Sessions : ended[s] # NoLog => log[s] = ended[s]

(* storage/types.py:686, cleanup_partial_start: a partial start is         *)
(* recoverable when metadata.json is absent; so what has metadata is left  *)
(* alone.                                                                  *)
CleanupSparesSessions ==
  \A s \in Sessions : meta[s] # NoMeta => log[s] # NoLog /\ s \in sessionDirs

(* One process at a time: the runtime implements SessionLifecycle.         *)
Promise == INSTANCE SessionLifecycle WITH
  status <- [s \in Sessions |-> IF meta[s] = NoMeta THEN "none" ELSE meta[s].status],
  journal <- [s \in Sessions |->
    IF log[s] = NoLog THEN <<>>
    ELSE [i \in DOMAIN Complete(log[s]) |-> Complete(log[s])[i].id]]

FollowsLifecycle == Promise!Spec
=============================================================================
