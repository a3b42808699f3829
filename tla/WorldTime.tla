------------------------------ MODULE WorldTime ------------------------------
(***************************************************************************)
(* The clock of the campaign, _system/world_time.json: the current tick    *)
(* and a revision.  `dnd time init` creates it in an initialized Vault;    *)
(* the tools set_world_time and advance_world_time change it for a caller  *)
(* that names the revision it saw.  A call reads the file, appends an      *)
(* intent, reads again, replaces the file, reads it back and appends a     *)
(* committed record; no lock is held, and no call looks into the log.      *)
(*                                                                         *)
(* `dnd init` (VaultInitialization) runs beside it, on the same processes  *)
(* and the same audit log.                                                 *)
(***************************************************************************)
EXTENDS Calendar, VaultInitialization

CONSTANTS
  Ticks,        \* the ticks callers set
  Minutes,      \* the amounts callers advance the clock by
  MaxRevision,  \* bound on the revisions of the clock
  NoClock,      \* world_time.json does not exist
  NoCall        \* a process without a call on the clock

VARIABLES
  clock,      \* the contents of world_time.json
  call,       \* process -> the call it makes
  base,       \* process -> the contents its candidate was computed from
  target,     \* process -> the tick its call is to store
  named,      \* history: process -> the contents the intent of its call names
  explained,  \* history: the intent of the call that wrote the file names its contents
  latest,     \* history: the highest revision there has been
  checked,    \* history: process -> what its second read found
  raced       \* history: a file changed between a second read and the write

clockVars == <<clock, call, base, target, named, explained, latest, checked, raced>>
vars == <<initVars, tail, step, faults, clockVars>>

Revisions == 1..MaxRevision
Clocks == [tick : Int, rev : Nat \ {0}]
\* known is history: the highest revision there had been when the call began
Calls == [kind : {"init"}, tick : Int]
         \union [kind : {"set"}, tick : Int, expected : Revisions]
         \union [kind : {"advance"}, minutes : Int, expected : Revisions, known : Nat]
ClockSteps == {"fetch", "load", "announce", "recheck", "replace", "readback", "finalize"}

\* What callers pass, and that an absent file or call is not a present one.
ASSUME ClockAssumption ==
  /\ Ticks \subseteq Int /\ Minutes \subseteq Int /\ MaxRevision \in Nat
  /\ NoClock \notin Clocks

-----------------------------------------------------------------------------
ClockInit ==
  /\ clock = NoClock
  /\ call = [p \in Procs |-> NoCall]
  /\ base = [p \in Procs |-> NoClock]
  /\ target = [p \in Procs |-> 0]
  /\ named = [p \in Procs |-> NoClock]
  /\ explained = TRUE
  /\ latest = 0
  /\ checked = [p \in Procs |-> NoClock]
  /\ raced = FALSE

Idle(p) == step[p] = "idle"

(* The call ends, with a result or an error.                               *)
Ends(p) ==
  /\ Goto(p, "idle")
  /\ call' = [call EXCEPT ![p] = NoCall]
  /\ base' = [base EXCEPT ![p] = NoClock]
  /\ target' = [target EXCEPT ![p] = 0]
  /\ named' = [named EXCEPT ![p] = NoClock]
  /\ checked' = [checked EXCEPT ![p] = NoClock]

Fails(p) ==
  Ends(p) /\ UNCHANGED <<initVars, tail, faults, clock, explained, latest, raced>>

CandidateFromZero(p) ==                  \* mutant: revisions begin with zero
  [tick |-> target[p], rev |-> IF base[p] = NoClock THEN 0 ELSE base[p].rev + 1]
Candidate(p) ==
  [tick |-> target[p], rev |-> IF base[p] = NoClock THEN 1 ELSE base[p].rev + 1]

Begins(p, c, s) ==
  /\ Idle(p)
  /\ call' = [call EXCEPT ![p] = c]
  /\ Goto(p, s)
  /\ UNCHANGED <<initVars, tail, faults, clock, base, named, explained, latest,
                 checked, raced>>

(* The repository needs the directories of the audit log, and nothing else *)
(* of the Vault; `dnd time init` needs the marker, the whole layout and an *)
(* audit log without damage.                                               *)
EnvironmentSafe == {"_system", "audit"} \subseteq dirs
CommandPrecondition == marker # NoMarker /\ Missing = {} /\ tail = "clean"

BeginInit(p, tick) ==
  /\ EnvironmentSafe
  /\ Begins(p, [kind |-> "init", tick |-> tick], "load")
  /\ target' = [target EXCEPT ![p] = tick]

TimeInitCommand(p, tick) == CommandPrecondition /\ BeginInit(p, tick)

\* set_world_time, which initializes the clock for a caller without a revision
SetWorldTime(p, tick, expected) ==
  IF expected = 0 THEN BeginInit(p, tick)
  ELSE /\ EnvironmentSafe
       /\ Begins(p, [kind |-> "set", tick |-> tick, expected |-> expected], "load")
       /\ target' = [target EXCEPT ![p] = tick]

AdvanceWorldTime(p, minutes, expected) ==
  /\ EnvironmentSafe
  /\ Begins(p, [kind |-> "advance", minutes |-> minutes, expected |-> expected,
                known |-> latest], "fetch")
  /\ UNCHANGED target

(* _advance_world_time_handler reads the clock to compute the new tick,    *)
(* and leaves it to set_current_world_time to check the revision.          *)
FetchTick(p) ==
  /\ step[p] = "fetch"
  /\ \/ clock = NoClock /\ Fails(p)
     \/ /\ clock # NoClock
        /\ target' = [target EXCEPT ![p] = Advance(clock.tick, call[p].minutes)]
        /\ Goto(p, "load")
        /\ UNCHANGED <<initVars, tail, faults, clock, call, base, named, explained,
                       latest, checked, raced>>

(* initialize_current_world_time needs the file to be absent,              *)
(* set_current_world_time to have the expected revision.                   *)
Acceptable(p) ==
  IF call[p].kind = "init" THEN clock = NoClock
  ELSE clock # NoClock /\ clock.rev = call[p].expected

LoadClock(p) ==
  /\ step[p] = "load"
  /\ \/ ~Acceptable(p) /\ Fails(p)
     \/ /\ Acceptable(p)
        /\ base' = [base EXCEPT ![p] = clock]
        /\ Goto(p, "announce")
        /\ UNCHANGED <<initVars, tail, faults, clock, call, target, named, explained,
                       latest, checked, raced>>

(* _commit_mutation.                                                       *)
Announce(p) == named' = [named EXCEPT ![p] = Candidate(p)]

AppendClockIntent(p) ==
  /\ step[p] = "announce"
  /\ Announce(p)
  /\ tail' = TailAfterAppend
  /\ Goto(p, "recheck")
  /\ UNCHANGED <<initVars, faults, clock, call, base, target, explained, latest,
                 checked, raced>>

RecheckSkipped(p) ==                            \* mutant: no second read
  /\ step[p] = "recheck"
  /\ checked' = [checked EXCEPT ![p] = clock]
  /\ Goto(p, "replace")
  /\ UNCHANGED <<initVars, tail, faults, clock, call, base, target, named, explained,
                 latest, raced>>

(* The second read: the file is as it was when the candidate was computed. *)
RecheckClock(p) ==
  /\ step[p] = "recheck"
  /\ \/ clock # base[p] /\ Fails(p)
     \/ /\ clock = base[p]
        /\ checked' = [checked EXCEPT ![p] = clock]
        /\ Goto(p, "replace")
        /\ UNCHANGED <<initVars, tail, faults, clock, call, base, target, named,
                       explained, latest, raced>>

(* atomic_write_text replaces whatever the file holds by now.              *)
ReplaceClock(p) ==
  /\ step[p] = "replace"
  /\ clock' = Candidate(p)
  /\ latest' = IF Candidate(p).rev > latest THEN Candidate(p).rev ELSE latest
  /\ raced' = (raced \/ clock # checked[p])
  /\ explained' = (named[p] = Candidate(p))
  /\ Goto(p, "readback")
  /\ UNCHANGED <<initVars, tail, faults, call, base, target, named, checked>>

ReadBackClock(p) ==
  /\ step[p] = "readback"
  /\ \/ clock # Candidate(p) /\ Fails(p)
     \/ /\ clock = Candidate(p)
        /\ Goto(p, "finalize")
        /\ UNCHANGED <<initVars, tail, faults, clockVars>>

AppendClockCommitted(p) ==
  /\ step[p] = "finalize"
  /\ tail' = TailAfterAppend
  /\ Ends(p)
  /\ UNCHANGED <<initVars, faults, clock, explained, latest, raced>>

ClockStep(p) ==
  \/ FetchTick(p) \/ LoadClock(p) \/ AppendClockIntent(p) \/ RecheckClock(p)
  \/ ReplaceClock(p) \/ ReadBackClock(p) \/ AppendClockCommitted(p)

BeginCall(p) ==
  \/ \E t \in Ticks : TimeInitCommand(p, t)
  \/ \E t \in Ticks, r \in 0..MaxRevision - 1 : SetWorldTime(p, t, r)
  \/ \E m \in Minutes, r \in 1..MaxRevision - 1 : AdvanceWorldTime(p, m, r)

-----------------------------------------------------------------------------
(* Faults, and the repair of the audit log's tail while nothing runs.      *)
CrashCall(p) ==
  /\ step[p] \in ClockSteps
  /\ Fault
  /\ Ends(p)
  /\ tail' \in {tail} \union
       (IF step[p] \in {"announce", "finalize"} THEN TailAfterFragment ELSE {})
  /\ UNCHANGED <<initVars, clock, explained, latest, raced>>

RepairAuditTail ==
  /\ tail \in {"torn", "unterminated"}
  /\ \A p \in Procs : Idle(p)
  /\ tail' = "clean"
  /\ UNCHANGED <<initVars, step, faults, clockVars>>

Init == VaultInit /\ ClockInit

Next ==
  \/ \E p \in Procs :
       \/ (InitStep(p) \/ CrashInit(p)) /\ UNCHANGED clockVars
       \/ BeginCall(p) \/ ClockStep(p) \/ CrashCall(p)
  \/ \E d \in Managed : DirectoryLost(d) /\ UNCHANGED clockVars
  \/ RepairAuditTail

Spec == Init /\ [][Next]_vars

-----------------------------------------------------------------------------
(* Properties.                                                             *)
ClockTypeOK ==
  /\ step \in [Procs -> {"idle"} \union InitSteps \union ClockSteps]
  /\ clock \in Clocks \union {NoClock}
  /\ call \in [Procs -> Calls \union {NoCall}]
  /\ base \in [Procs -> Clocks \union {NoClock}]
  /\ checked \in [Procs -> Clocks \union {NoClock}]
  /\ target \in [Procs -> Int]
  /\ named \in [Procs -> Clocks \union {NoClock}]
  /\ latest \in Nat

TypeOK == InitTypeOK /\ ClockTypeOK /\ explained \in BOOLEAN /\ raced \in BOOLEAN

(* Time moves as callers asked.  Until a file changes between the second   *)
(* read of a call and its write, every write of world_time.json creates    *)
(* revision 1 or the next revision, and an advance by a caller who had     *)
(* seen the revision it names adds its minutes to the tick that was there, *)
(* although it computes the tick from an earlier read than the one whose   *)
(* revision is checked (_advance_world_time_handler).                      *)
Replaces(p) == step[p] = "replace" /\ step'[p] = "readback"

ClockAdvances ==
  [][\A p \in Procs : Replaces(p) /\ ~raced' =>
       /\ clock'.rev = IF clock = NoClock THEN 1 ELSE clock.rev + 1
       /\ call[p].kind = "advance" /\ call[p].expected <= call[p].known =>
            clock'.tick = clock.tick + call[p].minutes]_vars

(* The audit log explains the clock: the contents of world_time.json are   *)
(* those that an intent, appended before the write, names; a log that      *)
(* cannot be read any more is the one exception, as nothing looks for a    *)
(* fragment before it appends.                                             *)
LogExplainsClock == tail # "corrupt" => explained
=============================================================================
