--------------------------------- MODULE Tui ---------------------------------
(* The two front ends of the assistant.  `dnd ask` works on one request and *)
(* exits.  The text interface runs its operations in worker threads, one    *)
(* exclusive operation at a time (InFlightGate), applies their results on   *)
(* its event loop, and offers the commands that its own view of the         *)
(* campaign makes applicable.                                               *)
EXTENDS Assistant

CONSTANTS NoOwner, NoWork

Owners == {"assistant", "session", "campaign-state"}

ASSUME OwnerAssumption == NoOwner \notin Owners

VARIABLES
  front,       \* "ask", "tui", or "closed" after the user quit
  screen,      \* the screen on top: "assistant" or "session"
  gate,        \* the owner of the exclusive operation in flight, or NoOwner
  work,        \* the worker of a session or campaign operation, or NoWork
  read,        \* the read of the session status: "none", "pending" or what it found
  believes,    \* the interface takes a session to be active
  writeIntent, \* the user switched writing on for the next request
  converging   \* the sidebar is to be refreshed once the screen is back

tuiVars == <<front, screen, gate, work, read, believes, writeIntent, converging>>
vars == <<world, requestVars, tuiVars>>

SessionOps == {"start", "note", "end"}

Init ==
  /\ AssistantInit
  /\ front \in {"ask", "tui"}
  /\ screen = "assistant"
  /\ gate = IF front = "tui" THEN "campaign-state" ELSE NoOwner
  /\ work = IF front = "tui"
            THEN [owner |-> "campaign-state", op |-> "project", pc |-> "act", ok |-> FALSE]
            ELSE NoWork
  /\ read = IF front = "tui" THEN "pending" ELSE "none"
  /\ believes = FALSE /\ writeIntent = FALSE /\ converging = FALSE

-----------------------------------------------------------------------------
(* The gate, and the workers behind it.                                     *)

Acquire(owner) == gate = NoOwner /\ gate' = owner
Release(owner) == gate' = IF gate = owner THEN NoOwner ELSE gate

\* An operation that finds the gate taken tells the user to wait.
StartExclusive(owner, op) ==
  IF gate # NoOwner THEN UNCHANGED <<gate, work>>
  ELSE /\ Acquire(owner)
       /\ work' = [owner |-> owner, op |-> op, ok |-> FALSE,
                   pc |-> IF op \in SessionOps THEN "preflight" ELSE "act"]

\* Status reads are not exclusive; one at a time is a bound.
StartRead == read' = IF read = "none" THEN "pending" ELSE read

-----------------------------------------------------------------------------
(* Commands, as SemanticDispatcher lets them through.                       *)

Unoccupied == gate = NoOwner
On(name) == front = "tui" /\ screen = name /\ Unfinished

\* Text in the composer is submitted with the write intent of that moment.
SubmitRequest ==
  /\ On("assistant") /\ Unoccupied
  /\ \E text \in Queries : Submit(text, writeIntent)
  /\ Acquire("assistant")
  /\ UNCHANGED <<front, screen, work, read, believes, writeIntent, converging>>

ToggleWrite ==
  /\ On("assistant") /\ Unoccupied
  /\ AllowWrite
  /\ writeIntent' = ~writeIntent
  /\ UNCHANGED <<world, requestVars, front, screen, gate, work, read, believes, converging>>

\* The session screen may be opened while an operation is in flight ...
OpenSession ==
  /\ On("assistant")
  /\ screen' = "session"
  /\ UNCHANGED <<world, requestVars, front, gate, work, read, believes, writeIntent, converging>>

\* ... but is left only when none is: with the screen its workers would be
\* cancelled, and a cancelled worker keeps the gate, for its thread may still
\* be running.  A status read is cancelled if that screen had started it.
LeaveSession ==
  /\ screen' = "assistant" /\ converging' = TRUE
  /\ work' = IF work # NoWork /\ work.owner = "session" THEN [work EXCEPT !.pc = "cancelled"]
             ELSE work
  /\ read' \in {read, "none"}
  /\ UNCHANGED <<world, requestVars, front, gate, believes, writeIntent>>

LeaveAnyTime == On("session") /\ LeaveSession
ReturnToAssistant == On("session") /\ Unoccupied /\ LeaveSession

SessionCommand(op) ==
  /\ On("session") /\ Unoccupied
  /\ op = "start" <=> ~believes
  /\ StartExclusive("session", op)
  /\ UNCHANGED <<world, requestVars, front, screen, read, believes, writeIntent, converging>>

RefreshStatus ==
  /\ On("session") /\ read = "none"
  /\ StartRead
  /\ UNCHANGED <<world, requestVars, front, screen, gate, work, believes, writeIntent, converging>>

\* Reload and rebuild, which differ in what module CampaignState models.
CampaignCommand ==
  /\ On("assistant") /\ Unoccupied
  /\ StartExclusive("campaign-state", "project")
  /\ UNCHANGED <<world, requestVars, front, screen, read, believes, writeIntent, converging>>

QuitApp ==
  /\ front = "tui" /\ Unoccupied /\ Unfinished
  /\ front' = "closed"
  /\ UNCHANGED <<world, requestVars, screen, gate, work, read, believes, writeIntent, converging>>

\* `dnd ask QUERY [--allow-write]`.
AskCommand ==
  /\ front = "ask" /\ asked = <<>>
  /\ \E text \in Queries, write \in {FALSE, AllowWrite} : Submit(text, write)
  /\ UNCHANGED tuiVars

Commands ==
  \/ SubmitRequest \/ ToggleWrite \/ OpenSession \/ ReturnToAssistant
  \/ (\E op \in SessionOps : SessionCommand(op)) \/ RefreshStatus
  \/ CampaignCommand
  \/ QuitApp \/ AskCommand

-----------------------------------------------------------------------------
(* Worker threads.                                                          *)

Working(pc) == work # NoWork /\ work.pc = pc
Worked(ok) == work' = [work EXCEPT !.pc = "done", !.ok = ok]

SessionPreflight ==
  /\ Working("preflight")
  /\ IF damaged THEN Worked(FALSE) ELSE work' = [work EXCEPT !.pc = "act"]
  /\ UNCHANGED <<world, requestVars, front, screen, gate, read, believes, writeIntent, converging>>

SessionPossible == IF work.op = "start" THEN session = 0 /\ started < MaxSessions ELSE session # 0

\* The service asks again whether a session is active, and may fail.
SessionAct ==
  /\ Working("act") /\ work.op \in SessionOps
  /\ \/ /\ SessionPossible
        /\ started' = IF work.op = "start" THEN started + 1 ELSE started
        /\ session' = IF work.op = "start" THEN started' ELSE IF work.op = "end" THEN 0 ELSE session
        /\ Worked(TRUE)
     \/ Worked(FALSE) /\ UNCHANGED <<session, started>>
  /\ UNCHANGED <<vault, index, damaged, turns, requestVars,
                 front, screen, gate, read, believes, writeIntent, converging>>

CampaignAct ==
  /\ Working("act") /\ work.op \notin SessionOps
  /\ \E ok \in BOOLEAN : Worked(ok)
  /\ UNCHANGED <<world, requestVars, front, screen, gate, read, believes, writeIntent, converging>>

\* A read that fails changes no belief: there is nothing to deliver.
ReadStatus ==
  /\ read = "pending"
  /\ read' \in {IF session = 0 THEN "inactive" ELSE "active", "none"}
  /\ UNCHANGED <<world, requestVars, front, screen, gate, work, believes, writeIntent, converging>>

Threads == SessionPreflight \/ SessionAct \/ CampaignAct \/ ReadStatus

-----------------------------------------------------------------------------
(* The event loop applies what the workers return.                          *)

\* A session operation that succeeded says whether a session is active, and
\* the status is read again.
DeliverWork ==
  /\ front = "tui" /\ Working("done")
  /\ Release(work.owner) /\ work' = NoWork
  /\ believes' = IF work.ok /\ work.op \in SessionOps THEN work.op # "end" ELSE believes
  /\ IF work.ok /\ work.op \in SessionOps THEN StartRead ELSE UNCHANGED read
  /\ UNCHANGED <<world, requestVars, front, screen, writeIntent, converging>>

DeliverStatus ==
  /\ front = "tui" /\ read \in {"active", "inactive"}
  /\ believes' = (read = "active")
  /\ read' = "none"
  /\ UNCHANGED <<world, requestVars, front, screen, gate, work, writeIntent, converging>>

DeliverAnswer ==
  /\ front \in {"ask", "tui"} /\ Answer
  /\ Release("assistant")
  /\ UNCHANGED <<front, screen, work, read, believes, writeIntent, converging>>

\* Back on the assistant's screen, the sidebar reads the session status and
\* the state of the campaign again.
Converge ==
  /\ front = "tui" /\ converging
  /\ converging' = FALSE
  /\ StartRead
  /\ StartExclusive("campaign-state", "project")
  /\ UNCHANGED <<world, requestVars, front, screen, believes, writeIntent>>

EventLoop == DeliverWork \/ DeliverStatus \/ DeliverAnswer \/ Converge

-----------------------------------------------------------------------------
RunRequest == RunStep /\ UNCHANGED tuiVars
OtherActors == Others /\ UNCHANGED tuiVars

Next == Commands \/ RunRequest \/ Threads \/ EventLoop \/ OtherActors

(* Threads run on, the provider's client gives up after its timeout, and    *)
(* the event loop gets to every message; nobody has to press a key.         *)
Spec ==
  /\ Init /\ [][Next]_vars
  /\ WF_vars(RunRequest)
  /\ WF_vars(SessionPreflight \/ SessionAct \/ CampaignAct)
  /\ WF_vars(DeliverWork) /\ WF_vars(DeliverAnswer)

-----------------------------------------------------------------------------
Answered(r) == answers[r] # NoAnswer
Wrote(e) == Definition(e.tool).permission = "write"

\* Nothing is written without the user having asked for it with this request.
AskedFor == \A k \in DOMAIN effects :
  Wrote(effects[k]) /\ asked[effects[k].req].write /\ AllowWrite

\* One request writes once at most, whatever the model returns.
WritesOnce == \A r \in Requests : Cardinality(EffectsOf(r)) <= 1

\* What the model is shown, and what it changes, was visible to the players
\* at some time since the request was made.
SecretsKept == run # NoRun =>
  /\ run.shown \subseteq run.opened
  /\ \A k \in EffectsOf(run.req) : 
       Definition(effects[k].tool).effects = {"entity_mutation"} => effects[k].target \in run.opened

\* A request that was answered is over: nothing is written for it any more.
Over == \A r \in Requests : Answered(r) => answers[r].wrote = Cardinality(EffectsOf(r))

\* One exclusive operation at a time: none writes while another is at it.
OneAtATime ==
  /\ run # NoRun /\ front = "tui" => gate = "assistant" /\ work = NoWork
  /\ work # NoWork /\ front = "tui" => gate = work.owner

(* What requests to the assistant may do, whatever the model returns (which *)
(* may be a second batch, several writes in a batch, or calls of tools that *)
(* were not exposed) and whatever others do to the Vault meanwhile.         *)
WritesAsAsked == AskedFor /\ WritesOnce /\ SecretsKept /\ Over /\ OneAtATime

Busy == run # NoRun \/ gate # NoOwner

(* Every request is answered, and every operation of the text interface     *)
(* gives the gate back: the user is never locked out of it.                 *)
RequestsAnswered == Busy ~> ~Busy
=============================================================================
