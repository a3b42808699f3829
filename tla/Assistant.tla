------------------------------ MODULE Assistant ------------------------------
(* One request to the assistant, from the preflight to the answer, on a     *)
(* Vault that the owner and other processes change meanwhile.  `dnd ask`    *)
(* and the text interface (module Tui) run the same steps.                  *)
(*                                                                          *)
(* The storage behind a tool is one step here: VaultMutation and            *)
(* SessionRuntime model what is inside it.                                  *)
EXTENDS AgentTools, Retrieval

CONSTANTS
  Notes,          \* the entity notes of the Vault, by id
  NoteOf(_),      \* the parts of a note that do not change here
  Queries,        \* what a user may ask
  Batches,        \* the batches of tool calls the model may return
  AllowWrite,     \* the front end was started with --allow-write
  MaxSessions,    \* bound: sessions started in one behaviour
  MaxRequests,    \* bound: requests of one behaviour
  MaxTurns,       \* bound: steps of the owner and of other processes
  NoRun, NoAnswer

VARIABLES
  vault,    \* note -> [visible, revision]
  index,    \* the full-text index
  session,  \* the number of the active session, 0 when there is none
  started,  \* how many sessions were started
  damaged,  \* the session runtime needs an explicit recovery
  turns,    \* steps taken by the owner and by other processes
  run,      \* the request being worked on, or NoRun
  asked,    \* request -> [text, write] as it was submitted
  answers,  \* request -> what its user was shown, or NoAnswer
  effects   \* what tools changed, in order: [req, tool, target]

world == <<vault, index, session, started, damaged, turns>>
requestVars == <<run, asked, answers, effects>>

Requests == 1..MaxRequests
ToolCalls == [tool : STRING, id : Nat, valid : BOOLEAN,
              target : Notes \union Queries, revision : Nat]

\* Notes are known by their ids, and the model returns sequences of calls.
ASSUME AssistantAssumption ==
  /\ MaxRequests \in Nat /\ AllowWrite \in BOOLEAN
  /\ \A i \in Notes : {"id", "visible", "revision"} \subseteq DOMAIN NoteOf(i) /\ NoteOf(i).id = i
  /\ \A calls \in Batches : calls \in Seq(ToolCalls)

ContextLimit == 5  \* _MAX_RELEVANT_ENTITIES

Listed == {[NoteOf(i) EXCEPT !.visible = vault[i].visible,
                             !.revision = vault[i].revision] : i \in Notes}
Visible == {i \in Notes : vault[i].visible}

EffectsOf(r) == {k \in DOMAIN effects : effects[k].req = r}

AssistantInit ==
  /\ vault = [i \in Notes |-> [visible |-> TRUE, revision |-> 1]]
  /\ index \in {NoIndex, Rebuilt(Listed)}
  /\ session = 0 /\ started = 0 /\ damaged = FALSE /\ turns = 0
  /\ run = NoRun /\ asked = <<>> /\ effects = <<>>
  /\ answers = [r \in Requests |-> NoAnswer]

-----------------------------------------------------------------------------
(* The owner and other processes.                                           *)

\* A bound: nothing more happens once the last request is answered.
Unfinished == \E r \in Requests : answers[r] = NoAnswer

Turn == Unfinished /\ turns < MaxTurns /\ turns' = turns + 1

\* What a request may have found visible since it was submitted.
Seeing(seen) == IF run = NoRun THEN run ELSE [run EXCEPT !.opened = @ \union seen]

\* The owner hides a note from the players or shows it, without touching its
\* revision.
OwnerFlips(i) ==
  /\ Turn
  /\ vault' = [vault EXCEPT ![i].visible = ~@]
  /\ run' = Seeing({j \in Notes : vault'[j].visible})
  /\ UNCHANGED <<index, session, started, damaged, asked, answers, effects>>

\* Another command starts or ends a session.
OtherSession ==
  /\ Turn
  /\ IF session = 0 THEN started < MaxSessions /\ started' = started + 1 /\ session' = started'
     ELSE session' = 0 /\ UNCHANGED started
  /\ UNCHANGED <<vault, index, damaged, requestVars>>

\* Another command dies half way through a session operation.
OtherCrashes ==
  /\ Turn /\ ~damaged
  /\ damaged' = TRUE
  /\ UNCHANGED <<vault, index, session, started, requestVars>>

\* `dnd index rebuild`.
OtherRebuildsIndex ==
  /\ Turn
  /\ index' = Rebuilt(Listed)
  /\ UNCHANGED <<vault, session, started, damaged, requestVars>>

Others == (\E i \in Notes : OwnerFlips(i)) \/ OtherSession \/ OtherCrashes \/ OtherRebuildsIndex

-----------------------------------------------------------------------------
(* The steps of a request.                                                  *)

Submit(text, write) ==
  /\ run = NoRun /\ Len(asked) < MaxRequests
  /\ asked' = Append(asked, [text |-> text, write |-> write])
  /\ run' = [req |-> Len(asked'), pc |-> "preflight", hits |-> {}, tools |-> {},
             context |-> [granted |-> "read", mode |-> "no_active_session", audit |-> FALSE],
             calls |-> <<>>, at |-> 1, observed |-> FALSE, sent |-> 0,
             eligible |-> {}, shown |-> {}, opened |-> Visible, outcome |-> "none"]
  /\ UNCHANGED <<world, answers, effects>>

Request == asked[run.req]
At(pc) == run # NoRun /\ run.pc = pc
Goto(pc) == run' = [run EXCEPT !.pc = pc]
Ends(outcome) == run' = [run EXCEPT !.pc = "done", !.outcome = outcome]
Idle == UNCHANGED <<world, asked, answers, effects>>

\* The request is not started on a runtime that needs recovery.
Preflight ==
  /\ At("preflight")
  /\ IF damaged THEN Ends("error") ELSE Goto("compose")
  /\ Idle

\* The profile and the model are loaded, and the execution context is fixed:
\* the tools will be judged by the session mode read here.
Compose ==
  /\ At("compose")
  /\ \/ Ends("error")
     \/ /\ Request.write => AllowWrite
        /\ run' = [run EXCEPT !.pc = "search",
             !.context = [granted |-> IF Request.write THEN "write" ELSE "read",
                          mode |-> IF session = 0 THEN "no_active_session"
                                   ELSE "active_session",
                          audit |-> Request.write]]
  /\ Idle

\* The context of the prompt: what the query finds ...
SearchNotes ==
  /\ At("search")
  /\ LET eligible == Eligible(Listed, {})
         direct == DirectHits(eligible, Request.text)
     IN IF direct = {} THEN run' = [run EXCEPT !.pc = "index", !.eligible = eligible]
        ELSE run' = [run EXCEPT !.pc = "hydrate", !.hits = Top(direct, ContextLimit)]
  /\ Idle

\* ... in the index when no name resembles it, which must be up to date with
\* the notes as they are listed again ...
SearchIndex ==
  /\ At("index")
  /\ IF Fresh(index, Listed)
     THEN run' = [run EXCEPT !.pc = "hydrate", !.eligible = {},
            !.hits = LexicalHits(index, Request.text, run.eligible,
                                 CandidateRows(Listed, ContextLimit), ContextLimit)]
     ELSE Ends("error")
  /\ Idle

\* ... and each note that is still shown to players when it is read again.
HydrateNotes ==
  /\ At("hydrate")
  /\ run' = IF run.hits = {} THEN [run EXCEPT !.pc = "prepare"]
            ELSE LET best == CHOOSE h \in run.hits : \A g \in run.hits : ~Precedes(g, h)
                 IN [run EXCEPT !.hits = @ \ {best},
                                !.shown = @ \union ({best.id} \intersect Visible)]
  /\ Idle

\* The tools are selected and frozen, and the prompt is built.
Prepare ==
  /\ At("prepare")
  /\ LET tools == SelectTools(Registry, run.context)
     IN IF Canonical(tools) THEN run' = [run EXCEPT !.pc = "model", !.tools = tools]
        ELSE Ends("error")
  /\ Idle

-----------------------------------------------------------------------------
(* The model answers within its time limit, with a text, with calls or with *)
(* an error; it is asked at most MaxModelRequests times.                    *)

Asking == At("model") /\ run.sent < MaxModelRequests

ModelAnswers ==
  /\ Asking
  /\ \E outcome \in {"respond", "clarify"} : Ends(outcome)
  /\ Idle

\* The provider fails, its answer is not an outcome, or one request more is
\* needed than the run may make.
ModelFails == At("model") /\ Ends("error") /\ Idle

ModelCalls(calls) ==
  /\ Asking
  /\ run' = [run EXCEPT !.pc = "admit", !.sent = @ + 1, !.calls = calls]
  /\ Idle

\* The policy sees the batch before any call of it is executed.
AdmitToolBatch ==
  /\ At("admit")
  /\ run' = IF Admits(run.calls, run.tools, run.observed)
               /\ \A i \in DOMAIN run.calls : run.calls[i].valid
            THEN [run EXCEPT !.pc = "execute", !.at = 1, !.observed = TRUE]
            ELSE [run EXCEPT !.pc = "done", !.outcome = "error", !.observed = TRUE]
  /\ Idle

Call == run.calls[run.at]
NextCall ==
  run' = IF run.at < Len(run.calls) THEN [run EXCEPT !.pc = "execute", !.at = @ + 1]
         ELSE [run EXCEPT !.pc = "model", !.calls = <<>>, !.at = 1]

\* A read of the notes: one that is not shown to players is not found, and a
\* search may find the index stale.
ReadFails ==
  \/ Call.tool = "get_entity" /\ ~GetById(Listed, Call.target)
  \/ Call.tool = "search_entities" /\ SearchFails(Listed, {}, Call.target, index)

ExecuteRead ==
  /\ At("execute") /\ Definition(Call.tool).permission = "read"
  /\ IF ~Canonical(run.tools) \/ ~MayExecute(Definition(Call.tool), run.context) \/ ReadFails
     THEN Ends("error") ELSE NextCall
  /\ Idle

\* A write checks first: an entity must be shown to players, the session
\* runtime must not need recovery.
Authorized ==
  IF Definition(Call.tool).effects = {"entity_mutation"} THEN GetById(Listed, Call.target)
  ELSE ~damaged

AuthorizeWrite ==
  /\ At("execute") /\ Definition(Call.tool).permission = "write"
  /\ IF Canonical(run.tools) /\ MayExecute(Definition(Call.tool), run.context) /\ Authorized
     THEN Goto("mutate") ELSE Ends("error")
  /\ Idle

Recorded ==
  effects' = Append(effects, [req |-> run.req, tool |-> Call.tool, target |-> Call.target])

\* The repository compares revisions, the session service asks again whether a
\* session is active.
MutateEntity ==
  /\ At("mutate") /\ Definition(Call.tool).effects = {"entity_mutation"}
  /\ IF vault[Call.target].revision = Call.revision
     THEN /\ vault' = [vault EXCEPT ![Call.target].revision = @ + 1]
          /\ Recorded /\ NextCall
     ELSE Ends("error") /\ UNCHANGED <<vault, effects>>
  /\ UNCHANGED <<index, session, started, damaged, turns, asked, answers>>

Startable == Call.tool = "start_session" /\ session = 0 /\ started < MaxSessions
Continuable == Call.tool # "start_session" /\ session # 0

MutateSession ==
  /\ At("mutate") /\ Definition(Call.tool).effects = {"session_mutation"}
  /\ IF Startable \/ Continuable
     THEN /\ started' = IF Startable THEN started + 1 ELSE started
          /\ session' = IF Startable THEN started' ELSE IF Call.tool = "end_session" THEN 0 ELSE session
          /\ Recorded /\ NextCall
     ELSE Ends("error") /\ UNCHANGED <<session, started, effects>>
  /\ UNCHANGED <<vault, index, damaged, turns, asked, answers>>

RunStep ==
  \/ Preflight \/ Compose \/ SearchNotes \/ SearchIndex \/ HydrateNotes \/ Prepare
  \/ ModelAnswers \/ ModelFails \/ (\E calls \in Batches : ModelCalls(calls))
  \/ AdmitToolBatch \/ ExecuteRead \/ AuthorizeWrite \/ MutateEntity \/ MutateSession

\* The user is shown the outcome, and the run is over.
Answer ==
  /\ At("done")
  /\ answers' = [answers EXCEPT ![run.req] =
                   [kind |-> run.outcome, wrote |-> Cardinality(EffectsOf(run.req))]]
  /\ run' = NoRun
  /\ UNCHANGED <<world, asked, effects>>
=============================================================================
