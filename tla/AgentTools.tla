----------------------------- MODULE AgentTools ------------------------------
(* The tools an assistant's model may call: their definitions, the registry *)
(* of one `dnd ask` run, the selection that exposes some of them, and the   *)
(* policy that admits a batch of calls.                                     *)
EXTENDS Naturals, Sequences, FiniteSets

MaxToolCalls == 4      \* MAX_TOOL_CALLS_PER_RUN
MaxModelRequests == 2  \* MAX_MODEL_REQUESTS_PER_RUN

Modes == {"no_active_session", "active_session"}

Tool(name, permission, effects, modes) ==
  [name |-> name, permission |-> permission, effects |-> effects, modes |-> modes]

\* What a definition must say of itself to be constructed.
WellDefined(tool) ==
  /\ tool.permission \in {"read", "write"}
  /\ tool.permission = "read" <=> tool.effects = {}
  /\ tool.modes # {} /\ tool.modes \subseteq Modes

EntityReads ==
  {Tool(name, "read", {}, Modes) : name \in {"search_entities", "get_entity"}}

EntityMutations ==
  {Tool(name, "write", {"entity_mutation"}, Modes) :
     name \in {"patch_entity", "append_entity_fact"}}

SessionReads ==
  {Tool(name, "read", {}, Modes) :
     name \in {"get_active_session", "get_session", "list_sessions", "list_session_events"}}

SessionMutations ==
  {Tool("start_session", "write", {"session_mutation"}, {"no_active_session"})}
  \union {Tool(name, "write", {"session_mutation"}, {"active_session"}) :
            name \in {"record_event", "record_note", "end_session"}}

\* The registry of `dnd ask`: the tools of the world time are not in it.
Registry == EntityReads \union EntityMutations \union SessionReads \union SessionMutations

Registered(name) == \E t \in Registry : t.name = name
Definition(name) == CHOOSE t \in Registry : t.name = name

\* A second tool of one name is refused at registration.
ASSUME RegistryAssumption ==
  /\ \A t \in Registry : WellDefined(t)
  /\ \A t, u \in Registry : t.name = u.name => t = u

-----------------------------------------------------------------------------
(* An execution context is [granted, mode, audit].  Selection and execution *)
(* ask the same three questions of it.                                      *)

PermissionEligible(tool, context) ==
  context.granted = "write" \/ tool.permission = "read"
ModeEligible(tool, context) == context.mode \in tool.modes
AuditEligible(tool, context) == tool.permission = "write" => context.audit

SelectTools(catalog, context) ==
  {t \in catalog : /\ PermissionEligible(t, context)
                   /\ ModeEligible(t, context)
                   /\ AuditEligible(t, context)}

MayExecute(tool, context) ==
  /\ PermissionEligible(tool, context)
  /\ ModeEligible(tool, context)
  /\ AuditEligible(tool, context)

\* A snapshot is what was selected, each definition the registered one.
Canonical(tools) == \A t \in tools : Registered(t.name) /\ Definition(t.name) = t

-----------------------------------------------------------------------------
(* A call is [tool, id, valid]: the name, the id the model gave it, and     *)
(* whether its arguments parse and match the tool's input schema.           *)

NoDuplicateIds(calls) ==
  \A i, j \in DOMAIN calls : calls[i].id = calls[j].id => i = j

Resolved(calls, tools) ==
  \A i \in DOMAIN calls : \E t \in tools : t.name = calls[i].tool

WritesAlone(calls) ==
  Len(calls) > 1 => \A i \in DOMAIN calls : Definition(calls[i].tool).permission = "read"

AdmitsAgain(calls, tools, observed) ==
  /\ calls # <<>>
  /\ Len(calls) <= MaxToolCalls
  /\ NoDuplicateIds(calls)
  /\ Resolved(calls, tools)
  /\ WritesAlone(calls)

\* One batch in a run, of at most MaxToolCalls calls, each of an exposed tool,
\* and a call that writes is the only one of its batch.
Admits(calls, tools, observed) ==
  /\ calls # <<>>
  /\ ~observed
  /\ Len(calls) <= MaxToolCalls
  /\ NoDuplicateIds(calls)
  /\ Resolved(calls, tools)
  /\ WritesAlone(calls)
=============================================================================
