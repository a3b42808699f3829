# Verification of dnd-obsidian-assistant

TLA+ models of the program in `src/src/dnd_assistant`, the TLC runs that check
them on small instances, and TLAPS proofs that hold for every value of the
constants. Paths below are relative to `src/src/dnd_assistant` unless they
start with `docs/`.

The program keeps a tabletop campaign in an Obsidian Vault: Markdown notes that
its owner edits by hand at any time, next to machine-written files (sessions,
audit log, ChangeSets, projections). Commands (`dnd ...`), a text interface and
an agent run mutate the Vault. There is no lock between processes
("No lock manager", docs/stages/06_SESSION_RUNTIME_WITHOUT_LLM.md:1271): safety rests on an
append-only audit log written around each mutation, on re-reading a file before
it is replaced, on exclusive creation, and on preflight checks that refuse to
work on an inconsistent Vault. That protocol is what is modelled.

## 1. Inventory

| Component | State | Operations | Interacts with | What is hard | What makes it correct |
|---|---|---|---|---|---|
| Vault repository (`storage/vault_repository.py`, `storage/atomic.py`) | entity notes with id and revision | create, patch, append fact | audit log before and after each write | two processes, owner edits, crash between intent, write and committed record | no operation twice, no second file for an entity, nothing overwritten, an error category tells whether a write happened |
| Audit log (`storage/audit.py`) | append-only JSONL of intent / committed records | append, read all | every mutation | a fragment after a crashed append; a record continued on a broken line | every write is announced; committed means written |
| Audit tail recovery (`storage/session_recovery/audit_tail.py`) | the last bytes of the log | inspect, repair | audit log | running while a call is in flight | only the fragment disappears |
| ChangeSet store, review, approval (`storage/changeset_store.py`, `application/changeset_store.py`, `cli/changeset.py`) | proposal, approval, apply-attempt file | save, approve, reject | preflight, validation | a proposal replaced after it was approved; torn artifacts | only approved content is applied |
| ChangeSet validation, apply, status, intent classification (`application/changeset_*.py`) | attempts; the audit log as evidence | gate, apply loop, record attempt | repository, audit log, store | partial failure, retry, two runs, crash before the record | in order, once, never repeated after doubt; records backed by the log |
| Session runtime (`storage/session_metadata.py`, `storage/session_events.py`, `application/session_runtime.py`, `cli/session.py`) | per session: metadata, raw event log | start, append event, end | audit log, world time, preflight | four-step start, read-check-append without a lock | one active session; raw log append-only, and fixed after the end |
| Session recovery (`storage/session_recovery/*`) | none of its own | inspect; clean a partial start; repair an event tail | sessions, audit log | ownership decided from evidence left by a crash | never removes what a session owns; what blocks can be recovered |
| World time (`storage/world_time.py`, `tools/world_time_*.py`) | one file with a tick and a revision | initialize, set, advance | audit log, tools | the tick of an advance comes from an earlier read than its revision check; no lookup of a reused operation id | revisions one by one; an advance adds to what was there |
| Calendar (`domain/calendar.py`) | none | ticks to dates and back, elapsed time, event queries | world time | intercalary days, years before the epoch, boundaries | agrees with counting minute by minute |
| Vault initialization (`storage/vault_initialization.py`) | directory tree and marker `campaign.yaml` | initialize, repair | audit log; everything reads the marker | two runs, crash part way, a directory lost to a sync tool | one identity; the marker comes last |
| Vault discovery (`storage/vault_discovery.py`) | none | inventory, classify, read within limits | bootstrap | many kinds of file, limits | every file is accounted for |
| Campaign State and search index (`application/campaign_state_*`, `storage/derived_state.py`, `retrieval/index*.py`) | derived artifacts, a manifest, an index | rebuild, inspect, consume, verify | every source | sources read one after another while they change; rebuilds that overlap | what is published was true at one instant; old or mixed state is never called current |
| Post-session processor (`application/post_session_*`) | per session: claims, ledger, artifacts, proposals | process, show outputs | model, ChangeSet store, Vault | crash anywhere; ledger read and appended apart; two runs of one attempt | one proposal per attempt, outcomes backed by the ledger, no secret in the recap |
| Bootstrap (`application/bootstrap_*`, `composition/bootstrap_*`, `cli/bootstrap*.py`) | proposal, evidence, approval; nothing for finalize | map, review, apply, finalize | discovery, model, ChangeSet apply, Campaign State | hand edits and a second answer of the model between the commands | no name twice, nothing lost, COMPLETE was true at one instant |
| Retrieval and resolution (`retrieval/*`) | full-text index | search, rebuild, verify, resolve | Vault | index older than the Vault | stale hits are not served |
| Tools and agent (`tools/*`, `application/dnd_agent_*`, `application/pydantic_ai_*`) | one run: context, tools, calls | run, execute tool | repository, sessions, retrieval | a model that returns anything; the Vault changing meanwhile | one write at most, and only if asked for |
| Text interface (`tui/*`) | gate, worker, screens, belief about the session | commands, results | all services | a worker that ends after its screen is gone | one exclusive operation at a time; never locked |
| Model gateway, prompts, settings, evaluation harness, wiring | no campaign state | | | | not modelled |

PROJECT.json lists the same components with their status, and the hazards of
the code, each at its line with the properties that would catch it.

## 2. Plan

Most important first; each module is written so that it can be proved about
(constants with named assumptions, one action per operation or read, no
RECURSIVE operator).

| | Modules | State of the work |
|---|---|---|
| 1 | `VaultMutation`: the audited mutation of a note | checked and proved |
| 2 | `ChangeSetApply`, which extends it; abstract: `ApplyOnce` | checked; safety and refinement proved |
| 3 | `SessionRuntime`; abstract: `SessionLifecycle` | checked; type invariant, safety and refinement proved |
| 4 | `VaultInitialization`, and `WorldTime`, which extends it; `Calendar` | checked; the two commands proved |
| 5 | `PostSession`, on the pure part `PostSessionContent` | checked, with liveness; type invariant and every safety property proved |
| 6 | `CampaignState`, and `Bootstrap`, which composes it with discovery, mapping and apply on the pure part `BootstrapContent` | checked; type invariant, `SnapshotIsReal`, `NoNameTwice`, `MappingAccountsForAll` and the order of artifacts proved |
| 7 | `AgentTools`, `Retrieval`, `Assistant`, which composes them, and `Tui` around it | checked, with liveness; `WritesAsAsked` proved |

Left: the audit tail recovery overlapping a mutation. What is checked and not proved is listed at the end of 6.

## 3. The modules

### VaultMutation

`create_entity`, `patch_entity` and `append_entity_fact`, for a set of processes.
A call is split where the code touches the disk:

| Code | Action |
|---|---|
| entry | `CallBegin` |
| `_check_audit_health`: read the log, refuse a reused id | `CheckAudit` |
| `_build_snapshot`, revision check, candidate or unused file name | `SnapshotForCreate`, `SnapshotForUpdate` |
| intent record | `AppendIntent` |
| second snapshot, or second read of the target file | `RecheckCreate`, `RecheckUpdate` |
| `atomic_write_text` up to `os.replace` | `ReplaceFile` |
| verified read-back | `ReadBack` |
| committed record | `AppendCommitted` |
| result or exception reaches the caller | `Return` |

Faults, bounded by `MaxFaults`: an append that raises or in which the process dies,
leaving the log as it was, with a fragment, or with the whole record, its line feed
included or not (`Interrupted`; an append also raises when only its fsync fails); a
failing replacement, a crash between any two steps, the owner editing or
deleting a note. `RepairAuditTail` is the recovery command, taken while no call
is in flight.

Data: a path is `<<entity, creator>>` because file names are random and unused;
a document is its revision, the operations whose contents it carries
(`marks`) and a count of the owner's edits, so two documents are equal exactly
when their hashes are. The log is a pair of counters per operation id, the
operation kinds and entities its intents name, and the state of its last line.
`wrote` and `writes` are history variables: no guard reads them.

### ChangeSetApply

Extends VaultMutation with the artifacts of a ChangeSet and the command
`dnd changeset apply`. A version of a proposal stands for its bytes and so for
its fingerprint. `Save`, `Decide`: one step each, because exclusive creation of
the artifact is the only effect and decides between two processes; their
preflight and review are read just before. `Preflight`, `Load`, `ReadAttempts`,
`Gate`, `Validate`, then per operation `BeginOperation`, the steps of the
repository call (`Performing`), `OperationApplied` or `OperationFailed`; then
`ReadHistory` and `AppendAttempt`. `CrashInCreate`, `AppendAttemptFails`,
`ApplyCrashes` and `ReplaceProposal` (the proposal file replaced by hand) are the
faults. Operation ids are `<<changeset, index>>`; the code's text form counts
from zero, the model from one.

### ApplyOnce

What the workflow promises: the operations reach the Vault in order, each once,
by one run; only a run that wrote nothing may be tried again. `ChangeSetApply`
implements it under the mapping `PhaseOf` (running while a run is in its apply
loop, closed once an operation is announced) and `writes`.

### SessionRuntime

`dnd session start`, the event commands (`dnd session note` and the other kinds
append alike), `dnd session end`, and the two recovery actions on sessions.
Several processes run one each.

| Code | Action |
|---|---|
| `_recovery_preflight` (`inspect_runtime`) | `Begin` |
| `get_active_session` in `start_session`, `record_event`, `end_session` | `LookupForStart`, `LookupActive` |
| `allocate_next_session_id` | `Allocate` |
| `end_session` parses the event log | `ValidateLog` |
| `append_event`, `close_session` read metadata and log, number the event | `Read` |
| `cleanup_partial_start`, `repair_event_tail` up to the intent | `Recover` |
| intent record | `AppendIntent` |
| second read of what the candidate was computed from | `Recheck` |
| `create_session`: session directory, raw directory, `events.jsonl` | `MakeSessionDir`, `MakeRawDir`, `MakeLog` |
| `metadata.json` of a start or an end (`atomic_write_text`) | `WriteMeta` |
| `_append_event_line` | `WriteEvent` |
| line feed or truncation in `repair_event_tail` | `WriteRepair` |
| `_execute_cleanup_plan` | `UnlinkLog`, `RemoveRawDir`, `RemoveSessionDir` |
| verified read-back | `Verify` |
| committed record | `AppendCommitted` |

Faults: `Crash` (the process dies, or a system call fails and the operation
raises: the disk keeps what was done), `CrashInAudit` and `CrashInEvent` (a
fragment stays, or the whole line without its line feed). `RepairAuditTail` is
taken while no call is in flight.

Data: a session is its number; a line of an event log is its event number and
its author, or a line that does not parse; a log says how it ends (line feed,
complete line without one, fragment). Operation ids are fresh for every call, so
the audit log is, per session and kind, the number of intents without their
committed record, the set of committed starts, and the state of its last line.
`ended` is a history variable: no guard reads it.

### SessionLifecycle

What the runtime promises its user: sessions follow one another, events are
numbered 1, 2, 3 without gaps, a completed session stays as it is.
`SessionRuntime` with one process implements it; the journal of a session is the
event numbers of the complete lines of its log.

### VaultInitialization, WorldTime and Calendar

`dnd init` and the clock share processes and audit log; `WorldTime` extends
`VaultInitialization`.

| Code | Action |
|---|---|
| inspection, read-only | `InspectVault` |
| `_ensure_directory`, once per managed directory | `EnsureDirectory` |
| intent record | `AppendInitIntent` |
| `exclusive_atomic_write_text` of the marker; the loser adopts the winner's | `PublishMarker` |
| the marker read again | `RereadMarker` |
| committed record | `AppendInitCommitted` |
| `dnd time init`, the tools `set_world_time`, `advance_world_time` | `TimeInitCommand`, `SetWorldTime`, `AdvanceWorldTime` |
| the handler of `advance` reads the clock for the new tick | `FetchTick` |
| `set_current_world_time` / `initialize_current_world_time`: read, compare | `LoadClock` |
| intent, second read, `os.replace`, read-back, committed record | `AppendClockIntent`, `RecheckClock`, `ReplaceClock`, `ReadBackClock`, `AppendClockCommitted` |

Faults: a crash before any step, with a fragment in the log if it hits an append;
an empty directory removed by a sync tool (`DirectoryLost`). `named`,
`explained`, `latest`, `checked`, `raced` and `lost` are history. `Calendar` is the
service of `domain/calendar.py` as operators on a calendar record; it has no state.

### PostSessionContent and PostSession

`PostSessionContent` holds what is computed: eligibility, the context given to the
model, the validation of an extraction, the binding of mentions to entities, the
grouping of claims into operations, the projection of the recap. `PostSession` is
the run of `dnd session process` around it.

| Code | Action |
|---|---|
| eligibility of the session, inputs, history of the ledger | `Start`, `Prepare`, `FoldHistory` |
| `claim_attempt` (exclusive creation) | `Claim` |
| `record_ledger_event`: read and parse, append under the lock, read back | `Pend`, `RecordAppend`, `RecordVerify` |
| terminal event of a failure, and its re-read | `Fail`, `Reread`, `Reload` |
| model, production, preflight, rendering | `Extract`, `Produce`, `Preflight`, `Render` |
| artifacts and proposal (exclusive creation) | `PersistArtifact`, `PersistProposal` |
| completed event, result | `Complete`, `Finish` |

Every write may fail, the append may be short, and the process may die before any
step. Meanwhile the owner edits a note without touching its revision
(`EditByHand`) and applies proposals (`ApplyProposal`).

### BootstrapContent, CampaignState and Bootstrap

`CampaignState` keeps the sources (notes, sessions, clock), the State folder and
the index. A rebuild reads world time, sessions and entities one after another,
twice (`ReadWorld`, `ReadSessions`, `ReadEntities`), and publishes each artifact
and last the manifest (`PublishText`, `PublishManifest`); inspection and the
consumer read manifest and texts apart (`ReadManifest`, `ReadTexts`) and derive
again (`Derivation`); the index is listed, replaced and verified (`ListForIndex`,
`ReplaceIndex`, `VerifyIndex`). The surroundings edit notes, advance the clock,
finish a session and damage the State folder.

`Bootstrap` adds the four commands. `Mapped` and `Ask` are discovery, batching,
the model's answers and the proposal of `dnd bootstrap map`; `Probe`, `Create`,
`Write` store proposal, evidence and approval by exclusive creation; `LoadReview`,
`Decide` are `approve` and `reject`; `LoadApply`, `Gate`, `Preflight`, `Perform`
are `apply`, one step per operation; `CheckReady`, `Recheck`, `Continue`, `Final` are
`finalize`: the model's assessment, the fingerprint taken again, both rebuilds,
both verifications, the last fingerprint. `BootstrapContent` holds discovery and
mapping as functions of the Vault.

### AgentTools, Retrieval, Assistant and Tui

`AgentTools` is the registry of `dnd ask`, the selection of tools and the policy on
a batch of calls; `Retrieval` the tiers of a search, the index with its
fingerprint, and resolution. `Assistant` is one request:

| Code | Action |
|---|---|
| recovery preflight | `Preflight` |
| profile, provider, execution context with the session mode of that moment | `Compose` |
| entities for the prompt: search, index, each note read again | `SearchNotes`, `SearchIndex`, `HydrateNotes` |
| tool selection, prompt | `Prepare` |
| model: a text, a batch of calls, an error | `ModelAnswers`, `ModelCalls`, `ModelFails` |
| policy before any execution | `AdmitToolBatch` |
| a read tool; a write tool's authorization; its storage operation | `ExecuteRead`; `AuthorizeWrite`; `MutateEntity`, `MutateSession` |
| the outcome is shown | `Answer` |

Between any two of them the owner hides or shows a note, another command starts or
ends a session, dies, or rebuilds the index. `Tui` adds `InFlightGate`, the worker
of a session or campaign operation, the status reads, the two screens and the
event loop that applies results (`DeliverWork`, `DeliverStatus`, `DeliverAnswer`,
`Converge`); `dnd ask` is the same request without them.

### Proof and MC modules

`VaultMutation_proofs`, `ChangeSetApply_proofs`, `SessionRuntime_proofs`,
`WorldTime_proofs`, `PostSession_proofs`, `Bootstrap_proofs` and `Tui_proofs` hold the
theorems; see 6. `Folding` is for the proofs alone: a fold over a sequence is a chain of
values, one step for each element. It is instantiated with a step (`Step`) and with
what a proof has it keep (`Kept`), because no prover here takes an induction
principle with an operator in it; `Keeps` is its theorem. The modules whose name
begins with `MC` give the constants for TLC.

## 4. Runs

| Run | Question | Instance |
|---|---|---|
| `vault_solo` | Can a retry, a crash or an owner edit make calls of one process at a time write an operation twice, duplicate an entity, or lose an applied operation? No. | 1 process, 2 entities (one exists), 2 operation ids, 6 requests, 4 faults |
| `vault_race` | With two processes, does the log still announce every write, does committed still mean written, and does the error category still tell whether the file was replaced? Yes. | 2 processes (symmetric), 1 fault |
| `changeset_solo` | Does apply, with retries and crashes, implement `ApplyOnce`; do attempt records and audit log never contradict each other or what was written; does the preflight of other commands stay open; without a fault, does the repository do all that validation let through? Yes. | 1 process, 2 ChangeSets, 2 contents each, up to 2 operations, 2 attempts, 3 faults |
| `changeset_race` | With two processes and a proposal replaced by hand: in order, approved content only, records backed by the log? Yes. | 2 processes (symmetric), 1 attempt, 1 fault |
| `session_solo` | With crashes, partial starts and torn logs that are cleaned up and repaired, does the runtime implement `SessionLifecycle`? Yes. | 1 process, 3 sessions, 2 events each, 3 faults |
| `session_race` | With two processes: does the next preflight report whatever they did to each other; do logs only grow; does a session keep its files? Yes. | 2 processes (symmetric), 2 sessions, 2 events, 2 faults; recovery only while nothing else runs |
| `session_ended` | Is the log of a completed session immutable? No (finding). | 2 processes, 1 session, 1 event, no fault |
| `session_cleanup` | Does a cleanup leave alone what has metadata, even when it overlaps a start? No (finding). | 2 processes, 1 session, no fault, `Overlap` |
| `clock` | With a crash or a lost directory: has a Vault one identity, does its marker come last, do calls on the clock leave what callers asked for, and do the calendar's conversions and queries agree with counting? Yes. | 2 processes (symmetric), 3 revisions, 1 fault, 3 calendars, ticks -40 to 40 |
| `post_session` | Is an attempt worked once, can a completed attempt be shown, are reports backed by the ledger, are facts written once between careful edits by hand, does the recap keep secrets, does a claimed attempt end? Yes. | 2 processes that run one attempt or two, 1 fault, 1 of 2 edits by hand, 3 answers of the model |
| `campaign` | Was everything a rebuild publishes true at one instant, and so COMPLETE? Do repeated mappings and hand edits never give two entities one name? Is everything the model was asked and said accounted for? Yes. | 10 starts; 2 processes; each path edited by hand once, the State folder damaged once |
| `assistant` | Is what a request writes asked for, at most one write, never about what players could not see, reported truly and exclusive? Is every request answered and the interface never locked? Yes. | 1 request, 13 batches a model may return, 1 session, 1 step of the owner or of another process, both front ends |

Why the bounds are enough for the question: two processes and one entity that
both touch give every pair of conflicting steps; a second entity gives creation
races; two operation ids, one used by two kinds of request, give reuse of an id.
Four faults let one call crash, its retry fail, its repair happen and the owner
edit in between. In the ChangeSets, two operations are the least for "applied
before, failed here, never tried after"; a content that creates and then patches
an entity exercises the projection of revisions; the second ChangeSet patches
the entity of the first, so that a stale revision is met in the middle.
`MaxAttempts = 2` allows a retry. Deadlock is checked in the Vault runs and
disabled in the ChangeSet runs, where a system whose ChangeSets are all applied
or refused really stops, in the runs of the processor, the campaign and the
assistant, which stop when their attempts, commands or requests are over, and in the session runs, where it stops when the
sessions and events are used up or the preflight blocks for good.

In the session runs two sessions give a start after an end and an event of the
first session while the second begins; two events give a second append onto
whatever the first left; a crash and a second fault give damage done while
another damage is open. Three events with two processes and three processes
without faults were also checked, with the same result.

In `clock` three revisions let a process hold a revision while another moves the
clock twice; two processes give every pair of conflicting steps; the calendars
have months with several intercalary days declared out of order, hours of one
and two minutes and epochs inside a year, and 81 ticks cross their year ends on
both sides of the epoch. In `post_session` two processes on one attempt give the
race for the claim, on two attempts the interleaved ledger; the answers hold the
same fact twice, a fact about nobody, an ambiguous one, a new entity and one for
a name that exists; one fault at any of the writes followed by everything the
other process may do is where the ledger and the disk can part. The owner's edit is
one of two: a document put back as it was but hidden, under its old revision, and
a fact of the answers typed in with a raised revision. Both are careful edits in the
sense of `FactsStayOnce` (section 6), and `FactsOnce` is claimed for such only: a
fact typed in under the old revision can be added again. In `campaign` the
starts are: two rebuilds racing each other and the owner; a finalize racing a
rebuild and the owner; map, approve, apply with an edit between, by two answers of
the model; an entity in a folder discovery excludes; a Vault with every kind of
file. Two damages to the State folder during one finalize can make COMPLETE a
statement about two different instants, and so can an edit that is undone within
the run (the fingerprint cannot see either): that is what the bounds exclude, and
`CompleteWasCurrent` is claimed only where neither happens. In `assistant` one
request against one
foreign step at every point shows what each check is worth, since every value a
request uses later is read in one place; the batches hold single reads and
writes, a mixed batch, five calls, repeated ids, unusable arguments, a wrong
revision and a tool that was not exposed. Nothing more happens once the last
request is answered (`Unfinished`), so that the runs end.

### What the violation runs show

- `session_ended`: `append_event` reads metadata and log again after its intent
  and then appends (`storage/session_events.py:1014`). Between the two another
  process can end the session. The event lands in the log of a completed session;
  the call notices and raises, but docs/development/project-invariants.md:126
  ("after session end it is immutable") no longer holds. The next preflight
  reports it, which is `DamageIsDetected`.
- `session_cleanup`: an unmatched `session.start` intent is taken as evidence of a
  crashed start, but a running start has one too. A start that writes its
  metadata after the cleanup's last check loses its event log
  (`storage/session_recovery/partial_start.py:98`; `storage/types.py:686` says a
  partial start has no metadata). This is why recovery in the other runs is
  taken only while nothing else runs.

A limitation that is documented and therefore no finding: a crash between the
intent and the committed record of a session operation, once the session has
metadata, blocks every later command, and no recovery action removes the intent
(`storage/session_recovery/inspection.py:305`;
docs/stages/06_SESSION_RUNTIME_WITHOUT_LLM.md:1264).

### One process or several

Two sets of properties are needed because the code promises less with two
processes. Between the second read and `os.replace` a file can change: two
processes then lose an update or create one entity twice, and an owner's edit is
overwritten. docs/stages/03_VAULT_REPOSITORY.md:301 names that window as
residual, so this is no finding: `AtMostOnce`, `UniqueEntity`, `NothingLost`,
`FailureTellsTheTruth`, `NoContradiction`, `IntentsAreDelegated` and
`AppliesOnce` are claimed for one process at a time only. The clock has the same
window, named by docs/adr/0004-current-world-time-persistence.md:74: `ClockAdvances`
is claimed until a file has changed inside it (`raced`).

## 5. Fairness

Most commands are sequential programs that a user starts and nothing retries: for
them no fairness is assumed and no liveness claimed. Two places wait for
something.

- `PostSession` (`ClaimedEnds`): weak fairness of each process's own steps. A run of
  `dnd session process` takes no lock it waits for except the one around a single
  append, and the model call has a time limit, so a run that does not die goes
  on. The disk and the process may still fail; the property then claims nothing.
- `Tui` (`RequestsAnswered`): weak fairness of the steps of a request and of a
  worker (operating-system threads that wait for no lock of the program; the
  provider's client gives up after its timeout, `models/transport.py`), and of the
  delivery of results and answers (the event loop processes its queue). Nothing is
  assumed of users, of the owner, of other processes, nor of status reads.

## 6. Proofs

Theorems hold for all constants that satisfy the named assumptions:
`RepoAssumption` and `ApplyAssumption` (the shape of requests and contents, distinct
markers, a finite set of processes), `SessionAssumption` (a finite set of
processes, distinct markers),
`ClockAssumption` (ticks and amounts are integers, an absent file is not a present
one), `PostSessionAssumption` (processes are given attempts, disturbances a number;
the states of the session are of one session; the model answers with lists; the
inputs of the recap are prepared ones), `CampaignAssumption`
(finitely many sessions, each with its fields; revisions and times are numbers; what
lies in the vault or is put there by hand is a file at a path, and an entity note has
the fields of its schema; the order of paths has every path of the vault),
`ContentAssumption` (the entity folders lie apart from `_system` and from what the
program derives; Markdown is text; the order has each path once),
`BootstrapAssumption` (scripts are sequences of commands; an absent value is no
command and no kind of artifact; an answer is what its schema lets through: lists, of
candidates of the program's own entity types and of claims with their fields; candidates
and claims, which have id fields of their own in the code, are told apart by their ids),
`AssistantAssumption` (notes are known by their
ids, the model returns sequences of calls) and `OwnerAssumption` (no owner of the
gate is its absence). TLC evaluates each of them in a passing run.

- `RepoTypeCorrect`: `TInv` = `RepoTypeOK` and `CallOK` (past the snapshot a call
  has a target and, for an update, the document it read). Without `CallOK` the
  type of a candidate document does not follow.
- `WriteAheadHolds`: `WriteAhead` is not inductive, since the counters alone do
  not say that a call about to write has an intent nobody else has used up.
  `AInv` counts, per operation id, the calls in flight between intent and
  write and between write and committed record: writes plus the former are at
  most the intents, committed records plus the latter at most the writes. Each
  step moves a process from one set to the other; `Counting` and `FewerInFlight`
  are the cardinality lemmas.
- `SoloAtMostOnce`, `SoloUniqueEntity`, `SoloNothingLost` assume `OneProcess`
  (`\A p, q \in Procs : p = q`). `SInv`: no id has two intents and a call past the
  audit check has a fresh one (`Fresh`); no entity has two files; and from the
  snapshot to the write the target is the entity's only file and, if it still
  exists, has the revision and the operations the candidate was computed from
  (`Unchallenged`).
- `CommittedHolds` is the counting of `AInv` read without the intents: committed
  records never outnumber writes. `ErrorsTrue` follows a call to its exception (`EInv`):
  whether its file was replaced follows from how far it has come, and a committed
  record it has seen is never taken back (`CommitsGrow`).
- `ChangeSetApply_proofs` first shows that every step of the workflow is a step of
  the repository, an edit from outside or leaves the repository alone
  (`RepositoryStep`), which carries the repository's theorems over
  (`WorkflowWriteAhead`, `WorkflowAtMostOnce`, `WorkflowUniqueEntity`,
  `WorkflowNothingLost`). `WInv` then ties a run to the log: operations before
  `nxt` are committed, the approval a run loaded is the one on disk, announced
  operations are approved operations; it gives `WorkflowTypeCorrect`,
  `WorkflowInOrder`, `WorkflowApprovedOnly`, `WorkflowRecordsTrue` for any number
  of processes, crashes and replaced proposals.
  With one process at a time, `FInv` adds what a run knows of the operations it
  has not reached (no intent, and no write of the one it is at until its call
  replaces the file), which gives `WorkflowFailureTrue` and `WorkflowDelegated`; `HInv`,
  that a run about to append its record still finds the history open, gives
  `WorkflowNoContradiction`. `WorkflowAppliesOnce` is the refinement of `ApplyOnce`:
  initial states map to initial states, each step to one of its steps or to a stutter.
- `SessionRuntime_proofs` covers any number of processes, sessions, events and faults,
  as long as a recovery action runs while no other call is in flight (`~Overlap`):
  `session_cleanup` shows what is lost otherwise. `Inv` is `TypeOK`, `CallsOK` (what a
  call knows where it stands; the lines an event call read are still there), `FilesOK`
  (what exists beside what, and that every log counts from one as far as it can be
  read) and `AuditOK`. `TypesCorrect` already needs all of it: that no counter of
  intents falls below zero says that a call about to commit has its own. `AuditOK`
  carries `DamageDetected`: per session the open intents are at least the calls in
  flight, and a log that is torn, or that differs from the one its session ended
  with, has an intent more than there are calls that may still commit (`Betrayed`,
  `Hopeful`). A call that finds it was overtaken raises, and its intent stays. So when
  nothing is in flight, damage means an unmatched intent, which the preflight
  reports. `LogsAppendOnly` and `SessionsKept` follow from `CallsOK`.
  `RuntimeFollowsLifecycle` is the refinement of `SessionLifecycle`, with `OneProcess` as
  well: `SoloInv` says that what a call read is what it writes to, and that sessions
  come one after the other.
- `WorldTime_proofs` covers `dnd init` and the clock together, for any number of
  processes and faults. `ClockTypeCorrect` needs `CallOK`: an advance that has not
  computed its tick yet knows its amount. `OneIdentityHolds`: what a run has read
  (`found`) or reported (`told`) is what the marker holds, because a marker is only
  ever put where there was none. `MarkerLastHolds`: directories that exist or were
  lost only grow, so a run that has passed a directory may rely on it
  (`PassedInv`). `LogExplainsHolds`: from the intent to the write nothing changes
  what the candidate is computed from (`NamedInv`); it is about what one call does with
  its own reading, and is proved without a run of its own. `ClockAdvancesHolds` is the
  argument why the early read of `advance_world_time` is safe: until a file changes
  behind a second read, revisions only grow, so a revision its caller has seen
  never comes back with another tick (`AdvanceInv`).
- `PostSession_proofs` covers any number of processes, attempts, faults, edits and any
  answers of the model. `Inv` says that the events of an attempt are one `Story`, in
  the order of the code and each kind once at most (`StoryGoesOn`), that what they
  promise is on disk (`Sealed`), that a run's next event comes after all that are
  there, even if it cannot know whether its last line was written (`RunOK`), and that
  one process works on an attempt between its claim and its end (`Exclusive`: the
  claim is an exclusive creation). It gives `WorksOnce`, `CompletedIsIntact` and
  `TellsTheTruth`.
  Its second half is about what an attempt writes. Plans, vaults and recaps are folds
  over the model's answer, so each step of a fold is shown to keep what is wanted of
  the whole (`CreatesAre`, `AppendsAre`, `ApplyKeeps`, `ToldIs`), and `Folding` does the
  induction. `RecapTellsNoSecret` holds for every extraction and every prepared
  input, also those no run has: the claims the players may not know, and the names of
  entities that are not theirs, may be replaced by anything and the recap is the
  same; `RecapIsClean` is the property the run checks. `Typing` is `TypeOK`.
  `FactsStayOnce` is the argument why applying the proposals of several attempts, in
  any order, adds no fact twice: a plan `Fits` the vault it was made from; as long as it
  fits, no document it appends to has its facts, because a document that got them
  since is at a later revision (`Onward`), and the application compares revisions. It has
  two hypotheses. `CleanVault`: no document of the start, and no text typed in by hand,
  has a line twice. `CarefulEdit`: an edit by hand that adds lines raises the revision,
  and none lowers it. The second is needed: a line typed in under the old revision can be the fact of a
  proposal that still fits, which then adds it again.
- `Bootstrap_proofs` shows `SnapshotsAreReal` for any number of processes running any
  scripts, any sessions, notes and edits. A rebuild reads its three sources one after
  another, without a lock, twice, and publishes when both derivations agree. The
  clock's revision only grows, so two equal readings mean that it stood still. Of the
  sessions only the most recent are derived, and one completed in between might have
  been selected at the instant in question although neither derivation has it:
  `SelectionBetween` shows by a least counterexample that it would still be selected
  in the second, or have been pushed out by one that is. So at the instant the first
  derivation read the entities, the clock and the sessions already said what
  both found (`RealBetween`). `RunReal` carries this from read to read; steps of others
  only add instants (`RunGrows`). The proof needs that a completed session is never
  changed; the owner's hand edits of notes are unrestricted.
  Its second part is about the artifacts. `FilesInv` says that whoever is to store
  evidence or an approval has its proposal before it, written whole, and that whoever
  writes a file is the one that created it, alone; it gives `ArtifactsComeInOrder` (a
  conjunct of `TypeOK`) and `ArtifactsStay`: no step changes a written artifact, so a
  later mapping of the same sources that comes to other operations, or a second
  decision, leaves the first as it is. Both rest on the exclusive creation and on a
  proposal having operations (`MappingIs`); a torn file stays torn.
  Its third part is about types and names. `WorkOK` says of each run what it holds at
  each step: a mapping it is to store, a decision on a stored proposal, the operations
  it has left; the type invariant (`WorkflowTypes`) follows. `NamesStayApart` is the
  argument why a proposal may be applied long after it was made. A fingerprint taken
  with complete coverage knows every name in the vault (`CoverageKnows`; a folder that
  could not be entered or a note that does not parse leaves it incomplete), and what
  a mapping creates has a name its fingerprint does not know, and no two of its creates
  have the same (`MappingIsSound`). The gate compares the stored fingerprint with one of the
  vault as it is, so from there on each name still to create is nobody's
  (`NamesOK`); an append changes no name and a create takes its own (`PerformNames`).
  Edits outside the entity folders change no name (`EditElsewhere`). The
  hypothesis `OneApplies`, at most one process in `apply` at a time, is needed, and TLC
  refutes the property without it: nothing locks the vault between the gate and the
  last write, so two proposals that both passed their gates each create the name.
  Its fourth part is about what becomes of sources and items. `NothingIsLost` is
  `MappingAccountsForAll`: each eligible file is at one place of one batch or
  skipped, and if every batch is covered, each candidate and claim of the answers
  becomes one operation or one unresolved item with a reason. For the files, the order
  of paths lists each once (`SourceOrderIs`, on `Ranks`: counting how many come before
  it gives each path a rank of its own), and each step of packing puts one at one place
  or skips it and moves no other (`PackPlaces`). For the items, each step of a plan
  makes an operation of one item or gives its reason and leaves what became of the
  others (`NextItem`); scoping ids by batch keeps the items of different answers apart
  (`MergedApart`), without which two of them would count as one.
- `Tui_proofs` covers a request from `Submit` to `Answer` and both front ends, for any
  notes, queries and batches and any steps of others. `WritesAsAskedHolds` needs two
  invariants. `RInv` says of the request in work that it is the latest and has no
  answer, that the batch being executed was admitted (so its one write is its only
  call, and `observed` keeps a second batch out), that an authorized target had been
  visible since the request began, and that a request that has written
  executes nothing more; `RunOK` is inductive only together with `EffectsOK`, by which the step
  that writes finds nothing written yet. `GInv` says that whatever is in flight in the
  text interface holds the gate, so the gate is never given to two. The theorem does
  not cover liveness: that the gate is given back is checked by TLC.

Only model-checked: `CalendarAgrees`, on a walk through a calendar;
`ValidatedApplies`, for one run of apply at a time; and `CompleteWasCurrent`, which is
claimed within the bounds of its run (see 4).
Out of the prover's reach: liveness (`ClaimedEnds`, `RequestsAnswered`), ENABLED,
RECURSIVE, and induction over data where it is not the fold of a sequence.

## 7. Abstractions and what is left out

- Contents of notes, YAML, Markdown, JSON, ids and timestamps: only what the
  checks compare (id, revision, hash equality, operation id, kind, entity).
- Path authorization, permissions and environment validation
  (`_validate_mutation_environment`): they only add StorageErrors at points
  where the model already has one.
- The failing create read-back and a vanished target file: StorageError, as in
  `ReadBack` and `RecheckUpdate`.
- `RepairAuditTail` is one step taken while no call is in flight; its own
  re-checks against a concurrent append are not modelled.
- `ReplaceProposal` covers an edit by hand between any two steps. The bootstrap
  refusal of a generic apply lies outside the model.
- Sessions: the preflight and the listing of sessions are one atomic read each;
  the first reads of metadata and log are one step, and so are the second ones
  (the window before the write covers what can happen between them); the check
  before an exclusive creation and the creation are one step. A crash at the write of a
  start or an end leaves no temporary file in the directory of the session; the code
  would refuse to clean such a directory up and leave it to the owner. World time is
  initialized. The entities an event touches are left out. A call numbers at
  most `MaxEvents` events.
- Two ends of one session can overlap: the later `metadata.json` replaces the
  earlier one. No property is claimed about the notes or end time it loses; it
  is listed as a hazard. With three processes and overlapping repairs, the truncation of one repair can
  cut an event appended after another repair; nothing is claimed there.
- Clock: the validation of a calendar profile is taken as passed; reading the clock
  changes nothing. Initialization: one entity directory stands for all, and
  symlinks and unsafe paths, which only add errors, are left out, and so is
  the refusal of an `audit` directory that is there and still empty.
- Post-session: a torn ledger line makes the ledger of its session unreadable for
  good, and the properties then say what is still claimed. Visibility is taken
  when the context is prepared: a note hidden during the model call is still in
  the recap. Two attempts that both propose an entity of one name give it two
  ids; no property says otherwise. Applying a proposal is one step, because
  `ChangeSetApply` has it operation by operation; the errors of production end an
  attempt as those of its preflight do; the recap has the parts that can tell a
  secret, and of its request only the fields they depend on.
- Campaign and bootstrap: artifacts are immutable once whole, so their reads are
  merged into one step; attempt records, the recovery preflight and the campaign
  id are left out here; the read-only `bootstrap review` and the diagnostics per
  reference change nothing. Discovery is one atomic read without its bound on the
  total text, and so are the reads of one readiness check. Each start has one applying process: two appliers that
  both passed readiness can each create a name. Two publications at once can leave
  a corrupt mix until the next rebuild; only what a rebuild returns and what
  readers then call current is claimed. A crash between proposal and evidence,
  followed by another answer of the model, leaves a proposal that is never
  completed (`composition/bootstrap.py:211`), and a partially applied proposal is
  not resumed; both stop the workflow and harm nothing, so no property is about
  them. Finalize looks at the active session and the clock only when it begins.
  A change taken back before the last fingerprint was read is none to
  `CompleteWasCurrent`, as it is none to the code.
- Assistant: the storage behind a tool is one step here and many in
  `VaultMutation` and `SessionRuntime`; reload and rebuild of the campaign are one
  operation; a model's text, prompts and memory are left out. A batch is valid when all of it parses and fits the schemas; the
  code compares a call with its schema when it executes it, so reads before a
  misfit are made, but no write is. An empty batch counts as observed, and is an
  error either way. `shown` records the entities of the prompt, not the results of
  read tools nor the campaign memory: that those tell no secret is not claimed.
  The later listings of a search, its check of freshness and its query are one
  step. The session mode that
  admits a tool is the one read at composition, which the session service checks
  again. A note hidden between a write's authorization and its commit is still
  changed: the conjunct `SecretsKept` of `WritesAsAsked` says it was visible since the request began. A late status
  read can leave the interface with a stale belief about the active session, which
  the service corrects at the next command. A failing read leaves the belief
  unchanged. An unexpected error of a worker, which the code raises again on the
  event loop, is an unsuccessful result here.
- Not modelled, each with its reason in PROJECT.json: the model gateway, prompts and
  provider settings (external, without state of the campaign), the evaluation
  harness with the second agent runtime only it uses, and composition and
  presentation.
