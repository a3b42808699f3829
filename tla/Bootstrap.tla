------------------------------- MODULE Bootstrap -------------------------------
(***************************************************************************)
(* The commands that bring an existing vault into use: `dnd bootstrap map` *)
(* has the model propose a ChangeSet from the notes, `approve`, `reject`   *)
(* and `apply` take it through review, and `finalize` closes the workflow: *)
(* it maps once more, and when nothing is left to do rebuilds Campaign     *)
(* State and the index, checks both and the sources again, and only then   *)
(* says COMPLETE.  Each process runs a script of these commands.           *)
(*                                                                         *)
(* Artifacts lie in files created exclusively and written once: a crash    *)
(* between the two leaves a torn one.  A proposal is named by its input,   *)
(* not by what the model answered.  The repository's own steps under an    *)
(* operation are those of VaultMutation, the attempt records those of      *)
(* ChangeSetApply, the recovery preflight that of SessionRuntime.          *)
(***************************************************************************)
EXTENDS CampaignState

CONSTANTS
  Answers    \* what the model may answer to a batch

Commands ==
  {"map", "approve", "reject", "apply", "finalize", "rebuild", "inspect", "index"}

Kinds == {"proposal", "evidence", "approval"}

\* An answer has what its schema lets through.  Candidates and claims have id
\* fields of their own, so their ids are told apart.
ASSUME BootstrapAssumption ==
  /\ NoValue \notin Commands \union Kinds
  /\ \A x, y \in Answers :
       /\ IsAnswer(x)
       /\ \A k \in ToSet(x.candidates), c \in ToSet(y.claims) : k.id # c.id
  /\ \A s \in Scenarios :
       DOMAIN s.todo = Procs /\ \A p \in Procs : s.todo[p] \in Seq(Commands)

VARIABLES
  files,     \* <<kind, key>> -> content, kinds "proposal", "evidence", "approval"
  done,      \* <<key, index>> of the operations the audit log holds as committed
  flow,      \* process -> what its command remembers
  whole      \* history: process -> the vault it assessed was seen with fresh
             \* Campaign State and index at one instant of its finalize

vars == <<sources, derived, run, todo, left, edited, past, files, done, flow, whole>>

own == <<files, done>>
outside == <<left, edited>>

NoFlow ==
  [stage |-> NoValue, report |-> NoValue, key |-> NoValue, mapped |-> NoValue,
   kind |-> NoValue, decision |-> NoValue, ack |-> FALSE, next |-> 1, failed |-> {}]

Note(p, r) == flow' = [flow EXCEPT ![p] = Over(r, @)]
Finish(p, outcome) == Change(p, [pc |-> "returned", outcome |-> outcome])

-----------------------------------------------------------------------------
(* A command starts, and ends. *)

FirstStep(call) ==
  CASE call = "rebuild" -> RebuildStart
    [] call = "inspect" -> InspectStart
    [] call = "index"   -> IndexStart
    [] call \in {"map", "finalize"} -> [pc |-> "discover"]
    [] call \in {"approve", "reject", "apply"} -> [pc |-> "load"]

Begin(p) ==
  /\ At(p, "idle") /\ todo[p] # <<>>
  /\ Change(p, Over([call |-> Head(todo[p])], FirstStep(Head(todo[p]))))
  /\ todo' = [todo EXCEPT ![p] = Tail(@)]
  /\ UNCHANGED <<sources, derived, own, flow>>

Leave(p) ==
  /\ At(p, "returned") /\ flow[p].stage = NoValue
  /\ run' = [run EXCEPT ![p] = Idle]
  /\ flow' = [flow EXCEPT ![p] = NoFlow]
  /\ UNCHANGED <<sources, derived, own, todo>>

-----------------------------------------------------------------------------
(* Mapping the vault. *)

Discovered(p) ==
  /\ At(p, "discover")
  /\ Note(p, [report |-> Discover(vault)])
  /\ Goto(p, IF run[p].call = "map" THEN "ask" ELSE "ready")
  /\ UNCHANGED <<sources, derived, own, todo>>

\* finalize needs a readable repository, a clock and no session under way.
CheckReady(p) ==
  /\ At(p, "ready")
  /\ CASE ListOutcome(vault) # "ok" -> Finish(p, "canonical_not_ready")
       [] ListOutcome(vault) = "ok" /\ clock = NoValue -> Finish(p, "world_time_uninitialized")
       [] OTHER ->
            IF \E s \in DOMAIN sessions : sessions[s].status = "active"
            THEN Finish(p, "active_session_present")
            ELSE Goto(p, "ask")
  /\ UNCHANGED <<sources, derived, own, todo, flow>>

Mapped(p, m) ==
  /\ Note(p, [mapped |-> m, key |-> Fingerprint(flow[p].report), report |-> NoValue,
              kind |-> IF m.ops = <<>> THEN NoValue ELSE "proposal"])
  /\ CASE m.status = "failed" -> Finish(p, "mapping_failed")
       [] m.status = "proposal" -> Goto(p, "probe")
       [] m.status = "no_changes" -> IF run[p].call = "map" THEN Finish(p, "no_changes")
                                     ELSE Goto(p, "recheck")

Ask(p) ==
  /\ At(p, "ask")
  /\ \E answers \in [DOMAIN Prepare(flow[p].report).batches -> Answers] :
       Mapped(p, Mapping(flow[p].report, answers))
  /\ UNCHANGED <<sources, derived, own, todo>>

-----------------------------------------------------------------------------
(* Storing an artifact, and what follows. *)

\* A file that was created and not written; a proposal always has operations.
Torn == <<>>

File(p) == <<flow[p].kind, flow[p].key>>

Content(p) ==
  CASE flow[p].kind = "proposal" -> flow[p].mapped.ops
    [] flow[p].kind = "evidence" -> [ops |-> flow[p].mapped.ops, input |-> flow[p].key,
                                     unresolved |-> flow[p].mapped.unresolved]
    [] flow[p].kind = "approval" -> [decision |-> flow[p].decision]

\* The same artifact is there.  An approval never is: each carries its time.
AlreadyStored(p) ==
  File(p) \in DOMAIN files /\ flow[p].kind # "approval" /\ files[File(p)] = Content(p)

AfterStored(p) ==
  CASE flow[p].kind = "proposal" -> Note(p, [kind |-> "evidence"]) /\ Goto(p, "probe")
    [] flow[p].kind = "evidence" ->
         /\ IF run[p].call = "map" THEN Finish(p, "proposal") ELSE Goto(p, "recheck")
         /\ UNCHANGED flow
    [] flow[p].kind = "approval" -> Finish(p, flow[p].decision) /\ UNCHANGED flow

AfterFailure(p) ==
  CASE flow[p].kind = "proposal" -> Finish(p, "persistence_failed") /\ UNCHANGED flow
    [] flow[p].kind = "evidence" ->
         IF run[p].call = "map" THEN Finish(p, "partial") /\ UNCHANGED flow
         ELSE Note(p, [failed |-> {"evidence"}]) /\ Goto(p, "recheck")
    [] flow[p].kind = "approval" -> Finish(p, "not_recorded") /\ UNCHANGED flow

Probe(p) ==
  /\ At(p, "probe")
  /\ CASE File(p) \notin DOMAIN files -> Goto(p, "create") /\ UNCHANGED flow
       [] AlreadyStored(p) -> AfterStored(p)
       [] OTHER -> AfterFailure(p)
  /\ UNCHANGED <<sources, derived, own, todo>>

Create(p) ==
  /\ At(p, "create")
  /\ IF File(p) \in DOMAIN files
     THEN AfterFailure(p) /\ UNCHANGED files
     ELSE files' = Over([f \in {File(p)} |-> Torn], files) /\ Goto(p, "write") /\ UNCHANGED flow
  /\ UNCHANGED <<sources, derived, done, todo>>

Write(p) ==
  /\ At(p, "write")
  /\ files' = [files EXCEPT ![File(p)] = Content(p)]
  /\ AfterStored(p)
  /\ UNCHANGED <<sources, derived, done, todo>>

Storing(p) == Probe(p) \/ Create(p) \/ Write(p)

-----------------------------------------------------------------------------
(* Review and apply. *)

Readable(kind, key) ==
  <<kind, key>> \in DOMAIN files /\ files[<<kind, key>>] # Torn

ProposalKeys == {f[2] : f \in {g \in DOMAIN files : g[1] = "proposal"}}
Ops(key) == files[<<"proposal", key>>]

\* validate_bootstrap_evidence: it is of this very proposal, and every operation
\* goes back to sources the proposal was made from.
EvidenceFits(key) ==
  LET evidence == files[<<"evidence", key>>] IN
  /\ evidence.ops = Ops(key)
  /\ \A o \in ToSet(evidence.ops) : o.refs # {} /\ o.refs \subseteq DOMAIN evidence.input

\* The gate both commands share: evidence of this proposal, for the sources as
\* they are, complete coverage, a consistent projection, acknowledged leftovers.
StaleReady(key, report, ack) ==     \* mutant: sources may have changed since mapping
  /\ Readable("evidence", key) /\ EvidenceFits(key)
  /\ CoverageComplete(report)
  /\ Valid(Ops(key), Revisions(report))
  /\ files[<<"evidence", key>>].unresolved # {} => ack
Ready(key, report, ack) ==
  /\ Readable("evidence", key) /\ EvidenceFits(key)
  /\ files[<<"evidence", key>>].input = Fingerprint(report)
  /\ CoverageComplete(report)
  /\ Valid(Ops(key), Revisions(report))
  /\ files[<<"evidence", key>>].unresolved # {} => ack

Decide(p, key, decision) ==
  /\ Note(p, [key |-> key, kind |-> "approval", decision |-> decision])
  /\ Goto(p, "probe")

LoadUnread(p) ==     \* mutant: a proposal is reviewed without being read
  /\ At(p, "load") /\ run[p].call \in {"approve", "reject"}
  /\ \E key \in ProposalKeys, ack \in BOOLEAN :
       IF run[p].call = "approve" => Ready(key, Discover(vault), ack)
       THEN Decide(p, key, IF run[p].call = "approve" THEN "approved" ELSE "rejected")
       ELSE Finish(p, "not_ready") /\ UNCHANGED flow
  /\ UNCHANGED <<sources, derived, own, todo>>
LoadReview(p) ==
  /\ At(p, "load") /\ run[p].call \in {"approve", "reject"}
  /\ \E key \in ProposalKeys, ack \in BOOLEAN :
       IF /\ Readable("proposal", key)
          /\ run[p].call = "approve" => Ready(key, Discover(vault), ack)
       THEN Decide(p, key, IF run[p].call = "approve" THEN "approved" ELSE "rejected")
       ELSE Finish(p, "not_ready") /\ UNCHANGED flow
  /\ UNCHANGED <<sources, derived, own, todo>>

LoadApply(p) ==
  /\ At(p, "load") /\ run[p].call = "apply"
  /\ \E key \in ProposalKeys, ack \in BOOLEAN :
       IF Readable("proposal", key)
       THEN /\ Note(p, [key |-> key, ack |-> ack, report |-> Discover(vault)])
            /\ Goto(p, "gate")
       ELSE Finish(p, "not_ready") /\ UNCHANGED flow
  /\ UNCHANGED <<sources, derived, own, todo>>

NothingToLoad(p) ==
  /\ At(p, "load") /\ ProposalKeys = {}
  /\ Finish(p, "not_found")
  /\ UNCHANGED <<sources, derived, own, todo, flow>>

StrictlyValid(key) ==
  /\ ListOutcome(vault) = "ok"
  /\ Valid(Ops(key), [id \in DOMAIN Listed(vault) |-> Listed(vault)[id].rev])

Approved(key) ==
  Readable("approval", key) /\ files[<<"approval", key>>].decision = "approved"

Gate(p) ==
  /\ At(p, "gate")
  /\ LET key == flow[p].key IN
     IF /\ Ready(key, flow[p].report, flow[p].ack)
        /\ StrictlyValid(key) /\ Approved(key)
        /\ \A i \in DOMAIN Ops(key) : <<key, i>> \notin done
     THEN Goto(p, "preflight")
     ELSE Finish(p, "not_ready")
  /\ Note(p, [report |-> NoValue])
  /\ UNCHANGED <<sources, derived, own, todo>>

Preflight(p) ==
  /\ At(p, "preflight")
  /\ IF StrictlyValid(flow[p].key) THEN Goto(p, "perform") ELSE Finish(p, "failed")
  /\ UNCHANGED <<sources, derived, own, todo, flow>>

Possible(o) ==
  /\ ListOutcome(vault) = "ok"
  /\ IF o.op = "create"
     THEN o.id \notin DOMAIN Listed(vault) /\ NewPath(o) \notin DOMAIN vault
     ELSE o.id \in DOMAIN Listed(vault) /\ Listed(vault)[o.id].rev = o.expected

Effect(o) ==
  IF o.op = "create" THEN Over([path \in {NewPath(o)} |-> NewFile(o)], vault)
  ELSE LET path == CHOOSE q \in Stored(vault) : vault[q].note.id = o.id IN
       [vault EXCEPT ![path].note.facts = Append(@, o.fact), ![path].note.rev = @ + 1]

Perform(p) ==
  /\ At(p, "perform")
  /\ LET key == flow[p].key
         i   == flow[p].next
     IN IF Possible(Ops(key)[i])
        THEN /\ vault' = Effect(Ops(key)[i])
             /\ done' = done \union {<<key, i>>}
             /\ Note(p, [next |-> i + 1])
             /\ IF i = Len(Ops(key)) THEN Finish(p, "applied") ELSE Goto(p, "perform")
        ELSE Finish(p, "failed") /\ UNCHANGED <<vault, done, flow>>
  /\ UNCHANGED <<clock, sessions, derived, files, todo>>

Reviewing(p) ==
  LoadReview(p) \/ LoadApply(p) \/ NothingToLoad(p) \/ Gate(p) \/ Preflight(p) \/ Perform(p)

-----------------------------------------------------------------------------
(* Closing the workflow. *)

Unchanged(p) == SourcesOf(vault) = flow[p].key

\* classify_bootstrap_closure: why finalize goes no further, or "closed".
Closure(p, ack) ==
  IF Uncovered \in flow[p].mapped.unresolved THEN "coverage_incomplete"
  ELSE IF flow[p].failed # {} THEN "evidence_failed"
  ELSE IF flow[p].mapped.ops # <<>> THEN "pending_changeset"
  ELSE IF flow[p].mapped.unresolved # {} /\ ~ack THEN "unresolved_not_acknowledged"
  ELSE "closed"

Recheck(p) ==
  /\ At(p, "recheck")
  /\ \E ack \in BOOLEAN :
       CASE ~Unchanged(p) -> Finish(p, "source_changed") /\ UNCHANGED flow
         [] Unchanged(p) /\ Closure(p, ack) # "closed" ->
              Finish(p, Closure(p, ack)) /\ UNCHANGED flow
         [] OTHER -> Change(p, RebuildStart) /\ Note(p, [stage |-> "rebuild"])
  /\ UNCHANGED <<sources, derived, own, todo>>

\* The stage after the present one: what depends on a failed one is left out.
Follows(p, failed) ==
  CASE flow[p].stage = "rebuild" -> "index"
    [] flow[p].stage = "index" /\ "rebuild" \notin failed -> "inspect"
    [] flow[p].stage \in {"index", "inspect"} /\ "index" \notin failed
         /\ (flow[p].stage = "index" => "rebuild" \in failed) -> "verify"
    [] OTHER -> NoValue

Succeeds(outcome) == outcome \in {"published", "already_current", "indexed", "current", "fresh"}

Continue(p) ==
  /\ At(p, "returned") /\ flow[p].stage # NoValue
  /\ LET failed == flow[p].failed \union
                     (IF Succeeds(run[p].outcome) THEN {} ELSE {flow[p].stage})
         next   == Follows(p, failed)
     IN IF flow[p].stage = "rebuild" /\ run[p].outcome = "source_changed"
        THEN Finish(p, "source_changed") /\ Note(p, [stage |-> NoValue])
        ELSE /\ Note(p, [stage |-> next, failed |-> failed])
             /\ CASE next = "index" -> Change(p, IndexStart)
                  [] next = "inspect" -> Change(p, InspectStart)
                  [] next = "verify" -> Change(p, VerifyStart)
                  [] OTHER -> Goto(p, "final")
  /\ UNCHANGED <<sources, derived, own, todo>>

FinalUnchecked(p) ==     \* mutant: the sources are not looked at again at the end
  /\ At(p, "final")
  /\ Finish(p, IF flow[p].failed # {} THEN "not_current" ELSE "complete")
  /\ UNCHANGED <<sources, derived, own, todo, flow>>
Final(p) ==
  /\ At(p, "final")
  /\ Finish(p, IF ~Unchanged(p) THEN "source_changed"
               ELSE IF flow[p].failed # {} THEN "not_current" ELSE "complete")
  /\ UNCHANGED <<sources, derived, own, todo, flow>>

-----------------------------------------------------------------------------
(* The whole system. *)

Crash(p) ==
  /\ Die(p)
  /\ flow' = [flow EXCEPT ![p] = NoFlow]
  /\ UNCHANGED <<own, todo>>

Command(p) ==
  \/ Begin(p) \/ Leave(p)
  \/ Discovered(p) \/ CheckReady(p) \/ Ask(p) \/ Storing(p)
  \/ Reviewing(p)
  \/ Recheck(p) \/ Continue(p) \/ Final(p)
  \/ (Derivation(p) \/ Indexing(p)) /\ UNCHANGED <<own, flow, todo>>

ObserveWhole ==
  whole' = [p \in Procs |->
    /\ run'[p].call = "finalize" /\ flow'[p].key # NoValue
    /\ \/ whole[p]
       \/ IndexFresh' /\ StateCurrent' /\ SourcesOf(vault') = flow'[p].key]

Init ==
  /\ InitCampaign
  /\ files = <<>> /\ done = {}
  /\ flow = [p \in Procs |-> NoFlow]
  /\ whole = [p \in Procs |-> FALSE]

Next ==
  /\ \/ \E p \in Procs : Command(p) /\ UNCHANGED outside
     \/ \E p \in Procs : Crash(p)
     \/ Surroundings /\ UNCHANGED <<own, flow, todo>>
  /\ Observe /\ ObserveWhole

Spec == Init /\ [][Next]_vars

-----------------------------------------------------------------------------
(* What the workflow promises. *)

\* The artifacts come in order: evidence and approvals lie only beside a proposal
\* that was written whole.
ArtifactsInOrder ==
  \A f \in DOMAIN files :
    f[1] \in Kinds /\ (f[1] # "proposal" => Readable("proposal", f[2]))

\* Files and runs have their shape, every operation performed is one of a
\* proposal written whole, and only finalize has stages.
TypeOK ==
  /\ ArtifactsInOrder
  /\ \A d \in done : Readable("proposal", d[1]) /\ d[2] \in DOMAIN Ops(d[1])
  /\ left \in Nat /\ DOMAIN state = ToSet(Artifacts) \union {"manifest"}
  /\ \A p \in Procs :
       /\ DOMAIN run[p] = DOMAIN Idle /\ DOMAIN flow[p] = DOMAIN NoFlow
       /\ flow[p].stage # NoValue => run[p].call = "finalize"
       /\ whole[p] \in BOOLEAN

\* COMPLETE is the truth: at one instant of the run the vault was the one the
\* model assessed while Campaign State and the index were both fresh, although
\* they are rebuilt and verified one after another as the owner keeps writing.
\* An edit that is taken back within the run is none to the fingerprints.
CompleteWasCurrent ==
  \A p \in Procs :
    At(p, "returned") /\ run[p].call = "finalize" /\ run[p].outcome = "complete" => whole[p]

\* However often the vault is mapped, by whichever answers, and whatever is
\* approved: of the entities an applied proposal created, none has the name of
\* another entity of the vault, as long as one process at a time applies and
\* the owner edits no entity by hand.
NoNameTwice ==
  (\A path \in edited : ~UnderEntityFolder(path)) =>
    \A d \in {e \in done : Ops(e[1])[e[2]].op = "create"} :
      Cardinality({path \in Stored(vault) :
                     /\ IsEntity(vault[path].note)
                     /\ Normalized(vault[path].note.name) = Normalized(Ops(d[1])[d[2]].name)}) = 1

\* Nothing is lost on the way to the model and back: every eligible file is in
\* exactly one place of one batch or reported as skipped, and every candidate
\* and claim of every answer becomes one operation or one unresolved item.
MappingAccountsForAll ==
  Init =>
    LET report   == Discover(vault)
        prepared == Prepare(report)
        batches  == prepared.batches
        Places(path) == {q \in (DOMAIN batches) \X (1..Cardinality(DOMAIN vault)) :
                           q[2] \in DOMAIN batches[q[1]] /\ batches[q[1]][q[2]] = path}
    IN /\ \A path \in Eligible(vault) :
            Cardinality(Places(path)) = IF path \in DOMAIN prepared.skipped THEN 0 ELSE 1
       /\ \A answers \in [DOMAIN batches -> Answers] :
            LET m == Mapping(report, answers)
                x == Merge(answers)
                ItemsOf(id) == {i \in DOMAIN m.ops : m.ops[i].of = id}
                ReasonsOf(id) == {u \in m.unresolved : u[1] = "item" /\ u[3] = id}
            IN m.status # "failed" /\ Uncovered \notin m.unresolved =>
                 \A r \in ToSet(x.candidates) \union ToSet(x.claims) :
                   Cardinality(ItemsOf(r.id)) + Cardinality(ReasonsOf(r.id)) = 1
===============================================================================
