------------------------------ MODULE PostSession ------------------------------
(***************************************************************************)
(* Processing a finished session: each process in Procs is one run of      *)
(* `dnd session process`, an attempt that extracts claims with a model,    *)
(* proposes a ChangeSet, renders a summary and a recap, and records every  *)
(* step in the session's append-only ledger.  Meanwhile the owner edits    *)
(* notes by hand and applies proposals, processes die, and the disk fails. *)
(*                                                                         *)
(* A ledger event is [id, kind, body]; its id <<process, kind>> is fresh   *)
(* because a process records each kind once.  The lines of the file are    *)
(* kept by attempt: nothing reads the order of two attempts' lines.        *)
(***************************************************************************)
EXTENDS PostSessionContent

CONSTANTS
  Procs, Attempts,
  AttemptsOf,      \* process -> the attempt ids it may be given
  NoValue,         \* an absent file, event or field
  Partial,         \* a file a dead process left half written
  Documents,       \* the vault at the start
  SessionStates,   \* metadata the session may have, or get by hand
  Extractions,     \* answers of the extraction model
  HandEdits,       \* pairs <<id, document>> the owner may write by hand
  RecapInputs,     \* pairs <<answer, prepared input>> the recap is compared for
  MaxDisturbances  \* disk faults, deaths and edits by hand, together

IsList(s) == Len(s) \in Nat /\ DOMAIN s = 1..Len(s)

\* What RecapInputs may hold.
RecapInput(x, prepared) ==
  /\ "claims" \in DOMAIN x /\ IsList(x.claims)
  /\ \A c \in ToSet(x.claims) : {"id", "kind", "hint", "text", "mentions"} \subseteq DOMAIN c
  /\ "entities" \in DOMAIN prepared
  /\ \A id \in DOMAIN prepared.entities :
       {"type", "name", "vis", "body"} \subseteq DOMAIN prepared.entities[id]

\* SessionStates are states of one session's file; answers hold lists.
ASSUME PostSessionAssumption ==
  /\ AttemptsOf \in [Procs -> SUBSET Attempts]
  /\ MaxDisturbances \in Nat
  /\ \A s, t \in SessionStates : s.id = t.id
  /\ \A x \in Extractions : IsList(x.claims) /\ IsList(x.candidates)
  /\ \A e \in RecapInputs : RecapInput(e[1], e[2])

Slots == {"summary", "recap", "workflow"}
Kinds == {"started", "summary", "recap", "workflow", "proposal", "completed", "failed"}

VARIABLES
  docs,        \* id -> document
  session,     \* the session metadata file
  ledger,      \* attempt -> its lines in the ledger, in order
  tail,        \* "clean", "torn" (ends in a fragment), "malformed" (glued line)
  claims,      \* attempts whose directory exists
  artifacts,   \* attempt -> slot -> content, Partial or NoValue
  proposals,   \* attempt -> operations of its ChangeSet or NoValue
  applied,     \* attempts whose proposal was applied
  run,         \* process -> its run
  faults, edits,
  asked        \* history: attempt -> extraction calls made for it

vars == <<docs, session, ledger, tail, claims, artifacts, proposals, applied, run,
          faults, edits, asked>>
vault == <<docs, session, applied, edits>>
files == <<claims, artifacts, proposals>>

-----------------------------------------------------------------------------
(* The ledger. *)

Readable == tail = "clean"

EventsOf(a) == ledger[a]
Terminals == {"completed", "failed", "superseded"}

Conflicting(es) ==
  \/ es[1].kind # "started"
  \/ \E i \in 2..Len(es) : es[i].kind = "started"
  \/ \E i, j \in DOMAIN es :
       /\ i < j
       /\ \/ es[i].kind \in Terminals
          \/ es[i].kind = es[j].kind

StateOf(a) ==
  LET es == EventsOf(a) IN
  CASE es = <<>> -> "not_started"
    [] es # <<>> /\ Conflicting(es) -> "conflict"
    [] OTHER -> IF es[Len(es)].kind \in Terminals THEN es[Len(es)].kind ELSE "started"

Recorded(a, kind) == \E e \in ToSet(EventsOf(a)) : e.kind = kind
EventOf(a, kind) == CHOOSE e \in ToSet(EventsOf(a)) : e.kind = kind

\* What a completed attempt must still be able to show.
ArtifactIntact(a, slot) ==
  Recorded(a, slot) /\ artifacts[a][slot] = EventOf(a, slot).body.content

WorkflowConsistent(a) ==
  LET w == artifacts[a]["workflow"] IN
  /\ w.attempt = a
  /\ w.input = EventOf(a, "started").body.input
  /\ w.produced = EventOf(a, "completed").body.produced

ProposalIntact(a) ==
  IF EventOf(a, "completed").body.produced
  THEN /\ Recorded(a, "proposal")
       /\ proposals[a] = EventOf(a, "proposal").body.ops
       /\ artifacts[a]["workflow"].ops = proposals[a]
  ELSE ~Recorded(a, "proposal") /\ proposals[a] = NoValue

TerminalIntegrity(a) ==
  /\ \A slot \in Slots : ArtifactIntact(a, slot)
  /\ WorkflowConsistent(a)
  /\ ProposalIntact(a)

\* `session outputs` shows the attempts, or refuses: one contradiction or one
\* unverified completed attempt hides them all.
OutputsShown ==
  \A a \in Attempts :
    /\ StateOf(a) # "conflict"
    /\ StateOf(a) = "completed" => TerminalIntegrity(a)

-----------------------------------------------------------------------------
(* The run of a process. *)

Idle ==
  [pc |-> "idle", attempt |-> NoValue, seen |-> NoValue, prepared |-> NoValue,
   accepted |-> NoValue, ops |-> <<>>, pending |-> NoValue, report |-> NoValue]

TypeOK ==
  /\ DOMAIN docs \subseteq DOMAIN Documents
       \union {Allocate(session.id, k.type, k.name) :
                 k \in UNION {ToSet(x.candidates) : x \in Extractions}}
  /\ session \in SessionStates
  /\ DOMAIN ledger = Attempts
  /\ \A a \in Attempts : \A e \in ToSet(ledger[a]) : e.id[1] \in Procs /\ e.kind \in Kinds
  /\ tail \in {"clean", "torn", "malformed"}
  /\ claims \subseteq Attempts /\ applied \subseteq Attempts
  /\ DOMAIN artifacts = Attempts /\ \A a \in Attempts : DOMAIN artifacts[a] = Slots
  /\ DOMAIN proposals = Attempts
  /\ \A p \in Procs : DOMAIN run[p] = DOMAIN Idle
  /\ faults \in Nat /\ edits \in Nat /\ faults + edits <= MaxDisturbances
  /\ asked \in [Attempts -> Nat]

Init ==
  /\ docs = Documents
  /\ session \in SessionStates
  /\ ledger = [a \in Attempts |-> <<>>] /\ tail = "clean"
  /\ claims = {} /\ applied = {}
  /\ artifacts = [a \in Attempts |-> [s \in Slots |-> NoValue]]
  /\ proposals = [a \in Attempts |-> NoValue]
  /\ run = [p \in Procs |-> Idle]
  /\ faults = 0 /\ edits = 0
  /\ asked = [a \in Attempts |-> 0]

\* One fault of the disk, or a death.
Fault == faults + edits < MaxDisturbances /\ faults' = faults + 1

Goto(p, pc) == run' = [run EXCEPT ![p].pc = pc]

\* The run ends with a result; its working state is forgotten.
Report(p, status, reason) ==
  run' = [run EXCEPT ![p] = [Idle EXCEPT !.pc = "done", !.attempt = run[p].attempt,
                                        !.report = [status |-> status, reason |-> reason]]]

\* record_ledger_event(kind, body): the ledger is read and parsed, then the event
\* goes through append and verify.
Pend(p, kind, body) ==
  run' = [run EXCEPT ![p].pc = "append",
                     ![p].pending = [id |-> <<p, kind>>, kind |-> kind, body |-> body]]

\* record_failure(phase): the run ends with a recorded failure, or raises.
Fail(p, phase) ==
  IF Readable
  THEN Pend(p, "failed", [phase |-> phase])
  ELSE Report(p, "error", "recording_failed")

ForgottenFailure(p, kind) ==     \* mutant: a failure that was not recorded is reported as recorded
  CASE kind = "started" -> Report(p, "interrupted", "attempt_start_uncertain")
    [] kind = "completed" -> Goto(p, "uncertain")
    [] OTHER -> Report(p, "failed", "recorded")
Unrecorded(p, kind) ==
  CASE kind = "started" -> Report(p, "interrupted", "attempt_start_uncertain")
    [] kind = "completed" -> Goto(p, "uncertain")
    [] kind = "failed" -> Report(p, "error", "recording_failed")
    [] OTHER -> Fail(p, "persistence")

Record(p, kind, body) == IF Readable THEN Pend(p, kind, body) ELSE Unrecorded(p, kind)

Complete(p) == Record(p, "completed", [produced |-> run[p].ops # <<>>])

Unchanged == UNCHANGED <<vault, ledger, tail, files, asked>>

-----------------------------------------------------------------------------
(* Before the claim: eligibility, preparation, the attempt's history. *)

Eligible(s) == s.status = "completed" /\ s.finished /\ s.ordered

Start(p, a) ==
  /\ run[p].pc = "idle"
  /\ IF Eligible(session)
     THEN run' = [run EXCEPT ![p].pc = "prepare", ![p].attempt = a, ![p].seen = session]
     ELSE run' = [run EXCEPT ![p].pc = "done", ![p].attempt = a,
                             ![p].report = [status |-> "ineligible", reason |-> "session"]]
  /\ UNCHANGED faults /\ Unchanged

StaleEligibility(p) ==
  \/ session.rev # run[p].seen.rev
  \/ session.status # "completed"
  \/ FirstOccurrences(session.touched) # FirstOccurrences(run[p].seen.touched)

Prepare(p) ==
  /\ run[p].pc = "prepare"
  /\ IF \/ StaleEligibility(p)
        \/ ~(ToSet(session.touched) \subseteq DOMAIN docs)
        \/ TooLarge(docs, FirstOccurrences(session.touched))
     THEN Report(p, "failed", "context")
     ELSE run' = [run EXCEPT ![p].pc = "fold", ![p].seen = NoValue,
                             ![p].prepared = PreparedInput(session, docs)]
  /\ UNCHANGED faults /\ Unchanged

SameInput(p) == EventOf(run[p].attempt, "started").body.input = run[p].prepared

FoldHistory(p) ==
  /\ run[p].pc = "fold"
  /\ LET a == run[p].attempt
         state == StateOf(a)
     IN CASE ~Readable -> Report(p, "failed", "ledger_unreadable")
          [] Readable /\ state = "conflict" -> Report(p, "failed", "ledger_conflict")
          [] Readable /\ state \in {"completed", "failed"} /\ ~SameInput(p) ->
               Report(p, "failed", "fingerprint_mismatch")
          [] Readable /\ state = "completed" /\ SameInput(p) ->
               IF TerminalIntegrity(a)
               THEN Report(p, "already_terminal", "completed")
               ELSE Report(p, "failed", "terminal_evidence")
          [] Readable /\ state = "failed" /\ SameInput(p) -> Report(p, "failed", "recorded")
          [] Readable /\ state \in {"superseded", "started"} ->
               Report(p, "interrupted", state)
          [] OTHER -> Goto(p, "claim")
  /\ UNCHANGED faults /\ Unchanged

-----------------------------------------------------------------------------
(* The claim and the record of every step. *)

LenientClaim(p) ==     \* mutant: an existing attempt directory is accepted
  /\ run[p].pc = "claim"
  /\ claims' = claims \union {run[p].attempt}
  /\ Record(p, "started", [input |-> run[p].prepared])
  /\ UNCHANGED <<vault, ledger, tail, artifacts, proposals, faults, asked>>
Claim(p) ==
  /\ run[p].pc = "claim"
  /\ \/ /\ IF run[p].attempt \in claims
           THEN Report(p, "interrupted", "attempt_claim_exists") /\ UNCHANGED claims
           ELSE /\ claims' = claims \union {run[p].attempt}
                /\ Record(p, "started", [input |-> run[p].prepared])
        /\ UNCHANGED faults
     \/ Fault /\ Report(p, "failed", "claim_failed") /\ UNCHANGED claims  \* mkdir fails
  /\ UNCHANGED <<vault, ledger, tail, artifacts, proposals, asked>>

\* What follows a recorded event.
AfterRecord(p) ==
  CASE run[p].pending.kind = "started" -> Goto(p, "reload")
    [] run[p].pending.kind = "summary" -> Goto(p, "recap")
    [] run[p].pending.kind = "recap" -> Goto(p, "workflow")
    [] run[p].pending.kind = "workflow" ->
         IF run[p].ops = <<>> THEN Complete(p) ELSE Goto(p, "propose")
    [] run[p].pending.kind = "proposal" -> Complete(p)
    [] run[p].pending.kind = "completed" -> Goto(p, "finish")
    [] run[p].pending.kind = "failed" -> Report(p, "failed", "recorded")

AfterRecordError(p) == Unrecorded(p, run[p].pending.kind)

\* A line written to a ledger that ends in a fragment becomes part of it.
Write(a, e) ==
  IF tail = "clean"
  THEN ledger' = [ledger EXCEPT ![a] = Append(@, e)] /\ UNCHANGED tail
  ELSE tail' = "malformed" /\ UNCHANGED ledger

Tear == tail' = (IF tail = "clean" THEN "torn" ELSE "malformed") /\ UNCHANGED ledger

RecordAppend(p) ==
  /\ run[p].pc = "append"
  /\ \/ Write(run[p].attempt, run[p].pending) /\ Goto(p, "verify") /\ UNCHANGED faults
     \/ Fault /\ AfterRecordError(p) /\ UNCHANGED <<ledger, tail>>   \* open or write fails
     \/ Fault /\ AfterRecordError(p) /\ Tear                         \* short write
     \/ Fault /\ AfterRecordError(p) /\ Write(run[p].attempt, run[p].pending)        \* fsync fails
  /\ UNCHANGED <<vault, files, asked>>

RecordVerify(p) ==
  /\ run[p].pc = "verify"
  /\ \/ /\ UNCHANGED faults
        /\ IF Readable /\ Contains(EventsOf(run[p].attempt), run[p].pending)
           THEN AfterRecord(p) ELSE AfterRecordError(p)
     \/ Fault /\ AfterRecordError(p)                                 \* the read fails
  /\ Unchanged

\* The terminal event's append was uncertain: look for it once more.
Reread(p) ==
  /\ run[p].pc = "uncertain"
  /\ \/ /\ UNCHANGED faults
        /\ IF Readable /\ Contains(EventsOf(run[p].attempt), run[p].pending)
           THEN Goto(p, "finish")
           ELSE Report(p, "failed", "terminal_append_uncertain")
     \/ Fault /\ Report(p, "failed", "terminal_append_uncertain")
  /\ Unchanged

Reload(p) ==
  /\ run[p].pc = "reload"
  /\ LET a == run[p].attempt IN
     CASE ~Readable \/ StateOf(a) = "conflict" ->
            Report(p, "interrupted", "attempt_start_uncertain")
       [] Readable /\ StateOf(a) = "started"
            /\ EventOf(a, "started").id = run[p].pending.id -> Goto(p, "extract")
       [] OTHER -> Report(p, "interrupted", "attempt_claim_race")
  /\ UNCHANGED faults /\ Unchanged

-----------------------------------------------------------------------------
(* The work. *)

SilentModelError(p) ==     \* mutant: a model error ends the run without a record
  Report(p, "failed", "extraction")
ModelError(p) == Fail(p, "extraction")

Extract(p) ==
  /\ run[p].pc = "extract"
  /\ asked' = [asked EXCEPT ![run[p].attempt] = @ + 1]
  /\ \/ \E x \in Extractions :
          IF ValidExtraction(x, run[p].prepared)
          THEN run' = [run EXCEPT ![p].pc = "produce", ![p].accepted = x]
          ELSE Fail(p, "extraction")
     \/ ModelError(p)
  /\ UNCHANGED <<vault, ledger, tail, files, faults>>

Produce(p) ==
  /\ run[p].pc = "produce"
  /\ run' = [run EXCEPT ![p].pc = "preflight",
                        ![p].ops = Plan(docs, run[p].accepted, run[p].prepared)]
  /\ UNCHANGED faults /\ Unchanged

Render(p) == Goto(p, "summary") \/ Fail(p, "rendering")

\* The preflight reads the repository again; then the texts are rendered.
Preflight(p) ==
  /\ run[p].pc = "preflight"
  /\ IF PreflightOk(docs, run[p].ops) THEN Render(p) ELSE Fail(p, "validation")
  /\ UNCHANGED faults /\ Unchanged

\* A rendered text is known by what its request told the model.
Content(p, slot) ==
  CASE slot = "summary" -> SummaryProjection(run[p].accepted, run[p].prepared)
    [] slot = "recap" -> RecapProjection(run[p].accepted, run[p].prepared)
    [] slot = "workflow" ->
         [attempt |-> run[p].attempt, input |-> run[p].prepared,
          produced |-> run[p].ops # <<>>, ops |-> run[p].ops]

SetArtifact(p, slot, content) == artifacts' = [artifacts EXCEPT ![run[p].attempt][slot] = content]

\* persist_artifact creates the file, or finds the same text there.
PersistArtifact(p, slot) ==
  /\ run[p].pc = slot
  /\ LET now == artifacts[run[p].attempt][slot] IN
     \/ /\ IF now \in {NoValue, Content(p, slot)}
           THEN /\ SetArtifact(p, slot, Content(p, slot))
                /\ Record(p, slot, [content |-> Content(p, slot)])
           ELSE Fail(p, "persistence") /\ UNCHANGED artifacts
        /\ UNCHANGED faults
     \/ /\ Fault /\ now = NoValue                                   \* the write fails
        /\ \E left \in {NoValue, Partial} : SetArtifact(p, slot, left)
        /\ Fail(p, "persistence")
  /\ UNCHANGED <<vault, ledger, tail, claims, proposals, asked>>

CarryOnWithoutProposal(p) ==     \* mutant: a failed proposal write is passed over
  Complete(p)
ProposalError(p) == Fail(p, "persistence")

PersistProposal(p) ==
  /\ run[p].pc = "propose"
  /\ LET a == run[p].attempt IN
     \/ /\ IF proposals[a] \in {NoValue, run[p].ops}
           THEN /\ proposals' = [proposals EXCEPT ![a] = run[p].ops]
                /\ Record(p, "proposal", [ops |-> run[p].ops])
           ELSE ProposalError(p) /\ UNCHANGED proposals
        /\ UNCHANGED faults
     \/ /\ Fault
        /\ \E left \in {proposals[a], run[p].ops} : proposals' = [proposals EXCEPT ![a] = left]
        /\ ProposalError(p)
  /\ UNCHANGED <<vault, ledger, tail, claims, artifacts, asked>>

Finish(p) ==
  /\ run[p].pc = "finish"
  /\ IF Readable /\ StateOf(run[p].attempt) # "conflict"
     THEN Report(p, "completed", "completed")
     ELSE Report(p, "interrupted", "terminal_reload_failed")
  /\ UNCHANGED faults /\ Unchanged

-----------------------------------------------------------------------------
(* Around the run. *)

\* A process dies; a file it was writing may stay half written.
Crash(p) ==
  /\ run[p].pc \notin {"idle", "done"}
  /\ Fault
  /\ run' = [run EXCEPT ![p] = [Idle EXCEPT !.pc = "done", !.attempt = run[p].attempt]]
  /\ \/ UNCHANGED <<ledger, tail, artifacts>>
     \/ run[p].pc = "append" /\ Tear /\ UNCHANGED artifacts
     \/ /\ run[p].pc \in Slots /\ artifacts[run[p].attempt][run[p].pc] = NoValue
        /\ SetArtifact(p, run[p].pc, Partial)
        /\ UNCHANGED <<ledger, tail>>
  /\ UNCHANGED <<vault, claims, proposals, asked>>

\* The owner rewrites a note, or the session's metadata, in an editor.
EditByHand ==
  /\ faults + edits < MaxDisturbances /\ edits' = edits + 1
  /\ \/ \E e \in HandEdits : docs' = [docs EXCEPT ![e[1]] = e[2]] /\ UNCHANGED session
     \/ \E s \in SessionStates \ {session} : session' = s /\ UNCHANGED docs
  /\ UNCHANGED <<ledger, tail, files, applied, run, faults, asked>>

\* `dnd changeset apply` of an approved proposal.
ApplyProposal(a) ==
  /\ proposals[a] # NoValue /\ a \notin applied
  /\ docs' = ApplyAll(docs, proposals[a])
  /\ applied' = applied \union {a}
  /\ UNCHANGED <<session, ledger, tail, files, run, faults, edits, asked>>

Step(p) ==
  \/ Prepare(p) \/ FoldHistory(p) \/ Claim(p)
  \/ RecordAppend(p) \/ RecordVerify(p) \/ Reread(p) \/ Reload(p)
  \/ Extract(p) \/ Produce(p) \/ Preflight(p)
  \/ \E slot \in Slots : PersistArtifact(p, slot)
  \/ PersistProposal(p) \/ Finish(p)

Next ==
  \/ \E p \in Procs : Step(p) \/ Crash(p) \/ \E a \in AttemptsOf[p] : Start(p, a)
  \/ EditByHand
  \/ \E a \in Attempts : ApplyProposal(a)

\* A process that was started runs on until it returns or dies.
Spec == Init /\ [][Next]_vars /\ \A p \in Procs : WF_vars(Step(p))

-----------------------------------------------------------------------------
(* Properties. *)

\* However many processes run the same attempt, the model is asked once for
\* it and the ledger never tells two stories of it (claim_attempt, fold).
WorkedOnce ==
  \A a \in Attempts : asked[a] <= 1 /\ StateOf(a) # "conflict"

\* As long as the ledger can be read its outputs can be shown: every artifact
\* and proposal the completed attempts' events promise is on disk, whatever
\* failed on the way (verify_terminal_integrity, session outputs).
CompletedVerifies == Readable => OutputsShown

\* Applying the proposals of all attempts, in any order, writes no fact twice
\* (_build_appends, expected revisions), as long as hand edits that add lines
\* raise the revision and none takes it back: a line typed in under the old
\* revision can be the fact of a proposal that still fits.
FactsOnce ==
  \A id \in DOMAIN docs : Len(docs[id].body) = Cardinality(ToSet(docs[id].body))

Secret(c, prepared) ==
  \/ c.hint # "player"
  \/ c.mentions = <<>>
  \/ \E m \in ToSet(c.mentions) :
       ~Trusted(m, prepared) \/ prepared.entities[m.candidate].vis # "player"

\* The same input with every secret replaced: the text of claims about
\* anything hidden, and the names of hidden entities.
Redacted(x, prepared) ==
  [x EXCEPT !.claims =
     [i \in DOMAIN x.claims |->
        IF Secret(x.claims[i], prepared) THEN [x.claims[i] EXCEPT !.text = "?"] ELSE x.claims[i]]]

Anonymous(prepared) ==
  [prepared EXCEPT !.entities =
     [id \in DOMAIN prepared.entities |->
        IF prepared.entities[id].vis = "player" THEN prepared.entities[id]
        ELSE [prepared.entities[id] EXCEPT !.name = "?", !.body = <<"?">>]]]

\* The recap for the players is the same whatever the secrets are: no claim
\* about a hidden or unknown entity, and no name of one, reaches its request
\* (project_recap).
HidesSecrets(x, prepared) ==
  RecapProjection(x, prepared) = RecapProjection(Redacted(x, prepared), Anonymous(prepared))

RecapHidesSecrets == Init => \A e \in RecapInputs : HidesSecrets(e[1], e[2])

\* A process tells the user only what the ledger says: an outcome it reports
\* as recorded is the attempt's terminal event.
ReportsTrue ==
  \A p \in Procs :
    LET r == run[p].report IN
    r # NoValue =>
      /\ r.status \in {"completed", "already_terminal"} => StateOf(run[p].attempt) = "completed"
      /\ r = [status |-> "failed", reason |-> "recorded"] => StateOf(run[p].attempt) = "failed"

\* An attempt once claimed gets a terminal event, however the model, the
\* plan, the preflight or the rendering turn out, unless the disk failed or
\* a process died.
ClaimedEnds ==
  claims # {} ~> \/ \A a \in claims : StateOf(a) \in {"completed", "failed"}
                 \/ faults > 0
===============================================================================
