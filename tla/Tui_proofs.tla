------------------------------ MODULE Tui_proofs ------------------------------
(***************************************************************************)
(* WritesAsAsked for any notes, queries, batches a model may return, number *)
(* of requests, sessions and steps of others, and both front ends.         *)
(***************************************************************************)
EXTENDS Tui, FiniteSetTheorems, TLAPS

-----------------------------------------------------------------------------
(* Types, as far as the argument needs them.                               *)
IsRun(r) ==
  r = [req |-> r.req, pc |-> r.pc, hits |-> r.hits, tools |-> r.tools, context |-> r.context,
       calls |-> r.calls, at |-> r.at, observed |-> r.observed, sent |-> r.sent,
       eligible |-> r.eligible, shown |-> r.shown, opened |-> r.opened, outcome |-> r.outcome]

Effects == [req : Nat, tool : STRING, target : Notes \union Queries]
Written(r) == \E k \in DOMAIN effects : effects[k].req = r
OfEntity(tool) == Definition(tool).effects = {"entity_mutation"}

(* A request being worked on: it is the latest one and has no answer; it    *)
(* may write only if it was asked to; a call about to be executed is the    *)
(* only one of its batch if it writes; and what was written ended the only  *)
(* batch there is.                                                          *)
RunOK(r) ==
  /\ IsRun(r)
  /\ r.calls \in Seq(ToolCalls) /\ r.at \in Nat \ {0}
  /\ r.req \in Nat /\ r.req = Len(asked) /\ r.req \in Requests /\ answers[r.req] = NoAnswer
  /\ r.context.granted = "write" => asked[r.req].write /\ AllowWrite
  /\ r.pc \in {"execute", "mutate"} =>
       r.at <= Len(r.calls) /\ WritesAlone(r.calls) /\ r.observed = TRUE
  /\ r.pc = "mutate" =>
       /\ r.context.granted = "write"
       /\ Definition(r.calls[r.at].tool).permission = "write"
       /\ OfEntity(r.calls[r.at].tool) => r.calls[r.at].target \in r.opened
  /\ Written(r.req) => r.observed = TRUE /\ r.pc \in {"model", "admit", "done"}
  /\ Visible \subseteq r.opened /\ r.shown \subseteq r.opened
  /\ \A k \in DOMAIN effects :
       effects[k].req = r.req /\ OfEntity(effects[k].tool) => effects[k].target \in r.opened

(* What the log of effects and the answers say.                             *)
EffectsOK ==
  /\ \A j, k \in DOMAIN effects : effects[j].req = effects[k].req => j = k
  /\ \A k \in DOMAIN effects :
       /\ effects[k].req \in DOMAIN asked
       /\ Wrote(effects[k]) /\ asked[effects[k].req].write /\ AllowWrite
AnswersOK ==
  \A r \in Requests : Answered(r) =>
    r <= Len(asked) /\ answers[r].wrote = Cardinality(EffectsOf(r))

TInv ==
  /\ vault \in [Notes -> [visible : BOOLEAN, revision : Nat]]
  /\ asked \in Seq([text : Queries, write : BOOLEAN])
  /\ effects \in Seq(Effects)
  /\ DOMAIN answers = Requests

RInv == TInv /\ EffectsOK /\ AnswersOK /\ (run # NoRun => RunOK(run))

LEMMA CallType ==
  ASSUME RunOK(run), run.pc \in {"execute", "mutate"}
  PROVE  Call \in ToolCalls
BY DEF RunOK, Call

(* What is recorded of a tool's write.                                     *)
LEMMA RecordedIs ==
  ASSUME TInv, RunOK(run), At("mutate"), Recorded
  PROVE  /\ effects' \in Seq(Effects) /\ Len(effects') = Len(effects) + 1
         /\ \A k \in 1..Len(effects) : effects'[k] = effects[k]
         /\ effects'[Len(effects) + 1] = [req |-> run.req, tool |-> Call.tool, target |-> Call.target]
         /\ DOMAIN effects = 1..Len(effects) /\ DOMAIN effects' = 1..(Len(effects) + 1)
         /\ Len(effects) \in Nat
<1> DEFINE e == [req |-> run.req, tool |-> Call.tool, target |-> Call.target]
<1>1. e \in Effects
  BY CallType DEF RunOK, At, Effects, ToolCalls
<1>2. effects \in Seq(Effects) /\ effects' = Append(effects, e)
  BY DEF TInv, Recorded
<1> HIDE DEF e
<1>3. /\ effects' \in Seq(Effects) /\ Len(effects') = Len(effects) + 1
      /\ \A k \in 1..Len(effects) : effects'[k] = effects[k]
      /\ effects'[Len(effects) + 1] = e
      /\ DOMAIN effects = 1..Len(effects) /\ DOMAIN effects' = 1..(Len(effects) + 1)
      /\ Len(effects) \in Nat
  BY <1>1, <1>2
<1> QED BY <1>3 DEF e

LEMMA VisibleStays ==
  ASSUME TInv, NEW t, vault' = [vault EXCEPT ![t].revision = @ + 1]
  PROVE  Visible' = Visible /\ vault' \in [Notes -> [visible : BOOLEAN, revision : Nat]]
<1>1. CASE t \in Notes
  BY <1>1, SMTT(30) DEF TInv, Visible
<1>2. CASE t \notin Notes
  <2>1. vault' = vault
    BY <1>2 DEF TInv
  <2> QED BY <2>1 DEF TInv, Visible
<1> QED BY <1>1, <1>2

LEMMA FoundIsVisible ==
  ASSUME TInv, AssistantAssumption, NEW t, GetById(Listed, t)
  PROVE  t \in Visible
<1>1. PICK i \in Notes :
        LET n == [NoteOf(i) EXCEPT !.visible = vault[i].visible, !.revision = vault[i].revision]
        IN n.id = t /\ n.visible
  BY DEF GetById, Listed
<1>2. {"id", "visible", "revision"} \subseteq DOMAIN NoteOf(i) /\ NoteOf(i).id = i
  BY DEF AssistantAssumption
<1> DEFINE n == [NoteOf(i) EXCEPT !.visible = vault[i].visible, !.revision = vault[i].revision]
<1>3. n.id = i
  BY <1>2
<1>4. n.visible = vault[i].visible
  BY <1>2
<1>5. vault[i].visible
  BY <1>1, <1>4
<1> QED BY <1>1, <1>3, <1>5 DEF Visible

-----------------------------------------------------------------------------
(* The steps of a request that change nothing but the request.             *)
LEMMA RunOnly ==
  ASSUME RInv, UNCHANGED <<vault, asked, answers, effects>>, RunOK(run')
  PROVE  RInv'
<1>1. TInv' /\ EffectsOK' /\ AnswersOK'
  BY DEF RInv, TInv, EffectsOK, AnswersOK, Answered, EffectsOf, Wrote
<1>2. RunOK(run)'
  BY DEF RunOK, Written, Visible
<1> QED BY <1>1, <1>2 DEF RInv

LEMMA Before ==
  ASSUME RunOK(run), Preflight \/ Compose \/ SearchNotes \/ SearchIndex \/ HydrateNotes \/ Prepare
  PROVE  RunOK(run')
<1>1. CASE Preflight
  BY <1>1, ZenonT(60) DEF Preflight, At, Goto, Ends, RunOK, IsRun
<1>2. CASE Compose
  <2>1. CASE Ends("error")
    BY <1>2, <2>1 DEF Compose, At, Ends, RunOK, IsRun
  <2>2. CASE ~Ends("error")
    <3>1. run.pc = "compose" /\ (Request.write => AllowWrite)
      BY <1>2, <2>2 DEF Compose, At
    <3>2. PICK g, m, w : /\ run' = [run EXCEPT !.pc = "search",
                               !.context = [granted |-> g, mode |-> m, audit |-> w]]
                        /\ g = IF Request.write THEN "write" ELSE "read"
      BY <1>2, <2>2 DEF Compose
    <3>3. IsRun(run)
      BY DEF RunOK
    <3>4. /\ IsRun(run') /\ run'.pc = "search" /\ run'.context.granted = g
          /\ run'.req = run.req /\ run'.calls = run.calls /\ run'.at = run.at
          /\ run'.observed = run.observed /\ run'.shown = run.shown /\ run'.opened = run.opened
      BY <3>2, <3>3 DEF IsRun
    <3>5. g = "write" => asked[run.req].write /\ AllowWrite
      BY <3>1, <3>2 DEF Request
    <3> QED BY <3>1, <3>4, <3>5 DEF RunOK
  <2> QED BY <2>1, <2>2
<1>3. CASE SearchNotes
  <2>1. /\ run.pc = "search"
        /\ \/ \E e : run' = [run EXCEPT !.pc = "index", !.eligible = e]
           \/ \E h : run' = [run EXCEPT !.pc = "hydrate", !.hits = h]
    BY <1>3 DEF SearchNotes, At
  <2> QED BY <2>1 DEF RunOK, IsRun
<1>4. CASE SearchIndex
  <2>1. /\ run.pc = "index"
        /\ \/ \E h : run' = [run EXCEPT !.pc = "hydrate", !.eligible = {}, !.hits = h]
           \/ Ends("error")
    BY <1>4 DEF SearchIndex, At
  <2> QED BY <2>1 DEF RunOK, IsRun, Ends
<1>5. CASE HydrateNotes
  <2>1. /\ run.pc = "hydrate"
        /\ \/ run' = [run EXCEPT !.pc = "prepare"]
           \/ \E h, n : run' = [run EXCEPT !.hits = h, !.shown = @ \union (n \intersect Visible)]
    BY <1>5 DEF HydrateNotes, At
  <2> QED BY <2>1 DEF RunOK, IsRun
<1>6. CASE Prepare
  <2>1. /\ run.pc = "prepare"
        /\ \/ \E t : run' = [run EXCEPT !.pc = "model", !.tools = t]
           \/ Ends("error")
    BY <1>6 DEF Prepare, At
  <2> QED BY <2>1 DEF RunOK, IsRun, Ends
<1> QED BY <1>1, <1>2, <1>3, <1>4, <1>5, <1>6

LEMMA Model ==
  ASSUME AssistantAssumption, RunOK(run),
         ModelAnswers \/ ModelFails \/ (\E calls \in Batches : ModelCalls(calls))
  PROVE  RunOK(run')
<1>1. CASE ModelAnswers \/ ModelFails
  BY <1>1, ZenonT(60) DEF ModelAnswers, ModelFails, Asking, At, Ends, RunOK, IsRun
<1>2. ASSUME NEW calls \in Batches, ModelCalls(calls)
      PROVE  RunOK(run')
  <2>1. calls \in Seq(ToolCalls)
    BY DEF AssistantAssumption
  <2> QED BY <1>2, <2>1 DEF ModelCalls, Asking, At, RunOK, IsRun
<1> QED BY <1>1, <1>2

LEMMA Admitted ==
  ASSUME RunOK(run), AdmitToolBatch
  PROVE  RunOK(run')
<1>1. CASE run' = [run EXCEPT !.pc = "execute", !.at = 1, !.observed = TRUE]
  <2>1. run.pc = "admit" /\ Admits(run.calls, run.tools, run.observed)
    BY <1>1 DEF AdmitToolBatch, At, RunOK, IsRun
  <2>2. run.calls # <<>> /\ ~run.observed /\ WritesAlone(run.calls)
    BY <2>1 DEF Admits
  <2>3. ~Written(run.req)
    BY <2>2 DEF RunOK
  <2>4. 1 <= Len(run.calls)
    BY <2>2 DEF RunOK
  <2>5. IsRun(run)
    BY DEF RunOK
  <2>6. /\ IsRun(run') /\ run'.pc = "execute" /\ run'.at = 1 /\ run'.observed = TRUE
        /\ run'.req = run.req /\ run'.calls = run.calls /\ run'.context = run.context
        /\ run'.shown = run.shown /\ run'.opened = run.opened
    BY <1>1, <2>5 DEF IsRun
  <2> QED BY <2>2, <2>3, <2>4, <2>6 DEF RunOK
<1>2. CASE run' = [run EXCEPT !.pc = "done", !.outcome = "error", !.observed = TRUE]
  BY <1>2, ZenonT(60) DEF AdmitToolBatch, At, RunOK, IsRun
<1> QED BY <1>1, <1>2 DEF AdmitToolBatch

LEMMA Executed ==
  ASSUME TInv, AssistantAssumption, RunOK(run), ExecuteRead \/ AuthorizeWrite
  PROVE  RunOK(run')
<1>1. run.pc = "execute"
  BY DEF ExecuteRead, AuthorizeWrite, At
<1>2. CASE Ends("error")
  BY <1>1, <1>2 DEF Ends, RunOK, IsRun
<1>3. CASE NextCall
  <2>1. CASE run' = [run EXCEPT !.pc = "execute", !.at = @ + 1] /\ run.at < Len(run.calls)
    <3>1. IsRun(run) /\ run.at + 1 <= Len(run.calls) /\ run.at + 1 \in Nat \ {0}
      BY <2>1 DEF RunOK
    <3>2. /\ IsRun(run') /\ run'.pc = "execute" /\ run'.at = run.at + 1 /\ run'.observed = run.observed
          /\ run'.req = run.req /\ run'.calls = run.calls /\ run'.context = run.context
          /\ run'.shown = run.shown /\ run'.opened = run.opened
      BY <2>1, <3>1 DEF IsRun
    <3> QED BY <1>1, <3>1, <3>2 DEF RunOK
  <2>2. CASE run' = [run EXCEPT !.pc = "model", !.calls = <<>>, !.at = 1]
    <3>1. IsRun(run) /\ ~Written(run.req)
      BY <1>1 DEF RunOK
    <3>2. /\ IsRun(run') /\ run'.pc = "model" /\ run'.at = 1 /\ run'.observed = run.observed
          /\ run'.req = run.req /\ run'.calls = <<>> /\ run'.context = run.context
          /\ run'.shown = run.shown /\ run'.opened = run.opened
      BY <2>2, <3>1 DEF IsRun
    <3>3. <<>> \in Seq(ToolCalls) /\ 1 \in Nat \ {0}
      OBVIOUS
    <3> QED BY <3>1, <3>2, <3>3 DEF RunOK
  <2> QED BY <1>3, <2>1, <2>2 DEF NextCall
<1>4. CASE AuthorizeWrite /\ ~Ends("error")
  <2>1. /\ run' = [run EXCEPT !.pc = "mutate"]
        /\ Definition(Call.tool).permission = "write"
        /\ PermissionEligible(Definition(Call.tool), run.context) /\ Authorized
    BY <1>4 DEF AuthorizeWrite, Goto, MayExecute
  <2>2. run.context.granted = "write"
    BY <2>1 DEF PermissionEligible
  <2>3. OfEntity(Call.tool) => Call.target \in run.opened
    BY <2>1, FoundIsVisible DEF Authorized, OfEntity, RunOK
  <2> QED BY <1>1, <2>1, <2>2, <2>3 DEF RunOK, IsRun, Call
<1> QED BY <1>2, <1>3, <1>4 DEF ExecuteRead

-----------------------------------------------------------------------------
(* The step that writes: its request had written nothing, and writes        *)
(* nothing after it.                                                        *)
LEMMA AfterWrite ==
  ASSUME RInv, At("mutate"), Recorded, NextCall, UNCHANGED <<asked, answers>>, Visible' = Visible,
         vault' \in [Notes -> [visible : BOOLEAN, revision : Nat]]
  PROVE  RInv'
<1>0. TInv /\ RunOK(run) /\ EffectsOK /\ AnswersOK
  BY DEF RInv, At
<1> DEFINE n == Len(effects) + 1
<1>1. /\ effects' \in Seq(Effects) /\ n \in Nat /\ DOMAIN effects = 1..(n - 1) /\ DOMAIN effects' = 1..n
      /\ \A k \in DOMAIN effects : effects'[k] = effects[k]
      /\ effects'[n] = [req |-> run.req, tool |-> Call.tool, target |-> Call.target]
  BY <1>0, RecordedIs
<1> HIDE DEF n
<1>2. /\ run.pc = "mutate" /\ run.context.granted = "write" /\ run.observed = TRUE
      /\ Definition(Call.tool).permission = "write" /\ WritesAlone(run.calls) /\ ~Written(run.req)
      /\ OfEntity(Call.tool) => Call.target \in run.opened
      /\ run.at <= Len(run.calls) /\ run.at \in Nat \ {0} /\ run.calls \in Seq(ToolCalls)
  BY <1>0 DEF At, RunOK, Call
<1>3. run' = [run EXCEPT !.pc = "model", !.calls = <<>>, !.at = 1]
  <2>1. ~(run.at < Len(run.calls))
    <3>1. SUFFICES ASSUME run.at < Len(run.calls) PROVE FALSE
      OBVIOUS
    <3>2. Definition(run.calls[run.at].tool).permission = "read"
      BY <1>2, <3>1 DEF WritesAlone
    <3> QED BY <1>2, <3>2 DEF Call
  <2> QED BY <2>1 DEF NextCall
<1>4. /\ IsRun(run') /\ run'.pc = "model" /\ run'.at = 1 /\ run'.observed = TRUE
      /\ run'.req = run.req /\ run'.calls = <<>> /\ run'.context = run.context
      /\ run'.shown = run.shown /\ run'.opened = run.opened
  BY <1>0, <1>2, <1>3 DEF RunOK, IsRun
<1>5. TInv'
  BY <1>0, <1>1 DEF TInv
<1>6. EffectsOK'
  <2>1. \A k \in DOMAIN effects : effects[k].req # run.req
    BY <1>2 DEF Written
  <2>2. /\ run.req \in DOMAIN asked /\ asked[run.req].write /\ AllowWrite
    BY <1>0, <1>2 DEF RunOK, TInv, Requests
  <2>3. effects'[n].req = run.req /\ effects'[n].tool = Call.tool
    BY <1>1
  <2>4. \A j \in DOMAIN effects' : j = n \/ j \in DOMAIN effects
    BY <1>1
  <2>5. \A j, k \in DOMAIN effects' : effects'[j].req = effects'[k].req => j = k
    BY <1>0, <1>1, <2>1, <2>3, <2>4 DEF EffectsOK
  <2>6. \A k \in DOMAIN effects' :
          /\ effects'[k].req \in DOMAIN asked
          /\ Wrote(effects'[k]) /\ asked[effects'[k].req].write /\ AllowWrite
    BY <1>0, <1>1, <1>2, <2>2, <2>3, <2>4 DEF EffectsOK, Wrote
  <2> QED BY <2>5, <2>6 DEF EffectsOK, Wrote
<1>7. AnswersOK'
  <2>1. ASSUME NEW r \in Requests, Answered(r)
        PROVE  EffectsOf(r)' = EffectsOf(r)
    <3>1. r # run.req
      BY <1>0, <2>1 DEF RunOK, Answered
    <3> QED BY <1>1, <3>1 DEF EffectsOf
  <2> QED BY <1>0, <2>1 DEF AnswersOK, Answered
<1>8. RunOK(run)'
  <2>1. effects'[n].req = run.req /\ effects'[n].tool = Call.tool /\ effects'[n].target = Call.target
    BY <1>1
  <2> QED BY <1>0, <1>1, <1>2, <1>4, <2>1 DEF RunOK
<1> QED BY <1>5, <1>6, <1>7, <1>8 DEF RInv

LEMMA Mutated ==
  ASSUME RInv, MutateEntity \/ MutateSession
  PROVE  RInv'
<1>0. At("mutate") /\ UNCHANGED <<asked, answers>> /\ TInv /\ RunOK(run)
  BY DEF MutateEntity, MutateSession, RInv, At
<1>1. CASE Ends("error") /\ UNCHANGED <<vault, effects>>
  <2>1. RunOK(run')
    BY <1>0, <1>1 DEF At, Ends, RunOK, IsRun
  <2> QED BY <1>0, <1>1, <2>1, RunOnly
<1>2. CASE MutateSession /\ ~(Ends("error") /\ UNCHANGED <<vault, effects>>)
  <2>1. Recorded /\ NextCall /\ UNCHANGED vault
    BY <1>2 DEF MutateSession
  <2> QED BY <1>0, <2>1, AfterWrite DEF Visible, TInv
<1>3. CASE MutateEntity /\ ~(Ends("error") /\ UNCHANGED <<vault, effects>>)
  <2>1. Recorded /\ NextCall /\ vault' = [vault EXCEPT ![Call.target].revision = @ + 1]
    BY <1>3 DEF MutateEntity
  <2> QED BY <1>0, <2>1, VisibleStays, AfterWrite
<1> QED BY <1>1, <1>2, <1>3

LEMMA RunSteps ==
  ASSUME AssistantAssumption, RInv, RunStep
  PROVE  RInv'
<1>1. CASE MutateEntity \/ MutateSession
  BY <1>1, Mutated
<1>2. CASE ~(MutateEntity \/ MutateSession)
  <2>1. TInv /\ RunOK(run) /\ UNCHANGED <<vault, asked, answers, effects>>
    BY <1>2 DEF RInv, RunStep, Preflight, Compose, SearchNotes, SearchIndex, HydrateNotes, Prepare,
                ModelAnswers, ModelFails, ModelCalls, Asking, AdmitToolBatch, ExecuteRead,
                AuthorizeWrite, At, Idle, world
  <2>2. RunOK(run')
    BY <1>2, <2>1, Before, Model, Admitted, Executed DEF RunStep
  <2> QED BY <2>1, <2>2, RunOnly
<1> QED BY <1>1, <1>2

-----------------------------------------------------------------------------
(* Requests begin and end, and others go on meanwhile.                     *)
LEMMA Submitted ==
  ASSUME AssistantAssumption, RInv, NEW text \in Queries, NEW write \in BOOLEAN, Submit(text, write),
         write => AllowWrite
  PROVE  RInv'
<1>0. TInv /\ EffectsOK /\ AnswersOK /\ UNCHANGED <<vault, answers, effects>> /\ MaxRequests \in Nat
      /\ asked \in Seq([text : Queries, write : BOOLEAN])
  BY DEF RInv, TInv, Submit, world, AssistantAssumption
<1> DEFINE n == Len(asked) + 1
           entry == [text |-> text, write |-> write]
<1>1. /\ asked' = Append(asked, entry) /\ entry \in [text : Queries, write : BOOLEAN]
      /\ Len(asked) < MaxRequests /\ Len(asked) \in Nat
  BY <1>0 DEF Submit
<1>2. /\ asked' \in Seq([text : Queries, write : BOOLEAN]) /\ Len(asked') = n /\ n \in Requests
      /\ n \in Nat /\ DOMAIN asked = 1..(n - 1) /\ DOMAIN asked' = 1..n
      /\ \A k \in DOMAIN asked : asked'[k] = asked[k]
  <2> HIDE DEF entry
  <2> QED BY <1>0, <1>1 DEF Requests
<1>3. /\ IsRun(run') /\ run'.req = n /\ run'.pc = "preflight" /\ run'.calls = <<>> /\ run'.at = 1
      /\ run'.context.granted = "read" /\ run'.shown = {} /\ run'.opened = Visible
  BY <1>2 DEF Submit, IsRun
<1> HIDE DEF n, entry
<1>4. TInv'
  BY <1>0, <1>2 DEF TInv
<1>5. EffectsOK'
  BY <1>0, <1>2 DEF EffectsOK, Wrote
<1>6. AnswersOK' /\ answers[n] = NoAnswer
  <2>1. \A r \in Requests : Answered(r) => r <= n /\ r # n
    BY <1>0, <1>2 DEF AnswersOK, n, Requests
  <2>2. \A r \in Requests : EffectsOf(r)' = EffectsOf(r)
    BY <1>0 DEF EffectsOf
  <2> QED BY <1>0, <1>2, <2>1, <2>2 DEF AnswersOK, Answered
<1>7. \A k \in DOMAIN effects : effects[k].req # n
  BY <1>0, <1>2 DEF EffectsOK
<1>8. RunOK(run)'
  BY <1>0, <1>2, <1>3, <1>6, <1>7 DEF RunOK, Written, Visible
<1> QED BY <1>4, <1>5, <1>6, <1>8 DEF RInv

LEMMA AnswerGiven ==
  ASSUME RInv, Answer
  PROVE  RInv'
<1>0. TInv /\ RunOK(run) /\ EffectsOK /\ AnswersOK /\ UNCHANGED <<vault, asked, effects>> /\ run' = NoRun
  BY DEF RInv, Answer, At, world
<1>1. TInv' /\ EffectsOK'
  BY <1>0 DEF TInv, EffectsOK, Wrote, Answer
<1>2. AnswersOK'
  <2>1. \A r \in Requests : EffectsOf(r)' = EffectsOf(r)
    BY <1>0 DEF EffectsOf
  <2>2. /\ run.req \in Requests /\ run.req <= Len(asked)
        /\ answers'[run.req].wrote = Cardinality(EffectsOf(run.req))
    BY <1>0 DEF RunOK, TInv, Answer, Requests
  <2>3. \A r \in Requests : r # run.req => answers'[r] = answers[r]
    BY <1>0 DEF TInv, Answer
  <2> QED BY <1>0, <2>1, <2>2, <2>3 DEF AnswersOK, Answered
<1> QED BY <1>0, <1>1, <1>2 DEF RInv

LEMMA OthersGoOn ==
  ASSUME RInv, Others
  PROVE  RInv'
<1>1. ASSUME NEW i \in Notes, OwnerFlips(i)
      PROVE  RInv'
  <2>0. TInv /\ EffectsOK /\ AnswersOK /\ UNCHANGED <<asked, answers, effects>>
    BY <1>1 DEF RInv, OwnerFlips
  <2>1. vault' \in [Notes -> [visible : BOOLEAN, revision : Nat]]
    BY <1>1, <2>0 DEF OwnerFlips, TInv
  <2>2. TInv' /\ EffectsOK' /\ AnswersOK'
    BY <2>0, <2>1, ZenonT(60) DEF TInv, EffectsOK, AnswersOK, Answered, EffectsOf, Wrote
  <2>3. CASE run = NoRun
    BY <1>1, <2>2, <2>3 DEF RInv, OwnerFlips, Seeing
  <2>4. CASE run # NoRun
    <3>1. RunOK(run) /\ run' = [run EXCEPT !.opened = @ \union Visible']
      BY <1>1, <2>4 DEF RInv, OwnerFlips, Seeing, Visible
    <3>2. /\ IsRun(run') /\ run'.opened = run.opened \union Visible'
          /\ run'.req = run.req /\ run'.pc = run.pc /\ run'.calls = run.calls /\ run'.at = run.at
          /\ run'.context = run.context /\ run'.observed = run.observed /\ run'.shown = run.shown
      BY <3>1 DEF RunOK, IsRun
    <3>3. RunOK(run)'
      BY <2>0, <3>1, <3>2 DEF RunOK, Written
    <3> QED BY <2>2, <3>3 DEF RInv
  <2> QED BY <2>3, <2>4
<1>2. CASE OtherSession \/ OtherCrashes \/ OtherRebuildsIndex
  <2>1. UNCHANGED <<vault, requestVars>>
    BY <1>2 DEF OtherSession, OtherCrashes, OtherRebuildsIndex
  <2> QED BY <2>1 DEF RInv, TInv, EffectsOK, AnswersOK, Answered, EffectsOf, Wrote, RunOK, Written,
                      Visible, requestVars
<1> QED BY <1>1, <1>2 DEF Others

-----------------------------------------------------------------------------
(* The gate: what is in flight in the text interface holds it, and `dnd ask` *)
(* has no other operation than its request.                                *)
IsWork(w) == w = [owner |-> w.owner, op |-> w.op, pc |-> w.pc, ok |-> w.ok]

GInv ==
  /\ front \in {"ask", "tui", "closed"}
  /\ work # NoWork => IsWork(work) /\ front = "tui"
  /\ front = "tui" /\ run # NoRun => gate = "assistant" /\ work = NoWork
  /\ front = "tui" /\ work # NoWork => gate = work.owner /\ gate \in Owners
  /\ front = "closed" => run = NoRun
  /\ writeIntent \in BOOLEAN /\ (writeIntent => AllowWrite)

LEMMA Free ==
  ASSUME OwnerAssumption, GInv, gate = NoOwner, front = "tui"
  PROVE  run = NoRun /\ work = NoWork
BY DEF OwnerAssumption, GInv, Owners

LEMMA Started ==
  ASSUME OwnerAssumption, GInv, front = "tui", NEW owner \in Owners, NEW op, StartExclusive(owner, op),
         UNCHANGED <<front, run, writeIntent>>
  PROVE  GInv'
<1>1. CASE gate # NoOwner
  BY <1>1 DEF StartExclusive, GInv, IsWork
<1>2. CASE gate = NoOwner
  <2>1. run' = NoRun /\ gate' = owner
    BY <1>2, Free DEF StartExclusive, Acquire
  <2>2. IsWork(work') /\ work'.owner = owner
    BY <1>2 DEF StartExclusive, IsWork
  <2> QED BY <2>1, <2>2 DEF GInv, IsWork
<1> QED BY <1>1, <1>2

(* What a worker does leaves its owner alone.                              *)
LEMMA WorkerGoesOn ==
  ASSUME GInv, UNCHANGED <<front, gate, run, writeIntent>>,
         \/ UNCHANGED work
         \/ work # NoWork /\ \E pc : work' = [work EXCEPT !.pc = pc]
         \/ work # NoWork /\ \E pc, ok : work' = [work EXCEPT !.pc = pc, !.ok = ok]
  PROVE  GInv'
<1>1. CASE UNCHANGED work
  BY <1>1 DEF GInv, IsWork
<1>2. CASE ~UNCHANGED work
  <2>1. work # NoWork /\ IsWork(work) /\ front = "tui"
    BY <1>2 DEF GInv
  <2>2. IsWork(work') /\ work'.owner = work.owner
    BY <1>2, <2>1 DEF IsWork
  <2> QED BY <2>1, <2>2 DEF GInv, IsWork
<1> QED BY <1>1, <1>2

LEMMA RequestGoesOn ==
  ASSUME GInv, UNCHANGED <<front, gate, work, writeIntent>>, run = NoRun => run' = NoRun
  PROVE  GInv'
BY DEF GInv, IsWork

-----------------------------------------------------------------------------
Inv == RInv /\ GInv

LEMMA RStays ==
  ASSUME RInv, UNCHANGED <<vault, requestVars>>
  PROVE  RInv'
BY DEF RInv, TInv, EffectsOK, AnswersOK, Answered, EffectsOf, Wrote, RunOK, Written, Visible, requestVars

LEMMA Initially ==
  ASSUME AssistantAssumption, Init
  PROVE  Inv
<1>1. RInv
  <2>1. vault \in [Notes -> [visible : BOOLEAN, revision : Nat]]
    BY DEF Init, AssistantInit
  <2>2. asked = <<>> /\ effects = <<>> /\ run = NoRun /\ answers = [r \in Requests |-> NoAnswer]
    BY DEF Init, AssistantInit
  <2>3. TInv
    BY <2>1, <2>2 DEF TInv
  <2>4. EffectsOK /\ AnswersOK
    BY <2>2 DEF EffectsOK, AnswersOK, Answered
  <2> QED BY <2>2, <2>3, <2>4 DEF RInv
<1>2. GInv
  <2>1. run = NoRun /\ writeIntent = FALSE /\ front \in {"ask", "tui"}
    BY DEF Init, AssistantInit
  <2>2. CASE front = "tui"
    BY <2>1, <2>2 DEF Init, GInv, IsWork, Owners
  <2>3. CASE front = "ask"
    BY <2>1, <2>3 DEF Init, GInv
  <2> QED BY <2>1, <2>2, <2>3
<1> QED BY <1>1, <1>2 DEF Inv

LEMMA Commanded ==
  ASSUME AssistantAssumption, OwnerAssumption, Inv, Commands
  PROVE  Inv'
<1>0. RInv /\ GInv /\ (writeIntent => AllowWrite) /\ writeIntent \in BOOLEAN /\ AllowWrite \in BOOLEAN
  BY DEF Inv, GInv, AssistantAssumption
<1>1. CASE SubmitRequest
  <2>1. PICK text \in Queries : Submit(text, writeIntent)
    BY <1>1 DEF SubmitRequest
  <2>2. RInv'
    BY <1>0, <2>1, Submitted
  <2>3. work = NoWork
    BY <1>0, <1>1, Free DEF SubmitRequest, On, Unoccupied
  <2>4. GInv'
    BY <1>0, <1>1, <2>3 DEF SubmitRequest, On, Acquire, GInv, IsWork
  <2> QED BY <2>2, <2>4 DEF Inv
<1>2. CASE AskCommand
  <2>1. PICK text \in Queries, write \in {FALSE, AllowWrite} : Submit(text, write)
    BY <1>2 DEF AskCommand
  <2>2. RInv'
    BY <1>0, <2>1, Submitted
  <2>3. GInv'
    BY <1>0, <1>2 DEF AskCommand, tuiVars, GInv, IsWork
  <2> QED BY <2>2, <2>3 DEF Inv
<1>3. CASE ToggleWrite
  <2>0. UNCHANGED <<vault, requestVars>>
    BY <1>3 DEF ToggleWrite, world
  <2>1. RInv'
    BY <1>0, <2>0, RStays
  <2>2. GInv'
    BY <1>0, <1>3 DEF ToggleWrite, GInv, IsWork, requestVars
  <2> QED BY <2>1, <2>2 DEF Inv
<1>4. CASE OpenSession \/ RefreshStatus
  <2>1. UNCHANGED <<vault, requestVars, run, front, gate, work, writeIntent>>
    BY <1>4 DEF OpenSession, RefreshStatus, world, requestVars
  <2> QED BY <1>0, <2>1, RStays, WorkerGoesOn DEF Inv
<1>5. CASE ReturnToAssistant
  <2>1. /\ UNCHANGED <<vault, requestVars, run, front, gate, writeIntent>>
        /\ \/ UNCHANGED work
           \/ work # NoWork /\ work' = [work EXCEPT !.pc = "cancelled"]
    BY <1>5 DEF ReturnToAssistant, LeaveSession, world, requestVars
  <2> QED BY <1>0, <2>1, RStays, WorkerGoesOn DEF Inv
<1>6. ASSUME NEW op \in SessionOps, SessionCommand(op)
      PROVE  Inv'
  <2>1. /\ UNCHANGED <<vault, requestVars, run, front, writeIntent>>
        /\ StartExclusive("session", op) /\ front = "tui" /\ "session" \in Owners
    BY <1>6 DEF SessionCommand, On, world, requestVars, Owners
  <2> QED BY <1>0, <2>1, RStays, Started DEF Inv
<1>7. CASE CampaignCommand
  <2>1. /\ UNCHANGED <<vault, requestVars, run, front, writeIntent>>
        /\ StartExclusive("campaign-state", "project") /\ front = "tui" /\ "campaign-state" \in Owners
    BY <1>7 DEF CampaignCommand, On, world, requestVars, Owners
  <2> QED BY <1>0, <2>1, RStays, Started DEF Inv
<1>8. CASE QuitApp
  <2>1. UNCHANGED <<vault, requestVars, gate, work, writeIntent>> /\ front' = "closed"
    BY <1>8 DEF QuitApp, world, requestVars
  <2>2. run = NoRun /\ work = NoWork
    BY <1>0, <1>8, Free DEF QuitApp, Unoccupied
  <2> QED BY <1>0, <2>1, <2>2, RStays DEF Inv, GInv, requestVars
<1> QED BY <1>1, <1>2, <1>3, <1>4, <1>5, <1>6, <1>7, <1>8 DEF Commands

LEMMA ThreadsGoOn ==
  ASSUME Inv, Threads
  PROVE  Inv'
<1>1. UNCHANGED <<vault, requestVars, run, front, gate, writeIntent>>
  BY DEF Threads, SessionPreflight, SessionAct, CampaignAct, ReadStatus, world, requestVars
<1>2. \/ UNCHANGED work
      \/ work # NoWork /\ \E pc : work' = [work EXCEPT !.pc = pc]
      \/ work # NoWork /\ \E pc, ok : work' = [work EXCEPT !.pc = pc, !.ok = ok]
  BY DEF Threads, SessionPreflight, SessionAct, CampaignAct, ReadStatus, Working, Worked
<1> QED BY <1>1, <1>2, RStays, WorkerGoesOn DEF Inv

LEMMA Delivered ==
  ASSUME OwnerAssumption, Inv, EventLoop
  PROVE  Inv'
<1>0. RInv /\ GInv
  BY DEF Inv
<1>1. CASE DeliverWork
  <2>1. UNCHANGED <<vault, requestVars, run, front, writeIntent>> /\ work' = NoWork
    BY <1>1 DEF DeliverWork, world, requestVars
  <2>2. run = NoRun
    BY <1>0, <1>1 DEF DeliverWork, Working, GInv
  <2> QED BY <1>0, <2>1, <2>2, RStays DEF Inv, GInv
<1>2. CASE DeliverStatus
  <2>1. UNCHANGED <<vault, requestVars, run, front, gate, work, writeIntent>>
    BY <1>2 DEF DeliverStatus, world, requestVars
  <2> QED BY <1>0, <2>1, RStays, WorkerGoesOn DEF Inv
<1>3. CASE DeliverAnswer
  <2>1. Answer /\ run # NoRun /\ run' = NoRun /\ UNCHANGED <<front, work, writeIntent>>
    BY <1>3 DEF DeliverAnswer, Answer, At
  <2>2. RInv'
    BY <1>0, <2>1, AnswerGiven
  <2>3. work = NoWork
    BY <1>0, <2>1 DEF GInv
  <2> QED BY <1>0, <2>1, <2>2, <2>3 DEF Inv, GInv
<1>4. CASE Converge
  <2>1. /\ UNCHANGED <<vault, requestVars, run, front, writeIntent>>
        /\ StartExclusive("campaign-state", "project") /\ front = "tui" /\ "campaign-state" \in Owners
    BY <1>4 DEF Converge, world, requestVars, Owners
  <2> QED BY <1>0, <2>1, RStays, Started DEF Inv
<1> QED BY <1>1, <1>2, <1>3, <1>4 DEF EventLoop

LEMMA Stepwise ==
  ASSUME AssistantAssumption, OwnerAssumption, Inv, [Next]_vars
  PROVE  Inv'
<1>0. RInv /\ GInv
  BY DEF Inv
<1>1. CASE RunRequest
  <2>1. RunStep /\ UNCHANGED <<front, gate, work, writeIntent>>
    BY <1>1 DEF RunRequest, tuiVars
  <2>2. run # NoRun
    BY <2>1 DEF RunStep, Preflight, Compose, SearchNotes, SearchIndex, HydrateNotes, Prepare, ModelAnswers,
                ModelFails, ModelCalls, Asking, AdmitToolBatch, ExecuteRead, AuthorizeWrite,
                MutateEntity, MutateSession, At
  <2> QED BY <1>0, <2>1, <2>2, RunSteps, RequestGoesOn DEF Inv
<1>2. CASE OtherActors
  <2>1. Others /\ UNCHANGED <<front, gate, work, writeIntent>>
    BY <1>2 DEF OtherActors, tuiVars
  <2>2. run = NoRun => run' = NoRun
    BY <2>1 DEF Others, OwnerFlips, Seeing, OtherSession, OtherCrashes, OtherRebuildsIndex, requestVars
  <2> QED BY <1>0, <2>1, <2>2, OthersGoOn, RequestGoesOn DEF Inv
<1>3. CASE UNCHANGED vars
  <2>1. UNCHANGED <<vault, requestVars, run, front, gate, work, writeIntent>>
    BY <1>3 DEF vars, world, requestVars, tuiVars
  <2> QED BY <1>0, <2>1, RStays, WorkerGoesOn DEF Inv
<1> QED BY <1>1, <1>2, <1>3, Commanded, ThreadsGoOn, Delivered DEF Next

LEMMA InvHolds ==
  ASSUME Inv
  PROVE  WritesAsAsked
<1>0. EffectsOK /\ AnswersOK /\ (run # NoRun => RunOK(run)) /\ GInv
  BY DEF Inv, RInv
<1>1. AskedFor
  BY <1>0 DEF AskedFor, EffectsOK
<1>2. WritesOnce
  <2>1. SUFFICES ASSUME NEW r \in Requests
                 PROVE  Cardinality(EffectsOf(r)) <= 1
    BY DEF WritesOnce
  <2>2. CASE EffectsOf(r) = {}
    BY <2>2, FS_EmptySet
  <2>3. CASE EffectsOf(r) # {}
    <3>1. PICK k : k \in EffectsOf(r)
      BY <2>3
    <3>2. EffectsOf(r) = {k}
      BY <1>0, <3>1 DEF EffectsOf, EffectsOK
    <3> QED BY <3>2, FS_Singleton
  <2> QED BY <2>2, <2>3
<1>3. SecretsKept
  BY <1>0 DEF SecretsKept, RunOK, OfEntity, EffectsOf
<1>4. Over
  BY <1>0 DEF Over, AnswersOK
<1>5. OneAtATime
  BY <1>0 DEF OneAtATime, GInv
<1> QED BY <1>1, <1>2, <1>3, <1>4, <1>5 DEF WritesAsAsked

(* WritesAsAsked in every behaviour: `dnd ask` and the text interface write  *)
(* once at most per request, only when asked to, and only to notes that were *)
(* visible to the players, whatever the model returns and whatever others    *)
(* do meanwhile; and operations of the text interface exclude one another.   *)
THEOREM WritesAsAskedHolds ==
  ASSUME AssistantAssumption, OwnerAssumption
  PROVE  Spec => []WritesAsAsked
<1>1. Init => Inv
  BY Initially
<1>2. Inv /\ [Next]_vars => Inv'
  BY Stepwise
<1>3. Inv => WritesAsAsked
  BY InvHolds
<1> QED BY <1>1, <1>2, <1>3, PTL DEF Spec
===============================================================================
