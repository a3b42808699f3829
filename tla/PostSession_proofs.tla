------------------------- MODULE PostSession_proofs -------------------------
(***************************************************************************)
(* Proofs about PostSession: whatever the model answers, the disk loses    *)
(* and the processes do to each other, an attempt is worked on once, a     *)
(* completed one can show what it promised, and a process tells its user   *)
(* only what the ledger says.                                              *)
(*                                                                         *)
(* The argument has two halves.  An attempt's ledger is a Story, one event *)
(* of a kind in the order of the steps, and once it says completed it is   *)
(* Sealed: every file is what its event says.  A run at work owns its      *)
(* attempt (Exclusive), has recorded all before its stage, and what it has *)
(* recorded is on disk (RunOK).  Each step is shown to keep its own run in *)
(* order (the lemmas ...OK, for Mine), to leave a story behind (the lemmas *)
(* ...Effect), and so to disturb nobody else (InvKept).                    *)
(*                                                                         *)
(* What an attempt writes comes after that: plans, vaults and recaps are   *)
(* folds, whose steps are shown to keep something (CreatesAre, AppendsAre, *)
(* ApplyKeeps, ToldIs); from it follow the recap that tells no secret, the *)
(* types, and, since a plan Fits the vault until it is applied, that no    *)
(* document has a fact twice.                                              *)
(***************************************************************************)
EXTENDS PostSession, FiniteSetTheorems, SequenceTheorems, TLAPS

(* The order in which an attempt records its steps; the last is terminal.  *)
Rank == [k \in Kinds |-> CASE k = "started"  -> 1
                           [] k = "summary"  -> 2
                           [] k = "recap"    -> 3
                           [] k = "workflow" -> 4
                           [] k = "proposal" -> 5
                           [] OTHER          -> 6]

Has(es, kind) == \E e \in ToSet(es) : e.kind = kind

(* A ledger tells one story: a start, then each further step once, in      *)
(* order.                                                                  *)
Story(es) ==
  /\ \E S : es \in Seq(S)
  /\ \A i \in DOMAIN es : es[i].kind \in Kinds
  /\ \A i, j \in DOMAIN es : i < j => Rank[es[i].kind] < Rank[es[j].kind]
  /\ es # <<>> => es[1].kind = "started"

(* What a completed event promises is on disk.                             *)
Sealed(a, es, art, prop) ==
  Has(es, "completed") =>
    /\ \A s \in Slots : Has(es, s)
    /\ art["workflow"].attempt = a
    /\ \A e \in ToSet(es) :
         /\ e.kind = "started" => art["workflow"].input = e.body.input
         /\ e.kind \in Slots => art[e.kind] = e.body.content
         /\ e.kind = "proposal" => prop = e.body.ops /\ art["workflow"].ops = prop
         /\ e.kind = "completed" =>
              /\ art["workflow"].produced = e.body.produced
              /\ e.body.produced => Has(es, "proposal")
              /\ ~e.body.produced => ~Has(es, "proposal") /\ prop = NoValue

(* The attempt of a run is its own from its claim to its end.              *)
Recording == {"append", "verify"}
Working == Recording \union Slots \union
           {"uncertain", "reload", "extract", "produce", "preflight", "propose", "finish"}

(* The rank of the step a run is at; what it records next has no less.     *)
StageAt(pc) ==
  CASE pc \in {"reload", "extract", "produce", "preflight", "summary"} -> 2
    [] pc = "recap"    -> 3
    [] pc = "workflow" -> 4
    [] pc = "propose"  -> 5
    [] OTHER           -> 7

Stage(r) == IF r.pc \in Recording THEN Rank[r.pending.kind] ELSE StageAt(r.pc)

Text(r, slot) ==
  CASE slot = "summary" -> SummaryProjection(r.accepted, r.prepared)
    [] slot = "recap" -> RecapProjection(r.accepted, r.prepared)
    [] slot = "workflow" ->
         [attempt |-> r.attempt, input |-> r.prepared,
          produced |-> r.ops # <<>>, ops |-> r.ops]

(* What it is about to record.                                             *)
PendingOK(r, art) ==
  /\ r.pending.kind \in Kinds
  /\ r.pending.kind = "started" => r.pending.body.input = r.prepared
  /\ r.pending.kind \in Slots =>
       /\ r.pending.body.content = Text(r, r.pending.kind)
       /\ art[r.pending.kind] = Text(r, r.pending.kind)
  /\ r.pending.kind = "proposal" => r.pending.body.ops = r.ops
  /\ r.pending.kind = "completed" => r.pending.body.produced = (r.ops # <<>>)

(* A run that is going to complete has recorded all before its stage, and  *)
(* everything recorded is on disk.                                         *)
GoesOn(r) ==
  /\ r.pc \in Working \ {"uncertain", "finish"}
  /\ r.pc \in Recording => r.pending.kind # "failed"

Matches(r, es, art) ==
  \A e \in ToSet(es) :
    /\ e.kind = "started" => e.body.input = r.prepared
    /\ e.kind \in Slots =>
         e.body.content = Text(r, e.kind) /\ art[e.kind] = Text(r, e.kind)
    /\ e.kind = "proposal" => e.body.ops = r.ops

Backed(r, es, art) ==
  /\ \A s \in Slots : Rank[s] < Stage(r) => Has(es, s)
  /\ Matches(r, es, art)

Proposing(r, es, prop) ==
  /\ Stage(r) <= 4 \/ r.pc = "propose" => prop = NoValue
  /\ Stage(r) = 5 => r.ops # <<>>
  /\ Stage(r) = 5 /\ r.pc \in Recording => prop = r.ops
  /\ Stage(r) = 6 /\ r.ops = <<>> => ~Has(es, "proposal") /\ prop = NoValue
  /\ Stage(r) = 6 /\ r.ops # <<>> => Has(es, "proposal") /\ prop = r.ops

(* The model has not been asked yet.                                       *)
Fresh(r) ==
  \/ r.pc \in {"reload", "extract"}
  \/ r.pc \in Recording /\ r.pending.kind = "started"

RunOK(r, es, art, prop, n, clean) ==
  r.pc \in Working =>
    /\ r.pc \in Recording => PendingOK(r, art)
    /\ \A e \in ToSet(es) : \/ Rank[e.kind] < Stage(r)
                            \/ r.pc = "verify" /\ Rank[e.kind] = Stage(r)
    /\ Stage(r) > 1 => Has(es, "started")
    /\ Fresh(r) => n = 0
    /\ GoesOn(r) => Backed(r, es, art) /\ Proposing(r, es, prop)
    /\ r.pc = "finish" => Has(es, "completed")
    /\ r.pc = "uncertain" /\ clean => r.pending.kind = "completed"

(* What a run has told its user.                                           *)
Told(r, es) ==
  IF r.pc = "done"
  THEN r.report # NoValue =>
         /\ r.report.status \in {"completed", "already_terminal"} => Has(es, "completed")
         /\ r.report = [status |-> "failed", reason |-> "recorded"] => Has(es, "failed")
  ELSE r.report = NoValue

Shape ==
  /\ DOMAIN ledger = Attempts /\ DOMAIN proposals = Attempts
  /\ DOMAIN artifacts = Attempts /\ \A a \in Attempts : DOMAIN artifacts[a] = Slots
  /\ asked \in [Attempts -> Nat] /\ claims \subseteq Attempts
  /\ DOMAIN run = Procs /\ \A p \in Procs : DOMAIN run[p] = DOMAIN Idle

AttemptOK(a) ==
  /\ Story(ledger[a])
  /\ Sealed(a, ledger[a], artifacts[a], proposals[a])
  /\ asked[a] <= 1
  /\ a \notin claims => ledger[a] = <<>> /\ asked[a] = 0 /\ proposals[a] = NoValue

ProcessOK(p) ==
  LET r == run[p] a == run[p].attempt IN
  /\ r.pc = "idle" => r.report = NoValue
  /\ r.pc # "idle" =>
       /\ a \in Attempts
       /\ r.pc \in Working => a \in claims
       /\ RunOK(r, ledger[a], artifacts[a], proposals[a], asked[a], Readable)
       /\ Told(r, ledger[a])

Exclusive ==
  \A p, q \in Procs :
    /\ run[p].pc \in Working /\ run[q].pc \in Working
    /\ run[p].attempt = run[q].attempt
    => p = q

Inv ==
  /\ Shape
  /\ \A a \in Attempts : AttemptOK(a)
  /\ \A p \in Procs : ProcessOK(p)
  /\ Exclusive

-----------------------------------------------------------------------------
(* Ledgers as sequences.                                                   *)

(* A recorded event comes after what was there.                            *)
LEMMA Appending ==
  ASSUME NEW S, NEW es \in Seq(S), NEW e
  PROVE  /\ \E T : Append(es, e) \in Seq(T)
         /\ DOMAIN es = 1..Len(es) /\ Len(es) \in Nat
         /\ DOMAIN Append(es, e) = 1..(Len(es) + 1)
         /\ \A i \in 1..Len(es) : Append(es, e)[i] = es[i]
         /\ Append(es, e)[Len(es) + 1] = e
         /\ ToSet(Append(es, e)) = ToSet(es) \union {e}
<1> DEFINE T == S \union {e}
           t == Append(es, e)
<1>1. es \in Seq(T) /\ e \in T
  BY SeqMonotonic
<1>2. /\ t \in Seq(T) /\ Len(t) = Len(es) + 1
      /\ \A i \in 1..Len(es) : t[i] = es[i]
      /\ t[Len(es) + 1] = e
      /\ Len(es) \in Nat /\ DOMAIN es = 1..Len(es) /\ DOMAIN t = 1..Len(t)
  BY <1>1, AppendProperties
<1> HIDE DEF t
<1>3. ToSet(t) = ToSet(es) \union {e}
  BY <1>2 DEF ToSet
<1> QED BY <1>2, <1>3 DEF t

LEMMA HasMore ==
  ASSUME NEW S, NEW es \in Seq(S), NEW e
  PROVE  \A k : Has(Append(es, e), k) <=> Has(es, k) \/ e.kind = k
BY Appending DEF Has

(* Every kind has its rank.                                                *)
LEMMA Ranks ==
  /\ \A k \in Kinds : Rank[k] \in 1..6
  /\ Rank["started"] = 1 /\ Rank["summary"] = 2 /\ Rank["recap"] = 3
  /\ Rank["workflow"] = 4 /\ Rank["proposal"] = 5 /\ Rank["completed"] = 6
  /\ Rank["failed"] = 6
  /\ Slots \subseteq Kinds /\ {"started", "proposal", "completed", "failed"} \subseteq Kinds
BY DEF Rank, Kinds, Slots

(* The story goes on with an event of a higher rank.                       *)
LEMMA StoryGoesOn ==
  ASSUME NEW es, Story(es), NEW e, e.kind \in Kinds,
         \A d \in ToSet(es) : Rank[d.kind] < Rank[e.kind],
         Rank[e.kind] > 1 => Has(es, "started")
  PROVE  Story(Append(es, e))
<1>1. PICK S : es \in Seq(S)
  BY DEF Story
<1> DEFINE t == Append(es, e)
<1>2. /\ \E T : t \in Seq(T)
      /\ DOMAIN es = 1..Len(es) /\ Len(es) \in Nat
      /\ DOMAIN t = 1..(Len(es) + 1)
      /\ \A i \in 1..Len(es) : t[i] = es[i] /\ es[i] \in ToSet(es)
      /\ t[Len(es) + 1] = e
  BY <1>1, Appending, SMTT(30) DEF ToSet
<1>3. t[1].kind = "started"
  <2>1. CASE Len(es) = 0
    <3>1. ~Has(es, "started")
      BY <1>2, <2>1 DEF Has, ToSet
    <3>2. ~(Rank[e.kind] > 1)
      BY <3>1
    <3>3. e.kind = "started"
      BY <3>2 DEF Rank, Kinds
    <3> QED BY <1>2, <2>1, <3>3
  <2>2. CASE Len(es) > 0
    <3>1. es # <<>> /\ 1 \in 1..Len(es)
      BY <1>2, <2>2
    <3> QED BY <1>2, <3>1 DEF Story
  <2> QED BY <1>2, <2>1, <2>2
<1>4. \A i \in DOMAIN t : t[i].kind \in Kinds
  BY <1>2 DEF Story
<1>5. ASSUME NEW i \in DOMAIN t, NEW j \in DOMAIN t, i < j
      PROVE  Rank[t[i].kind] < Rank[t[j].kind]
  <2>1. i \in 1..Len(es) /\ (j \in 1..Len(es) \/ j = Len(es) + 1)
    BY <1>2, <1>5
  <2> QED BY <1>2, <1>5, <2>1 DEF Story
<1> HIDE DEF t
<1>6. Story(t)
  BY <1>2, <1>3, <1>4, <1>5 DEF Story
<1> QED BY <1>6 DEF t

(* A story has one event of a kind, and its terminal event is its last.    *)
LEMMA OneOfAKind ==
  ASSUME NEW es, Story(es), NEW e \in ToSet(es), NEW d \in ToSet(es), e.kind = d.kind
  PROVE  e = d
<1>1. PICK S : es \in Seq(S)
  BY DEF Story
<1>2. PICK i \in DOMAIN es, j \in DOMAIN es : e = es[i] /\ d = es[j]
  BY DEF ToSet
<1>3. DOMAIN es = 1..Len(es) /\ Rank[e.kind] \in 1..6
  BY <1>1, <1>2, Ranks DEF Story
<1>4. i < j \/ j < i \/ i = j
  BY <1>2, <1>3
<1> QED BY <1>2, <1>3, <1>4 DEF Story

LEMMA NoConflict ==
  ASSUME NEW es, Story(es), es # <<>>
  PROVE  ~Conflicting(es)
<1>1. PICK S : es \in Seq(S)
  BY DEF Story
<1>2. DOMAIN es = 1..Len(es) /\ Len(es) \in Nat /\ Len(es) > 0
  BY <1>1
<1>3. \A i \in DOMAIN es : es[i].kind \in Kinds /\ Rank[es[i].kind] \in 1..6
  BY Ranks DEF Story
<1>4. \A i \in 2..Len(es) : es[i].kind # "started"
  <2>1. \A i \in 2..Len(es) : 1 < i /\ i \in DOMAIN es /\ 1 \in DOMAIN es
    BY <1>2
  <2> QED BY <1>3, <2>1, Ranks DEF Story
<1>5. ASSUME NEW i \in DOMAIN es, NEW j \in DOMAIN es, i < j
      PROVE  es[i].kind \notin Terminals /\ es[i].kind # es[j].kind
  <2>1. Rank[es[i].kind] < Rank[es[j].kind] /\ Rank[es[j].kind] \in 1..6
    BY <1>3, <1>5 DEF Story
  <2>2. es[i].kind # "completed" /\ es[i].kind # "failed"
    BY <1>3, <2>1, Ranks
  <2>3. es[i].kind # "superseded"
    BY <1>3 DEF Kinds
  <2> QED BY <1>3, <2>1, <2>2, <2>3 DEF Terminals
<1> QED BY <1>4, <1>5 DEF Conflicting, Story

(* The fold of a story: its terminal event, if it has one.                 *)
LEMMA StateIs ==
  ASSUME NEW a, Story(ledger[a])
  PROVE  /\ StateOf(a) # "conflict"
         /\ StateOf(a) = "completed" <=> Has(ledger[a], "completed")
         /\ StateOf(a) = "failed" <=> Has(ledger[a], "failed")
<1> DEFINE es == ledger[a]
<1>1. PICK S : es \in Seq(S)
  BY DEF Story
<1>2. CASE es = <<>>
  <2>1. StateOf(a) = "not_started"
    BY <1>2 DEF StateOf, EventsOf
  <2>2. \A k : ~Has(es, k)
    BY <1>2 DEF Has, ToSet
  <2> QED BY <2>1, <2>2
<1>3. CASE es # <<>>
  <2>1. ~Conflicting(es)
    BY <1>3, NoConflict
  <2>2. StateOf(a) = IF es[Len(es)].kind \in Terminals THEN es[Len(es)].kind ELSE "started"
    BY <1>3, <2>1 DEF StateOf, EventsOf
  <2>3. /\ DOMAIN es = 1..Len(es) /\ Len(es) \in Nat /\ Len(es) \in DOMAIN es
        /\ es[Len(es)] \in ToSet(es)
    BY <1>1, <1>3 DEF ToSet
  <2>4. es[Len(es)].kind \in Kinds
    BY <2>3 DEF Story
  <2>5. ASSUME NEW k \in {"completed", "failed"}
        PROVE  Has(es, k) <=> es[Len(es)].kind = k
    <3>1. ASSUME Has(es, k)
          PROVE  es[Len(es)].kind = k
      <4>1. PICK i \in DOMAIN es : es[i].kind = k
        BY <3>1 DEF Has, ToSet
      <4>2. CASE i = Len(es)
        BY <4>1, <4>2
      <4>3. CASE i < Len(es)
        <5>1. Rank[es[i].kind] < Rank[es[Len(es)].kind] /\ Rank[es[Len(es)].kind] \in 1..6
          BY <2>3, <2>4, <4>3, Ranks DEF Story
        <5> QED BY <4>1, <5>1, Ranks
      <4> QED BY <2>3, <4>1, <4>2, <4>3
    <3>2. es[Len(es)].kind = k => Has(es, k)
      BY <2>3 DEF Has
    <3> QED BY <3>1, <3>2
  <2> QED BY <2>2, <2>4, <2>5 DEF Terminals, Kinds
<1> QED BY <1>2, <1>3

LEMMA EventIs ==
  ASSUME NEW a, Story(ledger[a]), NEW e \in ToSet(ledger[a])
  PROVE  EventOf(a, e.kind) = e
BY OneOfAKind DEF EventOf, EventsOf

-----------------------------------------------------------------------------
(* How a step moves its run.                                               *)

(* What a step of a process leaves alone of the runs.                      *)
Moves(p) ==
  /\ DOMAIN run' = Procs /\ DOMAIN run'[p] = DOMAIN Idle
  /\ \A q \in Procs : q # p => run'[q] = run[q]

Same(p) ==
  /\ run'[p].attempt = run[p].attempt /\ run'[p].prepared = run[p].prepared
  /\ run'[p].accepted = run[p].accepted /\ run'[p].ops = run[p].ops
  /\ run'[p].report = run[p].report

LEMMA GotoIs ==
  ASSUME Shape, NEW p \in Procs, NEW l, Goto(p, l)
  PROVE  Moves(p) /\ Same(p) /\ run'[p].pc = l /\ run'[p].pending = run[p].pending
BY DEF Shape, Goto, Idle, Moves, Same

LEMMA PendIs ==
  ASSUME Shape, NEW p \in Procs, NEW k, NEW body, Pend(p, k, body)
  PROVE  /\ Moves(p) /\ Same(p) /\ run'[p].pc = "append"
         /\ run'[p].pending = [id |-> <<p, k>>, kind |-> k, body |-> body]
         /\ run'[p].pending.kind = k /\ run'[p].pending.body = body
<1>1. /\ Moves(p) /\ Same(p) /\ run'[p].pc = "append"
      /\ run'[p].pending = [id |-> <<p, k>>, kind |-> k, body |-> body]
  BY DEF Shape, Pend, Idle, Moves, Same
<1> QED BY <1>1

LEMMA ReportIs ==
  ASSUME Shape, NEW p \in Procs, NEW st, NEW why, Report(p, st, why)
  PROVE  /\ Moves(p) /\ run'[p].pc = "done" /\ run'[p].attempt = run[p].attempt
         /\ run'[p].report = [status |-> st, reason |-> why]
BY DEF Shape, Report, Idle, Moves

(* What a step has to make sure of for its own run.                        *)
OwnOK(p, es, art, prop, n, clean) ==
  /\ Moves(p) /\ run'[p].attempt = run[p].attempt /\ run'[p].pc # "idle"
  /\ RunOK(run'[p], es, art, prop, n, clean)
  /\ Told(run'[p], es)

(* A run that tells of no recorded outcome is done.                        *)
LEMMA ReportOK ==
  ASSUME Shape, NEW p \in Procs, NEW st, NEW why, Report(p, st, why),
         NEW es, NEW art, NEW prop, NEW n, NEW clean,
         st \in {"completed", "already_terminal"} => Has(es, "completed"),
         st = "failed" /\ why = "recorded" => Has(es, "failed")
  PROVE  OwnOK(p, es, art, prop, n, clean)
<1>1. /\ Moves(p) /\ run'[p].pc = "done" /\ run'[p].attempt = run[p].attempt
      /\ run'[p].report = [status |-> st, reason |-> why]
  BY ReportIs
<1>2. run'[p].pc \notin Working
  BY <1>1 DEF Working, Recording, Slots
<1>3. Told(run'[p], es)
  BY <1>1 DEF Told
<1> QED BY <1>1, <1>2, <1>3 DEF OwnOK, RunOK

(* A failure is recorded after whatever there is, if that is not terminal. *)
LEMMA FailOK ==
  ASSUME Shape, NEW p \in Procs, NEW phase, Fail(p, phase), run[p].report = NoValue,
         NEW es, NEW art, NEW prop, NEW n, NEW clean,
         \A e \in ToSet(es) : Rank[e.kind] < 6, Has(es, "started")
  PROVE  OwnOK(p, es, art, prop, n, clean)
<1>1. CASE Pend(p, "failed", [phase |-> phase])
  <2>1. /\ Moves(p) /\ Same(p) /\ run'[p].pc = "append"
        /\ run'[p].pending.kind = "failed"
    BY <1>1, PendIs
  <2>2. Stage(run'[p]) = 6
    BY <2>1, Ranks DEF Stage, Recording
  <2>3. PendingOK(run'[p], art)
    BY <2>1, Ranks DEF PendingOK, Slots
  <2>4. ~GoesOn(run'[p]) /\ ~Fresh(run'[p])
    BY <2>1 DEF GoesOn, Fresh, Recording
  <2>5. RunOK(run'[p], es, art, prop, n, clean)
    BY <2>1, <2>2, <2>3, <2>4 DEF RunOK, Recording
  <2>6. Told(run'[p], es)
    BY <2>1 DEF Told, Same
  <2> QED BY <2>1, <2>5, <2>6 DEF OwnOK, Same
<1>2. CASE Report(p, "error", "recording_failed")
  BY <1>2, ReportOK
<1> QED BY <1>1, <1>2 DEF Fail

(* A step that could not be recorded.                                      *)
LEMMA UnrecordedOK ==
  ASSUME Shape, NEW p \in Procs, NEW k \in Kinds, Unrecorded(p, k), run[p].report = NoValue,
         NEW es, NEW art, NEW prop, NEW n, NEW clean,
         k \notin {"started", "completed", "failed"} =>
           (\A e \in ToSet(es) : Rank[e.kind] < 6) /\ Has(es, "started"),
         k = "completed" =>
           /\ \A e \in ToSet(es) : e.kind \in Kinds
           /\ Has(es, "started")
           /\ clean => run[p].pending.kind = "completed"
  PROVE  OwnOK(p, es, art, prop, n, clean)
<1>1. CASE k = "started" /\ Report(p, "interrupted", "attempt_start_uncertain")
  BY <1>1, ReportOK
<1>2. CASE k = "completed" /\ Goto(p, "uncertain")
  <2>1. /\ Moves(p) /\ Same(p) /\ run'[p].pc = "uncertain"
        /\ run'[p].pending = run[p].pending
    BY <1>2, GotoIs
  <2>2. Stage(run'[p]) = 7
    BY <2>1 DEF Stage, StageAt, Recording
  <2>3. ~GoesOn(run'[p]) /\ ~Fresh(run'[p])
    BY <2>1 DEF GoesOn, Fresh, Recording
  <2>4. ASSUME NEW e \in ToSet(es)
        PROVE  Rank[e.kind] < 7
    <3>1. e.kind \in Kinds
      BY <1>2
    <3>2. Rank[e.kind] \in 1..6
      BY <3>1, Ranks
    <3> QED BY <3>2
  <2>5. RunOK(run'[p], es, art, prop, n, clean)
    BY <1>2, <2>1, <2>2, <2>3, <2>4 DEF RunOK, Recording
  <2>6. Told(run'[p], es)
    BY <2>1 DEF Told, Same
  <2> QED BY <2>1, <2>5, <2>6 DEF OwnOK, Same
<1>3. CASE k = "failed" /\ Report(p, "error", "recording_failed")
  BY <1>3, ReportOK
<1>4. CASE k \notin {"started", "completed", "failed"} /\ Fail(p, "persistence")
  BY <1>4, FailOK
<1> QED BY <1>1, <1>2, <1>3, <1>4 DEF Unrecorded

(* Ready to record the step k.                                             *)
Ready(r, k, es, art, prop) ==
  /\ \A e \in ToSet(es) : e.kind \in Kinds /\ Rank[e.kind] < Rank[k]
  /\ Rank[k] > 1 => Has(es, "started")
  /\ \A s \in Slots : Rank[s] < Rank[k] => Has(es, s)
  /\ Matches(r, es, art)
  /\ Rank[k] <= 4 => prop = NoValue
  /\ k = "proposal" => r.ops # <<>> /\ prop = r.ops
  /\ k = "completed" => /\ r.ops = <<>> => ~Has(es, "proposal") /\ prop = NoValue
                        /\ r.ops # <<>> => Has(es, "proposal") /\ prop = r.ops

(* The event of the step k says what the run has done.                     *)
Says(r, k, body, art) ==
  /\ k = "started" => body.input = r.prepared
  /\ k \in Slots => body.content = Text(r, k) /\ art[k] = Text(r, k)
  /\ k = "proposal" => body.ops = r.ops
  /\ k = "completed" => body.produced = (r.ops # <<>>)

LEMMA TextSame ==
  ASSUME NEW p \in Procs, Same(p), NEW es, NEW art
  PROVE  /\ \A s : Text(run'[p], s) = Text(run[p], s)
         /\ Matches(run[p], es, art) => Matches(run'[p], es, art)
<1>1. \A s : Text(run'[p], s) = Text(run[p], s)
  BY DEF Same, Text
<1> QED BY <1>1 DEF Matches, Same

LEMMA RecordOK ==
  ASSUME Shape, NEW p \in Procs, NEW k \in Kinds, k # "failed", NEW body,
         Record(p, k, body), run[p].report = NoValue,
         NEW es, NEW art, NEW prop, NEW n, NEW clean,
         Ready(run[p], k, es, art, prop), Says(run[p], k, body, art),
         k = "started" => n = 0,
         clean => Readable
  PROVE  OwnOK(p, es, art, prop, n, clean)
<1>1. CASE Pend(p, k, body)
  <2>1. /\ Moves(p) /\ Same(p) /\ run'[p].pc = "append"
        /\ run'[p].pending.kind = k /\ run'[p].pending.body = body
    BY <1>1, PendIs
  <2>2. Stage(run'[p]) = Rank[k]
    BY <2>1 DEF Stage, Recording
  <2>3. PendingOK(run'[p], art)
    BY <2>1, TextSame DEF PendingOK, Says, Same
  <2>4. Backed(run'[p], es, art)
    BY <2>1, <2>2, TextSame DEF Ready, Backed
  <2>5. Proposing(run'[p], es, prop)
    <3>1. /\ Rank[k] = 5 => k = "proposal"
          /\ Rank[k] = 6 => k = "completed"
      BY DEF Rank, Kinds
    <3> QED BY <2>1, <2>2, <3>1 DEF Ready, Proposing, Same
  <2>6. Fresh(run'[p]) => n = 0
    BY <2>1 DEF Fresh, Recording
  <2>7. \A e \in ToSet(es) : Rank[e.kind] < Stage(run'[p])
    BY <2>2 DEF Ready
  <2>8. Stage(run'[p]) > 1 => Has(es, "started")
    BY <2>2 DEF Ready
  <2>9. RunOK(run'[p], es, art, prop, n, clean)
    BY <2>1, <2>3, <2>4, <2>5, <2>6, <2>7, <2>8 DEF RunOK
  <2>10. Told(run'[p], es)
    BY <2>1 DEF Told, Same
  <2> QED BY <2>1, <2>9, <2>10 DEF OwnOK, Same
<1>2. CASE ~Readable /\ Unrecorded(p, k)
  <2>1. /\ k \notin {"started", "completed", "failed"} =>
             (\A e \in ToSet(es) : Rank[e.kind] < 6) /\ Has(es, "started")
    <3>1. Rank[k] \in 1..6 /\ (k # "started" => Rank[k] > 1)
      BY Ranks DEF Rank, Kinds
    <3>2. \A e \in ToSet(es) : Rank[e.kind] \in 1..6 /\ Rank[e.kind] < Rank[k]
      BY Ranks DEF Ready
    <3>3. \A e \in ToSet(es) : Rank[e.kind] < 6
      BY <3>1, <3>2
    <3> QED BY <3>1, <3>3 DEF Ready
  <2>2. k = "completed" => (\A e \in ToSet(es) : e.kind \in Kinds) /\ Has(es, "started")
    BY Ranks DEF Ready
  <2> QED BY <1>2, <2>1, <2>2, UnrecordedOK
<1> QED BY <1>1, <1>2 DEF Record

LEMMA Stages ==
  /\ \A l \in {"reload", "extract", "produce", "preflight", "summary"} : StageAt(l) = 2
  /\ StageAt("recap") = 3 /\ StageAt("workflow") = 4 /\ StageAt("propose") = 5
  /\ StageAt("uncertain") = 7 /\ StageAt("finish") = 7
BY DEF StageAt

(* Going on with the next step of the work.                                *)
LEMMA GoOnOK ==
  ASSUME Shape, NEW p \in Procs, NEW l, Goto(p, l), run[p].report = NoValue,
         l \in {"reload", "extract", "produce", "preflight", "summary", "recap",
                "workflow", "propose"},
         NEW es, NEW art, NEW prop, NEW n, NEW clean,
         \A e \in ToSet(es) : Rank[e.kind] < StageAt(l),
         Has(es, "started"), Matches(run[p], es, art),
         \A s \in Slots : Rank[s] < StageAt(l) => Has(es, s),
         prop = NoValue,
         l = "propose" => run[p].ops # <<>>,
         l \in {"reload", "extract"} => n = 0
  PROVE  OwnOK(p, es, art, prop, n, clean)
<1>1. /\ Moves(p) /\ Same(p) /\ run'[p].pc = l
  BY GotoIs
<1>2. Stage(run'[p]) = StageAt(l)
  BY <1>1 DEF Stage, Recording
<1>3. Backed(run'[p], es, art)
  BY <1>1, <1>2, TextSame DEF Backed
<1>4. Proposing(run'[p], es, prop)
  <2>1. StageAt(l) \in 2..5 /\ (StageAt(l) = 5 => l = "propose")
    BY DEF StageAt
  <2>2. run'[p].pc \notin Recording
    BY <1>1 DEF Recording
  <2> QED BY <1>1, <1>2, <2>1, <2>2 DEF Proposing, Same
<1>5. l \notin Recording /\ l # "finish" /\ l # "uncertain" /\ l # "done" /\ l # "idle"
  BY DEF Recording
<1>6. Fresh(run'[p]) => n = 0
  BY <1>1, <1>5 DEF Fresh
<1>7. RunOK(run'[p], es, art, prop, n, clean)
  BY <1>1, <1>2, <1>3, <1>4, <1>5, <1>6 DEF RunOK
<1>8. Told(run'[p], es)
  BY <1>1, <1>5 DEF Told, Same
<1> QED BY <1>1, <1>5, <1>7, <1>8 DEF OwnOK, Same

-----------------------------------------------------------------------------
(* The steps of a run that works.                                          *)

Log(p) == ledger[run[p].attempt]
Files(p) == artifacts[run[p].attempt]
Proposed(p) == proposals[run[p].attempt]
Asked(p) == asked[run[p].attempt]

Mine(p) == LET a == run[p].attempt IN
  OwnOK(p, ledger'[a], artifacts'[a], proposals'[a], asked'[a], Readable')

LEMMA Context ==
  ASSUME Inv, NEW p \in Procs, run[p].pc \in Working
  PROVE  /\ Shape /\ run[p].attempt \in Attempts /\ run[p].attempt \in claims
         /\ Story(Log(p)) /\ run[p].report = NoValue
         /\ RunOK(run[p], Log(p), Files(p), Proposed(p), Asked(p), Readable)
         /\ Sealed(run[p].attempt, Log(p), Files(p), Proposed(p))
         /\ \A e \in ToSet(Log(p)) : e.kind \in Kinds /\ Rank[e.kind] \in 1..6
         /\ \E S : Log(p) \in Seq(S)
<1>1. /\ Shape /\ run[p].attempt \in Attempts /\ run[p].attempt \in claims
      /\ run[p].pc # "done"
      /\ RunOK(run[p], Log(p), Files(p), Proposed(p), Asked(p), Readable)
      /\ Told(run[p], Log(p))
  BY DEF Inv, ProcessOK, Working, Recording, Slots, Log, Files, Proposed, Asked
<1>2. AttemptOK(run[p].attempt)
  BY <1>1 DEF Inv
<1>3. /\ Story(Log(p)) /\ Sealed(run[p].attempt, Log(p), Files(p), Proposed(p))
  BY <1>2 DEF AttemptOK, Log, Files, Proposed
<1>4. \A e \in ToSet(Log(p)) : e.kind \in Kinds /\ Rank[e.kind] \in 1..6
  BY <1>3, Ranks DEF Story, ToSet
<1>5. \E S : Log(p) \in Seq(S)
  BY <1>3 DEF Story
<1> QED BY <1>1, <1>3, <1>4, <1>5 DEF Told

(* What is known of a run that is recording.                               *)
LEMMA AtRecord ==
  ASSUME Inv, NEW p \in Procs, run[p].pc \in Recording
  PROVE  LET r == run[p] k == run[p].pending.kind IN
         /\ k \in Kinds /\ Rank[k] \in 1..6 /\ Stage(r) = Rank[k]
         /\ PendingOK(r, Files(p))
         /\ \A e \in ToSet(Log(p)) : \/ Rank[e.kind] < Rank[k]
                                     \/ r.pc = "verify" /\ Rank[e.kind] = Rank[k]
         /\ k # "started" => Has(Log(p), "started")
         /\ k = "started" => Asked(p) = 0
         /\ k # "failed" => Backed(r, Log(p), Files(p)) /\ Proposing(r, Log(p), Proposed(p))
<1> DEFINE r == run[p]
           k == run[p].pending.kind
<1>1. r.pc \in Working
  BY DEF Working
<1>2. RunOK(r, Log(p), Files(p), Proposed(p), Asked(p), Readable)
  BY <1>1, Context
<1>3. PendingOK(r, Files(p)) /\ Stage(r) = Rank[k]
  <2>1. PendingOK(r, Files(p))
    BY <1>1, <1>2 DEF RunOK
  <2>2. Stage(r) = Rank[k]
    BY Zenon DEF Stage
  <2> QED BY <2>1, <2>2
<1>4. k \in Kinds /\ Rank[k] \in 1..6 /\ (k # "started" => Rank[k] > 1)
  BY <1>3, Ranks DEF PendingOK, Rank, Kinds
<1>5. k # "failed" => GoesOn(r)
  BY <1>1 DEF GoesOn, Recording
<1>6. k = "started" => Fresh(r)
  BY DEF Fresh
<1> QED BY <1>1, <1>2, <1>3, <1>4, <1>5, <1>6 DEF RunOK

(* The line goes to a clean ledger, or nowhere.                            *)
LEMMA Written ==
  ASSUME Inv, NEW p \in Procs, run[p].pc = "append",
         Write(run[p].attempt, run[p].pending)
  PROVE  /\ ledger'[run[p].attempt] \in {Log(p), Append(Log(p), run[p].pending)}
         /\ Readable' => Readable
         /\ \A a \in Attempts : a # run[p].attempt => ledger'[a] = ledger[a]
         /\ DOMAIN ledger' = Attempts
<1>1. run[p].attempt \in Attempts /\ DOMAIN ledger = Attempts
  BY Context DEF Working, Recording, Shape
<1>2. CASE tail = "clean"
  BY <1>1, <1>2 DEF Write, Log, Readable
<1>3. CASE tail # "clean"
  BY <1>1, <1>3 DEF Write, Log, Readable
<1> QED BY <1>2, <1>3

(* After the append the log holds what it held, and perhaps the event.     *)
LEMMA MoreEvents ==
  ASSUME Inv, NEW p \in Procs, run[p].pc = "append",
         NEW es, es \in {Log(p), Append(Log(p), run[p].pending)}
  PROVE  LET k == run[p].pending.kind IN
         /\ \A e \in ToSet(es) : /\ e \in ToSet(Log(p)) \/ e = run[p].pending
                                 /\ e.kind \in Kinds /\ Rank[e.kind] <= Rank[k]
                                 /\ Rank[e.kind] \in 1..6
         /\ \A h : Has(Log(p), h) => Has(es, h)
         /\ \A h : Has(es, h) => Has(Log(p), h) \/ h = k
<1> DEFINE k == run[p].pending.kind
<1>0. run[p].pc \in Working /\ run[p].pc \in Recording
  BY DEF Working, Recording
<1>1. PICK S : Log(p) \in Seq(S)
  BY <1>0, Context
<1>2. \A e \in ToSet(Log(p)) : e.kind \in Kinds /\ Rank[e.kind] \in 1..6 /\ Rank[e.kind] < Rank[k]
  BY <1>0, Context, AtRecord
<1>3. k \in Kinds /\ Rank[k] \in 1..6
  BY <1>0, AtRecord
<1>4. ToSet(es) \in {ToSet(Log(p)), ToSet(Log(p)) \union {run[p].pending}}
  <2> DEFINE d == run[p].pending
             log == Log(p)
  <2> HIDE DEF d, log
  <2>1. log \in Seq(S) /\ es \in {log, Append(log, d)}
    BY <1>1 DEF d, log
  <2>2. ToSet(Append(log, d)) = ToSet(log) \union {d}
    BY <2>1, Appending
  <2> QED BY <2>1, <2>2 DEF d, log
<1>5. \A e \in ToSet(es) : e \in ToSet(Log(p)) \/ e = run[p].pending
  BY <1>4
<1>6. \A e \in ToSet(Log(p)) : e \in ToSet(es)
  BY <1>4
<1>7. \A e \in ToSet(es) : e.kind \in Kinds /\ Rank[e.kind] <= Rank[k] /\ Rank[e.kind] \in 1..6
  BY <1>2, <1>3, <1>5
<1> QED BY <1>5, <1>6, <1>7 DEF Has

LEMMA RecordAppendOK ==
  ASSUME Inv, NEW p \in Procs, RecordAppend(p)
  PROVE  Mine(p)
<1> DEFINE a == run[p].attempt
           r == run[p]
           k == run[p].pending.kind
           es == ledger'[a]
<1>0. /\ r.pc = "append" /\ r.pc \in Working /\ r.pc \in Recording
      /\ Shape /\ a \in Attempts /\ r.report = NoValue
      /\ artifacts'[a] = Files(p) /\ proposals'[a] = Proposed(p) /\ asked'[a] = Asked(p)
  BY Context DEF RecordAppend, Working, Recording, Files, Proposed, Asked, files
<1>1. es \in {Log(p), Append(Log(p), r.pending)} /\ (Readable' => Readable)
  <2>1. Tear => es = Log(p) /\ ~Readable'
    BY DEF Tear, Log, Readable
  <2>2. UNCHANGED <<ledger, tail>> => es = Log(p) /\ Readable' = Readable
    BY DEF Log, Readable
  <2> QED BY <1>0, <2>1, <2>2, Written DEF RecordAppend
<1>2. /\ \A e \in ToSet(es) : /\ e \in ToSet(Log(p)) \/ e = r.pending
                              /\ e.kind \in Kinds /\ Rank[e.kind] <= Rank[k]
                              /\ Rank[e.kind] \in 1..6
      /\ \A h : Has(Log(p), h) => Has(es, h)
      /\ \A h : Has(es, h) => Has(Log(p), h) \/ h = k
  BY <1>0, <1>1, MoreEvents
<1>3. /\ k \in Kinds /\ Rank[k] \in 1..6 /\ Stage(r) = Rank[k]
      /\ PendingOK(r, Files(p))
      /\ k # "started" => Has(es, "started")
      /\ k = "started" => Asked(p) = 0
      /\ k # "failed" => Backed(r, Log(p), Files(p)) /\ Proposing(r, Log(p), Proposed(p))
  BY <1>0, <1>2, AtRecord
<1> HIDE DEF es
<1>4. CASE Goto(p, "verify")
  <2>1. /\ Moves(p) /\ Same(p) /\ run'[p].pc = "verify" /\ run'[p].pending = r.pending
    BY <1>0, <1>4, GotoIs
  <2>2. Stage(run'[p]) = Rank[k]
    BY <2>1 DEF Stage, Recording
  <2>3. PendingOK(run'[p], Files(p))
    BY <1>3, <2>1, TextSame DEF PendingOK, Same
  <2>4. \A e \in ToSet(es) : Rank[e.kind] < Rank[k] \/ Rank[e.kind] = Rank[k]
    BY <1>2, <1>3
  <2>5. Rank[k] > 1 => Has(es, "started")
    BY <1>3, Ranks
  <2>6. Fresh(run'[p]) => Asked(p) = 0
    BY <1>3, <2>1 DEF Fresh
  <2>7. k # "failed" => Backed(run'[p], es, Files(p))
    <3>1. k # "failed" => Matches(r, es, Files(p))
      BY <1>2, <1>3 DEF Matches, Backed, PendingOK
    <3>2. k # "failed" => \A s \in Slots : Rank[s] < Rank[k] => Has(es, s)
      BY <1>2, <1>3 DEF Backed
    <3> QED BY <2>1, <2>2, <3>1, <3>2, TextSame DEF Backed
  <2>8. k # "failed" => Proposing(run'[p], es, Proposed(p))
    <3>1. Rank[k] = 6 /\ k # "failed" => k = "completed"
      BY <1>3 DEF Rank, Kinds
    <3> QED BY <1>0, <1>2, <1>3, <2>1, <2>2, <3>1 DEF Proposing, Same
  <2>9. GoesOn(run'[p]) => k # "failed"
    BY <2>1 DEF GoesOn, Recording
  <2>10. RunOK(run'[p], es, Files(p), Proposed(p), Asked(p), Readable')
    BY <2>1, <2>2, <2>3, <2>4, <2>5, <2>6, <2>7, <2>8, <2>9 DEF RunOK
  <2>11. Told(run'[p], es)
    BY <1>0, <2>1 DEF Told, Same
  <2> QED BY <1>0, <2>1, <2>10, <2>11 DEF OwnOK, Same, Mine, es
<1>5. CASE Unrecorded(p, k)
  <2>1. k \notin {"started", "completed", "failed"} =>
          (\A e \in ToSet(es) : Rank[e.kind] < 6) /\ Has(es, "started")
    <3>1. k \notin {"started", "completed", "failed"} => Rank[k] < 6
      BY <1>3 DEF Rank, Kinds
    <3>2. Rank[k] < 6 => \A e \in ToSet(es) : Rank[e.kind] < 6
      BY <1>2, <1>3
    <3> QED BY <1>3, <3>1, <3>2
  <2>2. OwnOK(p, es, Files(p), Proposed(p), Asked(p), Readable')
    BY <1>0, <1>2, <1>3, <1>5, <2>1, UnrecordedOK
  <2> QED BY <1>0, <2>2 DEF Mine, es
<1> QED BY <1>4, <1>5 DEF RecordAppend, AfterRecordError

(* The event is in the log: the run goes on, or is over.                   *)
LEMMA AfterRecordOK ==
  ASSUME Inv, NEW p \in Procs, run[p].pc = "verify", Readable,
         Contains(Log(p), run[p].pending), AfterRecord(p)
  PROVE  OwnOK(p, Log(p), Files(p), Proposed(p), Asked(p), Readable)
<1> DEFINE r == run[p]
           k == run[p].pending.kind
           es == Log(p)
<1>0. /\ r.pc \in Working /\ r.pc \in Recording
      /\ Shape /\ r.report = NoValue
  BY Context DEF Working, Recording
<1>1. /\ k \in Kinds /\ Rank[k] \in 1..6 /\ Stage(r) = Rank[k]
      /\ PendingOK(r, Files(p))
      /\ \A e \in ToSet(es) : e.kind \in Kinds /\ Rank[e.kind] \in 1..6 /\ Rank[e.kind] <= Rank[k]
      /\ k # "started" => Has(es, "started")
      /\ k = "started" => Asked(p) = 0
      /\ k # "failed" => Backed(r, es, Files(p)) /\ Proposing(r, es, Proposed(p))
  <2>1. \A e \in ToSet(es) : e.kind \in Kinds /\ Rank[e.kind] \in 1..6
    BY <1>0, Context
  <2>2. Rank[k] \in 1..6
    BY <1>0, AtRecord
  <2>3. \A e \in ToSet(es) : Rank[e.kind] < Rank[k] \/ Rank[e.kind] = Rank[k]
    BY <1>0, AtRecord
  <2>4. \A e \in ToSet(es) : Rank[e.kind] <= Rank[k]
    BY <2>1, <2>2, <2>3
  <2> QED BY <1>0, <2>1, <2>4, AtRecord
<1>2. Has(es, k)
  <2>1. PICK S : es \in Seq(S)
    BY <1>0, Context
  <2> QED BY <2>1 DEF Contains, Has, ToSet
<1> HIDE DEF es
<1> SUFFICES OwnOK(p, es, Files(p), Proposed(p), Asked(p), Readable)
  BY DEF es
<1>3. Rank[k] < 6 => \A e \in ToSet(es) : Rank[e.kind] < Rank[k] + 1
  BY <1>1
<1>4. ASSUME k \in {"started", "summary", "recap", "workflow"}
      PROVE  /\ Has(es, "started") /\ Matches(r, es, Files(p)) /\ Proposed(p) = NoValue
             /\ \A s \in Slots : Rank[s] < Rank[k] + 1 => Has(es, s)
  <2>1. Rank[k] <= 4 /\ k # "failed"
    BY <1>4, Ranks
  <2>2. ASSUME NEW s \in Slots, Rank[s] < Rank[k] + 1
        PROVE  Has(es, s)
    <3>1. Rank[s] \in 1..6 /\ s \in Kinds
      BY Ranks
    <3>2. CASE Rank[s] < Rank[k]
      BY <1>1, <2>1, <3>2 DEF Backed
    <3>3. CASE Rank[s] = Rank[k]
      <4>1. s = k
        BY <1>1, <1>4, <3>3, Ranks DEF Slots
      <4> QED BY <1>2, <4>1
    <3> QED BY <1>1, <2>2, <3>1, <3>2, <3>3
  <2> QED BY <1>1, <1>2, <1>4, <2>1, <2>2 DEF Backed, Proposing
<1>5. ASSUME k \in {"started", "summary", "recap", "workflow"}, 
             NEW l \in {"reload", "recap", "workflow", "propose"}, Goto(p, l), StageAt(l) = Rank[k] + 1,
             l = "propose" => r.ops # <<>>, l = "reload" => k = "started"
      PROVE  OwnOK(p, es, Files(p), Proposed(p), Asked(p), Readable)
  <2>1. Rank[k] < 6
    BY <1>5, Ranks
  <2>2. \A e \in ToSet(es) : Rank[e.kind] < StageAt(l)
    BY <1>3, <1>5, <2>1
  <2>3. \A s \in Slots : Rank[s] < StageAt(l) => Has(es, s)
    BY <1>4, <1>5
  <2>4. l = "reload" => Asked(p) = 0
    BY <1>1, <1>5
  <2> QED BY <1>0, <1>4, <1>5, <2>2, <2>3, <2>4, GoOnOK
<1>6. /\ StageAt("reload") = Rank["started"] + 1 /\ StageAt("recap") = Rank["summary"] + 1
      /\ StageAt("workflow") = Rank["recap"] + 1 /\ StageAt("propose") = Rank["workflow"] + 1
  BY Ranks, Stages
<1>7. /\ k = "started" /\ Goto(p, "reload") => OwnOK(p, es, Files(p), Proposed(p), Asked(p), Readable)
      /\ k = "summary" /\ Goto(p, "recap") => OwnOK(p, es, Files(p), Proposed(p), Asked(p), Readable)
      /\ k = "recap" /\ Goto(p, "workflow") => OwnOK(p, es, Files(p), Proposed(p), Asked(p), Readable)
  BY <1>5, <1>6
<1>8. CASE k = "workflow" /\ r.ops # <<>> /\ Goto(p, "propose")
  BY <1>5, <1>6, <1>8
<1>9. ASSUME (k = "workflow" /\ r.ops = <<>>) \/ k = "proposal", Complete(p)
      PROVE  OwnOK(p, es, Files(p), Proposed(p), Asked(p), Readable)
  <2>1. k # "failed" /\ Rank[k] \in {4, 5} /\ k # "started"
    BY <1>9, Ranks
  <2>2. \A e \in ToSet(es) : e.kind \in Kinds /\ Rank[e.kind] < Rank["completed"]
    BY <1>1, <2>1, Ranks
  <2>3. \A s \in Slots : Has(es, s)
    <3>1. CASE k = "workflow"
      BY <1>1, <1>4, <3>1, Ranks DEF Slots
    <3>2. CASE k = "proposal"
      BY <1>1, <2>1, <3>2, Ranks DEF Slots, Backed
    <3> QED BY <1>9, <3>1, <3>2
  <2>4. r.ops = <<>> => ~Has(es, "proposal") /\ Proposed(p) = NoValue
    <3>1. CASE k = "workflow"
      <4>1. \A e \in ToSet(es) : Rank[e.kind] <= 4
        BY <1>1, <3>1, Ranks
      <4>2. ~Has(es, "proposal")
        BY <4>1, Ranks DEF Has
      <4> QED BY <1>4, <3>1, <4>2
    <3>2. CASE k = "proposal"
      <4>1. r.ops # <<>>
        BY <1>1, <2>1, <3>2, Ranks DEF Proposing
      <4> QED BY <4>1
    <3> QED BY <1>9, <3>1, <3>2
  <2>5. r.ops # <<>> => Has(es, "proposal") /\ Proposed(p) = r.ops
    BY <1>0, <1>1, <1>2, <1>9, <2>1, Ranks DEF Proposing
  <2>6. Ready(r, "completed", es, Files(p), Proposed(p))
    BY <1>1, <2>1, <2>2, <2>3, <2>4, <2>5, Ranks DEF Ready, Backed
  <2>7. PICK body : body = [produced |-> r.ops # <<>>]
    OBVIOUS
  <2>8. Says(r, "completed", body, Files(p))
    BY <2>7 DEF Says, Slots
  <2>9. Record(p, "completed", body)
    BY <1>9, <2>7 DEF Complete
  <2> QED BY <1>0, <2>6, <2>8, <2>9, Ranks, RecordOK
<1>10. CASE k = "completed" /\ Goto(p, "finish")
  <2>1. Moves(p) /\ Same(p) /\ run'[p].pc = "finish"
    BY <1>0, <1>10, GotoIs
  <2>2. Stage(run'[p]) = 7 /\ ~GoesOn(run'[p]) /\ ~Fresh(run'[p]) /\ run'[p].pc \notin Recording
    BY <2>1, Stages DEF Stage, GoesOn, Fresh, Recording
  <2>3. \A e \in ToSet(es) : Rank[e.kind] < 7
    BY <1>1
  <2>4. RunOK(run'[p], es, Files(p), Proposed(p), Asked(p), Readable)
    BY <1>1, <1>2, <1>10, <2>1, <2>2, <2>3 DEF RunOK
  <2>5. Told(run'[p], es)
    BY <1>0, <2>1 DEF Told, Same
  <2> QED BY <2>1, <2>4, <2>5 DEF OwnOK, Same
<1>11. CASE k = "failed" /\ Report(p, "failed", "recorded")
  BY <1>0, <1>2, <1>11, ReportOK
<1>12. /\ k = "started" => Goto(p, "reload")
       /\ k = "summary" => Goto(p, "recap")
       /\ k = "recap" => Goto(p, "workflow")
       /\ k = "workflow" /\ r.ops = <<>> => Complete(p)
       /\ k = "workflow" /\ r.ops # <<>> => Goto(p, "propose")
       /\ k = "proposal" => Complete(p)
       /\ k = "completed" => Goto(p, "finish")
       /\ k = "failed" => Report(p, "failed", "recorded")
  BY DEF AfterRecord
<1>13. k \in {"started", "summary", "recap", "workflow", "proposal", "completed", "failed"}
  BY <1>1 DEF Kinds
<1>14. CASE k \in {"started", "summary", "recap"}
  <2>1. CASE k = "started"
    BY <1>7, <1>12, <2>1
  <2>2. CASE k = "summary"
    BY <1>7, <1>12, <2>2
  <2>3. CASE k = "recap"
    BY <1>7, <1>12, <2>3
  <2> QED BY <1>14, <2>1, <2>2, <2>3
<1>15. CASE k \in {"workflow", "proposal"}
  BY <1>8, <1>9, <1>12, <1>15
<1>16. CASE k \in {"completed", "failed"}
  BY <1>10, <1>11, <1>12, <1>16
<1> QED BY <1>13, <1>14, <1>15, <1>16

LEMMA RecordVerifyOK ==
  ASSUME Inv, NEW p \in Procs, RecordVerify(p)
  PROVE  Mine(p)
<1> DEFINE r == run[p]
           k == run[p].pending.kind
<1>0. /\ r.pc = "verify" /\ r.pc \in Working /\ r.pc \in Recording
      /\ Shape /\ r.report = NoValue
      /\ ledger'[r.attempt] = Log(p) /\ artifacts'[r.attempt] = Files(p)
      /\ proposals'[r.attempt] = Proposed(p) /\ asked'[r.attempt] = Asked(p)
      /\ Readable' = Readable
  BY Context DEF RecordVerify, Unchanged, Working, Recording, Log, Files, Proposed, Asked,
     files, Readable
<1>1. CASE Readable /\ Contains(Log(p), r.pending) /\ AfterRecord(p)
  BY <1>0, <1>1, AfterRecordOK DEF Mine
<1>2. CASE Unrecorded(p, k)
  <2>1. /\ k \in Kinds /\ Rank[k] \in 1..6
        /\ \A e \in ToSet(Log(p)) : Rank[e.kind] < Rank[k] \/ Rank[e.kind] = Rank[k]
        /\ k # "started" => Has(Log(p), "started")
    BY <1>0, AtRecord
  <2>2. \A e \in ToSet(Log(p)) : e.kind \in Kinds /\ Rank[e.kind] \in 1..6
    BY <1>0, Context
  <2>3. k \notin {"started", "completed", "failed"} =>
          (\A e \in ToSet(Log(p)) : Rank[e.kind] < 6) /\ Has(Log(p), "started")
    <3>1. k \notin {"started", "completed", "failed"} => Rank[k] < 6
      BY <2>1 DEF Rank, Kinds
    <3> QED BY <2>1, <2>2, <3>1
  <2>4. OwnOK(p, Log(p), Files(p), Proposed(p), Asked(p), Readable)
    BY <1>0, <1>2, <2>1, <2>2, <2>3, UnrecordedOK
  <2> QED BY <1>0, <2>4 DEF Mine
<1> QED BY <1>1, <1>2 DEF RecordVerify, AfterRecordError, EventsOf, Log

LEMMA RereadOK ==
  ASSUME Inv, NEW p \in Procs, Reread(p)
  PROVE  Mine(p)
<1> DEFINE r == run[p]
<1>0. /\ r.pc = "uncertain" /\ r.pc \in Working /\ Shape /\ r.report = NoValue
      /\ ledger'[r.attempt] = Log(p) /\ artifacts'[r.attempt] = Files(p)
      /\ proposals'[r.attempt] = Proposed(p) /\ asked'[r.attempt] = Asked(p)
      /\ Readable' = Readable
      /\ RunOK(r, Log(p), Files(p), Proposed(p), Asked(p), Readable)
      /\ \A e \in ToSet(Log(p)) : Rank[e.kind] \in 1..6
  BY Context DEF Reread, Unchanged, Working, Recording, Log, Files, Proposed, Asked,
     files, Readable
<1>1. CASE Readable /\ Contains(Log(p), r.pending) /\ Goto(p, "finish")
  <2>1. Moves(p) /\ Same(p) /\ run'[p].pc = "finish"
    BY <1>0, <1>1, GotoIs
  <2>2. Stage(run'[p]) = 7 /\ ~GoesOn(run'[p]) /\ ~Fresh(run'[p]) /\ run'[p].pc \notin Recording
    BY <2>1, Stages DEF Stage, GoesOn, Fresh, Recording
  <2>3. Has(Log(p), "completed") /\ Has(Log(p), "started")
    <3>1. r.pending.kind = "completed"
      BY <1>0, <1>1 DEF RunOK
    <3>2. Stage(r) = 7
      BY <1>0, Stages DEF Stage, Recording
    <3>3. Has(Log(p), "started")
      BY <1>0, <3>2 DEF RunOK
    <3>4. PICK S : Log(p) \in Seq(S)
      BY <1>0, Context
    <3> QED BY <1>1, <3>1, <3>3, <3>4 DEF Contains, Has, ToSet
  <2>4. \A e \in ToSet(Log(p)) : Rank[e.kind] < 7
    BY <1>0
  <2>5. RunOK(run'[p], Log(p), Files(p), Proposed(p), Asked(p), Readable)
    BY <2>1, <2>2, <2>3, <2>4 DEF RunOK
  <2>6. Told(run'[p], Log(p))
    BY <1>0, <2>1 DEF Told, Same
  <2> QED BY <1>0, <2>1, <2>5, <2>6 DEF OwnOK, Same, Mine
<1>2. CASE Report(p, "failed", "terminal_append_uncertain")
  BY <1>0, <1>2, ReportOK DEF Mine
<1> QED BY <1>1, <1>2 DEF Reread, EventsOf, Log

(* What is known of a run at its work.                                     *)
AtWorks == {"reload", "extract", "produce", "preflight", "summary", "recap", "workflow", "propose"}

LEMMA AtWork ==
  ASSUME Inv, NEW p \in Procs, run[p].pc \in AtWorks
  PROVE  /\ run[p].pc \in Working /\ Shape /\ run[p].report = NoValue
         /\ StageAt(run[p].pc) \in 2..5
         /\ \A e \in ToSet(Log(p)) : /\ Rank[e.kind] < StageAt(run[p].pc)
                                     /\ e.kind \in Kinds /\ Rank[e.kind] < 6
         /\ Has(Log(p), "started")
         /\ \A s \in Slots : Rank[s] < StageAt(run[p].pc) => Has(Log(p), s)
         /\ Matches(run[p], Log(p), Files(p))
         /\ Proposed(p) = NoValue
         /\ run[p].pc = "propose" => run[p].ops # <<>>
         /\ run[p].pc \in {"reload", "extract"} => Asked(p) = 0
<1> DEFINE r == run[p]
<1>1. r.pc \in Working /\ r.pc \notin Recording /\ GoesOn(r)
      /\ Stage(r) = StageAt(r.pc) /\ StageAt(r.pc) \in 2..5
      /\ (StageAt(r.pc) = 5 <=> r.pc = "propose") /\ r.pc # "verify"
  BY DEF AtWorks, Working, Recording, GoesOn, Slots, Stage, StageAt
<1>2. /\ Shape /\ r.report = NoValue
      /\ RunOK(r, Log(p), Files(p), Proposed(p), Asked(p), Readable)
      /\ \A e \in ToSet(Log(p)) : e.kind \in Kinds /\ Rank[e.kind] \in 1..6
  BY <1>1, Context
<1>3. /\ \A e \in ToSet(Log(p)) : Rank[e.kind] < StageAt(r.pc)
      /\ Has(Log(p), "started")
      /\ Backed(r, Log(p), Files(p)) /\ Proposing(r, Log(p), Proposed(p))
      /\ Fresh(r) => Asked(p) = 0
  BY <1>1, <1>2 DEF RunOK
<1>4. \A e \in ToSet(Log(p)) : Rank[e.kind] < 6
  BY <1>1, <1>2, <1>3
<1>5. Proposed(p) = NoValue /\ (r.pc = "propose" => r.ops # <<>>)
  BY <1>1, <1>3 DEF Proposing
<1> QED BY <1>1, <1>2, <1>3, <1>4, <1>5 DEF Backed, Fresh

LEMMA ReloadOK ==
  ASSUME Inv, NEW p \in Procs, Reload(p)
  PROVE  Mine(p)
<1>0. /\ run[p].pc = "reload" /\ run[p].pc \in AtWorks
      /\ ledger'[run[p].attempt] = Log(p) /\ artifacts'[run[p].attempt] = Files(p)
      /\ proposals'[run[p].attempt] = Proposed(p) /\ asked'[run[p].attempt] = Asked(p)
      /\ Readable' = Readable
  BY DEF Reload, Unchanged, AtWorks, Log, Files, Proposed, Asked, files, Readable
<1>1. CASE Goto(p, "extract")
  <2>1. StageAt("extract") = StageAt("reload")
    BY Stages
  <2>2. OwnOK(p, Log(p), Files(p), Proposed(p), Asked(p), Readable)
    BY <1>0, <1>1, <2>1, AtWork, GoOnOK
  <2> QED BY <1>0, <2>2 DEF Mine
<1>2. CASE \/ Report(p, "interrupted", "attempt_start_uncertain")
           \/ Report(p, "interrupted", "attempt_claim_race")
  <2>1. OwnOK(p, Log(p), Files(p), Proposed(p), Asked(p), Readable)
    BY <1>0, <1>2, AtWork, ReportOK
  <2> QED BY <1>0, <2>1 DEF Mine
<1> QED BY <1>1, <1>2 DEF Reload

(* Until the summary is recorded, the log holds the start alone.           *)
LEMMA EarlyOK ==
  ASSUME Inv, NEW p \in Procs, run[p].pc \in {"extract", "produce"},
         NEW l \in {"produce", "preflight"}, NEW n,
         Moves(p), run'[p].pc = l, run'[p].attempt = run[p].attempt,
         run'[p].prepared = run[p].prepared, run'[p].report = run[p].report
  PROVE  OwnOK(p, Log(p), Files(p), Proposed(p), n, Readable)
<1> DEFINE es == Log(p)
           r == run'[p]
<1>1. /\ run[p].pc \in AtWorks /\ StageAt(run[p].pc) = 2 /\ StageAt(l) = 2
  BY Stages DEF AtWorks
<1>2. /\ run[p].report = NoValue /\ Has(es, "started") /\ Matches(run[p], es, Files(p))
      /\ Proposed(p) = NoValue
      /\ \A e \in ToSet(es) : Rank[e.kind] < 2 /\ e.kind \in Kinds
  BY <1>1, AtWork
<1>3. \A e \in ToSet(es) : e.kind = "started"
  BY <1>2, Ranks DEF Kinds
<1>4. Matches(r, es, Files(p))
  BY <1>2, <1>3 DEF Matches, Slots
<1>5. Stage(r) = 2 /\ r.pc \notin Recording /\ r.pc \notin {"reload", "extract", "finish",
        "uncertain", "done", "idle", "propose", "verify"}
  BY <1>1 DEF Stage, Recording
<1>6. \A s \in Slots : ~(Rank[s] < 2)
  BY Ranks DEF Slots
<1>7. Backed(r, es, Files(p)) /\ Proposing(r, es, Proposed(p))
  BY <1>2, <1>4, <1>5, <1>6 DEF Backed, Proposing
<1>8. RunOK(r, es, Files(p), Proposed(p), n, Readable)
  BY <1>2, <1>5, <1>7 DEF RunOK, Fresh
<1>9. Told(r, es)
  BY <1>2, <1>5 DEF Told
<1> QED BY <1>5, <1>8, <1>9 DEF OwnOK

LEMMA ExtractOK ==
  ASSUME Inv, NEW p \in Procs, Extract(p)
  PROVE  Mine(p)
<1>0. /\ run[p].pc = "extract" /\ run[p].pc \in AtWorks
      /\ ledger'[run[p].attempt] = Log(p) /\ artifacts'[run[p].attempt] = Files(p)
      /\ proposals'[run[p].attempt] = Proposed(p) /\ Readable' = Readable
  BY DEF Extract, AtWorks, Log, Files, Proposed, files, Readable
<1> DEFINE n == asked'[run[p].attempt]
<1> HIDE DEF n
<1>1. ASSUME NEW x, run' = [run EXCEPT ![p].pc = "produce", ![p].accepted = x]
      PROVE  OwnOK(p, Log(p), Files(p), Proposed(p), n, Readable)
  <2>1. /\ Moves(p) /\ run'[p].pc = "produce" /\ run'[p].attempt = run[p].attempt
        /\ run'[p].prepared = run[p].prepared /\ run'[p].report = run[p].report
    BY <1>0, <1>1, AtWork DEF Shape, Idle, Moves
  <2> QED BY <1>0, <2>1, EarlyOK
<1>2. ASSUME Fail(p, "extraction")
      PROVE  OwnOK(p, Log(p), Files(p), Proposed(p), n, Readable)
  BY <1>0, <1>2, AtWork, FailOK
<1>3. OwnOK(p, Log(p), Files(p), Proposed(p), n, Readable)
  BY <1>1, <1>2 DEF Extract, ModelError
<1> QED BY <1>0, <1>3 DEF Mine, n

LEMMA ProduceOK ==
  ASSUME Inv, NEW p \in Procs, Produce(p)
  PROVE  Mine(p)
<1>0. /\ run[p].pc = "produce" /\ run[p].pc \in AtWorks
      /\ ledger'[run[p].attempt] = Log(p) /\ artifacts'[run[p].attempt] = Files(p)
      /\ proposals'[run[p].attempt] = Proposed(p) /\ asked'[run[p].attempt] = Asked(p)
      /\ Readable' = Readable
  BY DEF Produce, Unchanged, AtWorks, Log, Files, Proposed, Asked, files, Readable
<1>1. PICK ops : run' = [run EXCEPT ![p].pc = "preflight", ![p].ops = ops]
  BY DEF Produce
<1>2. /\ Moves(p) /\ run'[p].pc = "preflight" /\ run'[p].attempt = run[p].attempt
      /\ run'[p].prepared = run[p].prepared /\ run'[p].report = run[p].report
  BY <1>0, <1>1, AtWork DEF Shape, Idle, Moves
<1>3. OwnOK(p, Log(p), Files(p), Proposed(p), Asked(p), Readable)
  BY <1>0, <1>2, EarlyOK
<1> QED BY <1>0, <1>3 DEF Mine

LEMMA PreflightOK ==
  ASSUME Inv, NEW p \in Procs, Preflight(p)
  PROVE  Mine(p)
<1>0. /\ run[p].pc = "preflight" /\ run[p].pc \in AtWorks
      /\ ledger'[run[p].attempt] = Log(p) /\ artifacts'[run[p].attempt] = Files(p)
      /\ proposals'[run[p].attempt] = Proposed(p) /\ asked'[run[p].attempt] = Asked(p)
      /\ Readable' = Readable
  BY DEF Preflight, Unchanged, AtWorks, Log, Files, Proposed, Asked, files, Readable
<1>1. CASE Goto(p, "summary")
  <2>1. StageAt("summary") = StageAt("preflight")
    BY Stages
  <2>2. OwnOK(p, Log(p), Files(p), Proposed(p), Asked(p), Readable)
    BY <1>0, <1>1, <2>1, AtWork, GoOnOK
  <2> QED BY <1>0, <2>2 DEF Mine
<1>2. CASE Fail(p, "rendering") \/ Fail(p, "validation")
  <2>1. OwnOK(p, Log(p), Files(p), Proposed(p), Asked(p), Readable)
    BY <1>0, <1>2, AtWork, FailOK
  <2> QED BY <1>0, <2>1 DEF Mine
<1> QED BY <1>1, <1>2 DEF Preflight, Render

(* Slots are written in their order.                                       *)
LEMMA ArtifactOK ==
  ASSUME Inv, NEW p \in Procs, NEW slot \in Slots, PersistArtifact(p, slot)
  PROVE  Mine(p)
<1> DEFINE r == run[p]
           a == run[p].attempt
           art == artifacts'[a]
           text == Content(p, slot)
<1>0. /\ r.pc = slot /\ r.pc \in AtWorks /\ StageAt(slot) = Rank[slot]
      /\ ledger'[a] = Log(p) /\ proposals'[a] = Proposed(p) /\ asked'[a] = Asked(p)
      /\ Readable' = Readable
  BY Ranks, Stages DEF PersistArtifact, Slots, AtWorks, Log, Proposed, Asked, Readable
<1>1. /\ Shape /\ a \in Attempts /\ r.report = NoValue
      /\ \A e \in ToSet(Log(p)) : /\ Rank[e.kind] < Rank[slot]
                                  /\ e.kind \in Kinds /\ Rank[e.kind] < 6
      /\ Has(Log(p), "started")
      /\ \A s \in Slots : Rank[s] < Rank[slot] => Has(Log(p), s)
      /\ Matches(r, Log(p), Files(p))
      /\ Proposed(p) = NoValue
  BY <1>0, AtWork, Context
<1>2. CASE /\ SetArtifact(p, slot, text)
           /\ Record(p, slot, [content |-> text])
  <2>1. art[slot] = text /\ \A s \in Slots : s # slot => art[s] = Files(p)[s]
    BY <1>1, <1>2 DEF SetArtifact, Shape, Files
  <2>2. text = Text(r, slot)
    <3>1. CASE slot = "summary"
      BY <3>1 DEF Content, Text
    <3>2. CASE slot = "recap"
      BY <3>2 DEF Content, Text
    <3>3. CASE slot = "workflow"
      BY <3>3 DEF Content, Text
    <3> QED BY <3>1, <3>2, <3>3 DEF Slots
  <2>3. Matches(r, Log(p), art)
    <3>1. \A e \in ToSet(Log(p)) : e.kind # slot
      BY <1>1, Ranks
    <3> HIDE DEF text, art
    <3> QED BY <1>1, <2>1, <3>1 DEF Matches
  <2>4. PICK body : body = [content |-> text]
    OBVIOUS
  <2>5. Says(r, slot, body, art)
    <3>1. slot \notin {"started", "proposal", "completed"}
      BY DEF Slots
    <3> HIDE DEF text, art
    <3>2. body.content = text
      BY <2>4
    <3> QED BY <2>1, <2>2, <3>1, <3>2 DEF Says
  <2>6. Ready(r, slot, Log(p), art, Proposed(p))
    <3>1. Rank[slot] <= 4 /\ slot \notin {"started", "proposal", "completed"}
      BY Ranks DEF Slots
    <3> QED BY <1>1, <2>3, <3>1 DEF Ready
  <2>7. slot \in Kinds /\ slot # "failed" /\ slot # "started"
    BY Ranks DEF Slots
  <2>8. OwnOK(p, Log(p), art, Proposed(p), Asked(p), Readable)
    <3> HIDE DEF text, art
    <3>1. Record(p, slot, body)
      BY <1>2, <2>4
    <3> QED BY <1>1, <2>5, <2>6, <2>7, <3>1, RecordOK
  <2> QED BY <1>0, <2>8 DEF Mine
<1>3. CASE Fail(p, "persistence")
  <2>1. OwnOK(p, Log(p), art, Proposed(p), Asked(p), Readable)
    <3> HIDE DEF art
    <3> QED BY <1>1, <1>3, FailOK
  <2> QED BY <1>0, <2>1 DEF Mine
<1> QED BY <1>2, <1>3 DEF PersistArtifact

LEMMA ProposalOK ==
  ASSUME Inv, NEW p \in Procs, PersistProposal(p)
  PROVE  Mine(p)
<1> DEFINE r == run[p]
           a == run[p].attempt
           prop == proposals'[a]
<1>0. /\ r.pc = "propose" /\ r.pc \in AtWorks /\ StageAt(r.pc) = 5
      /\ ledger'[a] = Log(p) /\ artifacts'[a] = Files(p) /\ asked'[a] = Asked(p)
      /\ Readable' = Readable
  BY Stages DEF PersistProposal, AtWorks, Log, Files, Asked, Readable
<1>1. /\ Shape /\ a \in Attempts /\ r.report = NoValue
      /\ \A e \in ToSet(Log(p)) : /\ Rank[e.kind] < 5
                                  /\ e.kind \in Kinds /\ Rank[e.kind] < 6
      /\ Has(Log(p), "started")
      /\ \A s \in Slots : Rank[s] < 5 => Has(Log(p), s)
      /\ Matches(r, Log(p), Files(p))
      /\ r.ops # <<>>
  BY <1>0, AtWork, Context
<1>2. CASE /\ proposals' = [proposals EXCEPT ![a] = r.ops]
           /\ Record(p, "proposal", [ops |-> r.ops])
  <2>1. prop = r.ops
    BY <1>1, <1>2 DEF Shape
  <2>2. PICK body : body = [ops |-> r.ops]
    OBVIOUS
  <2>3. Says(r, "proposal", body, Files(p))
    <3>1. body.ops = r.ops
      BY <2>2
    <3> QED BY <3>1 DEF Says, Slots
  <2>4. Ready(r, "proposal", Log(p), Files(p), prop)
    BY <1>1, <2>1, Ranks DEF Ready
  <2>5. OwnOK(p, Log(p), Files(p), prop, Asked(p), Readable)
    <3> HIDE DEF prop
    <3>1. Record(p, "proposal", body)
      BY <1>2, <2>2
    <3> QED BY <1>1, <2>3, <2>4, <3>1, Ranks, RecordOK
  <2> QED BY <1>0, <2>5 DEF Mine
<1>3. CASE Fail(p, "persistence")
  <2>1. OwnOK(p, Log(p), Files(p), prop, Asked(p), Readable)
    <3> HIDE DEF prop
    <3> QED BY <1>1, <1>3, FailOK
  <2> QED BY <1>0, <2>1 DEF Mine
<1> QED BY <1>2, <1>3 DEF PersistProposal, ProposalError

LEMMA FinishOK ==
  ASSUME Inv, NEW p \in Procs, Finish(p)
  PROVE  Mine(p)
<1>0. /\ run[p].pc = "finish" /\ run[p].pc \in Working /\ Shape
      /\ ledger'[run[p].attempt] = Log(p) /\ artifacts'[run[p].attempt] = Files(p)
      /\ proposals'[run[p].attempt] = Proposed(p) /\ asked'[run[p].attempt] = Asked(p)
      /\ Readable' = Readable
      /\ RunOK(run[p], Log(p), Files(p), Proposed(p), Asked(p), Readable)
  BY Context DEF Finish, Unchanged, Working, Log, Files, Proposed, Asked, files, Readable
<1>1. Has(Log(p), "completed")
  BY <1>0 DEF RunOK
<1>2. OwnOK(p, Log(p), Files(p), Proposed(p), Asked(p), Readable)
  BY <1>0, <1>1, ReportOK DEF Finish
<1> QED BY <1>0, <1>2 DEF Mine

-----------------------------------------------------------------------------
(* The steps of a run before its claim, and its death.                     *)

LEMMA Begun ==
  ASSUME Inv, NEW p \in Procs, run[p].pc # "idle"
  PROVE  /\ Shape /\ run[p].attempt \in Attempts /\ Story(Log(p))
         /\ run[p].pc \in Working => run[p].attempt \in claims
         /\ run[p].pc # "done" => run[p].report = NoValue
         /\ run[p].attempt \notin claims =>
              Log(p) = <<>> /\ Asked(p) = 0 /\ Proposed(p) = NoValue
<1>1. /\ Shape /\ run[p].attempt \in Attempts /\ Told(run[p], Log(p))
      /\ run[p].pc \in Working => run[p].attempt \in claims
  BY DEF Inv, ProcessOK, Log
<1>2. AttemptOK(run[p].attempt)
  BY <1>1 DEF Inv
<1> QED BY <1>1, <1>2 DEF AttemptOK, Told, Log, Asked, Proposed

(* A run that moves on without working has nothing to answer for.          *)
LEMMA NotYetOK ==
  ASSUME NEW p \in Procs, Moves(p), run'[p].attempt = run[p].attempt,
         run'[p].pc \in {"fold", "claim"}, run'[p].report = NoValue,
         NEW es, NEW art, NEW prop, NEW n, NEW clean
  PROVE  OwnOK(p, es, art, prop, n, clean) /\ run'[p].pc \notin Working
<1>1. run'[p].pc \notin Working /\ run'[p].pc \notin {"idle", "done"}
  BY DEF Working, Recording, Slots
<1> QED BY <1>1 DEF OwnOK, RunOK, Told

LEMMA PrepareOK ==
  ASSUME Inv, NEW p \in Procs, Prepare(p)
  PROVE  Mine(p) /\ run'[p].pc \notin Working
<1> DEFINE a == run[p].attempt
           es == ledger'[a]
           art == artifacts'[a]
           prop == proposals'[a]
           n == asked'[a]
           clean == Readable'
<1>0. run[p].pc = "prepare" /\ Shape /\ run[p].report = NoValue
  BY Begun DEF Prepare
<1> HIDE DEF es, art, prop, n, clean
<1>1. CASE Report(p, "failed", "context")
  <2>1. OwnOK(p, es, art, prop, n, clean)
    BY <1>0, <1>1, ReportOK
  <2>2. run'[p].pc = "done"
    BY <1>0, <1>1, ReportIs
  <2> QED BY <2>1, <2>2 DEF Mine, es, art, prop, n, clean, Working, Recording, Slots
<1>2. ASSUME NEW x, run' = [run EXCEPT ![p].pc = "fold", ![p].seen = NoValue, ![p].prepared = x]
      PROVE  Mine(p) /\ run'[p].pc \notin Working
  <2>1. /\ Moves(p) /\ run'[p].attempt = run[p].attempt /\ run'[p].pc = "fold"
        /\ run'[p].report = NoValue
    BY <1>0, <1>2 DEF Shape, Idle, Moves
  <2>2. OwnOK(p, es, art, prop, n, clean) /\ run'[p].pc \notin Working
    BY <2>1, NotYetOK
  <2> QED BY <2>2 DEF Mine, es, art, prop, n, clean
<1> QED BY <1>1, <1>2 DEF Prepare

(* What the history says is what is reported.                              *)
LEMMA FoldHistoryOK ==
  ASSUME Inv, NEW p \in Procs, FoldHistory(p)
  PROVE  Mine(p) /\ run'[p].pc \notin Working
<1> DEFINE a == run[p].attempt
           es == ledger'[a]
           art == artifacts'[a]
           prop == proposals'[a]
           n == asked'[a]
           clean == Readable'
           Fine == OwnOK(p, es, art, prop, n, clean) /\ run'[p].pc \notin Working
<1>0. /\ run[p].pc = "fold" /\ Shape /\ run[p].report = NoValue
      /\ Story(ledger[a]) /\ es = ledger[a]
  BY Begun DEF FoldHistory, Unchanged, Log
<1>1. /\ StateOf(a) = "completed" => Has(es, "completed")
      /\ StateOf(a) = "failed" => Has(es, "failed")
  BY <1>0, StateIs
<1> HIDE DEF es, art, prop, n, clean
<1>2. ASSUME NEW st, NEW why, Report(p, st, why),
             st \in {"completed", "already_terminal"} => Has(es, "completed"),
             st = "failed" /\ why = "recorded" => Has(es, "failed")
      PROVE  Fine
  <2>1. OwnOK(p, es, art, prop, n, clean)
    BY <1>0, <1>2, ReportOK
  <2>2. run'[p].pc = "done"
    BY <1>0, <1>2, ReportIs
  <2> QED BY <2>1, <2>2 DEF Working, Recording, Slots
<1>3. ASSUME Goto(p, "claim")
      PROVE  Fine
  <2>1. /\ Moves(p) /\ run'[p].attempt = run[p].attempt /\ run'[p].pc = "claim"
        /\ run'[p].report = NoValue
    BY <1>0, <1>3, GotoIs DEF Same
  <2> QED BY <2>1, NotYetOK
<1> HIDE DEF Fine
<1>4. /\ Report(p, "failed", "ledger_unreadable") => Fine
      /\ Report(p, "failed", "ledger_conflict") => Fine
      /\ Report(p, "failed", "fingerprint_mismatch") => Fine
      /\ Report(p, "failed", "terminal_evidence") => Fine
      /\ Report(p, "interrupted", StateOf(a)) => Fine
  BY <1>2
<1>5. /\ StateOf(a) = "completed" /\ Report(p, "already_terminal", "completed") => Fine
      /\ StateOf(a) = "failed" /\ Report(p, "failed", "recorded") => Fine
  BY <1>1, <1>2
<1>6. Fine
  BY <1>3, <1>4, <1>5 DEF FoldHistory
<1> QED BY <1>6 DEF Mine, Fine, es, art, prop, n, clean

(* An attempt never claimed has no story yet.                              *)
LEMMA ClaimOK ==
  ASSUME Inv, NEW p \in Procs, Claim(p)
  PROVE  /\ Mine(p)
         /\ run'[p].pc \in Working => run[p].attempt \notin claims /\ run[p].attempt \in claims'
<1> DEFINE a == run[p].attempt
<1>0. /\ run[p].pc = "claim" /\ Shape /\ run[p].report = NoValue
      /\ ledger'[a] = Log(p) /\ artifacts'[a] = Files(p)
      /\ proposals'[a] = Proposed(p) /\ asked'[a] = Asked(p)
      /\ Readable' = Readable
  BY Begun DEF Claim, Log, Files, Proposed, Asked, Readable
<1>1. CASE Report(p, "interrupted", "attempt_claim_exists")
  <2>1. OwnOK(p, Log(p), Files(p), Proposed(p), Asked(p), Readable)
    BY <1>0, <1>1, ReportOK
  <2>2. run'[p].pc = "done"
    BY <1>0, <1>1, ReportIs
  <2> QED BY <1>0, <2>1, <2>2 DEF Mine, Working, Recording, Slots
<1>2. CASE /\ a \notin claims /\ claims' = claims \union {a}
           /\ Record(p, "started", [input |-> run[p].prepared])
  <2>1. Log(p) = <<>> /\ Asked(p) = 0 /\ Proposed(p) = NoValue
    BY <1>0, <1>2, Begun
  <2>2. PICK body : body = [input |-> run[p].prepared]
    OBVIOUS
  <2>3. Says(run[p], "started", body, Files(p))
    <3>1. body.input = run[p].prepared
      BY <2>2
    <3> QED BY <3>1 DEF Says, Slots
  <2>4. ToSet(Log(p)) = {}
    BY <2>1 DEF ToSet
  <2>5. Ready(run[p], "started", Log(p), Files(p), Proposed(p))
    <3>1. \A s \in Slots : Rank[s] > 1
      BY Ranks DEF Slots
    <3> QED BY <2>1, <2>4, <3>1, Ranks DEF Ready, Matches
  <2>6. OwnOK(p, Log(p), Files(p), Proposed(p), Asked(p), Readable)
    <3>1. Record(p, "started", body)
      BY <1>2, <2>2
    <3> QED BY <1>0, <2>1, <2>3, <2>5, <3>1, Ranks, RecordOK
  <2> QED BY <1>0, <1>2, <2>6 DEF Mine
<1>3. CASE Report(p, "failed", "claim_failed")
  <2>1. OwnOK(p, Log(p), Files(p), Proposed(p), Asked(p), Readable)
    BY <1>0, <1>3, ReportOK
  <2>2. run'[p].pc = "done"
    BY <1>0, <1>3, ReportIs
  <2> QED BY <1>0, <2>1, <2>2 DEF Mine, Working, Recording, Slots
<1> QED BY <1>1, <1>2, <1>3 DEF Claim

LEMMA CrashOK ==
  ASSUME Inv, NEW p \in Procs, Crash(p)
  PROVE  Mine(p) /\ run'[p].pc \notin Working
<1>1. run[p].pc # "idle" /\ Shape
  BY Begun DEF Crash
<1>2. /\ Moves(p) /\ run'[p].attempt = run[p].attempt /\ run'[p].pc = "done"
      /\ run'[p].report = NoValue
  BY <1>1 DEF Crash, Shape, Idle, Moves
<1>3. run'[p].pc \notin Working
  BY <1>2 DEF Working, Recording, Slots
<1> QED BY <1>2, <1>3 DEF Mine, OwnOK, RunOK, Told

-----------------------------------------------------------------------------
(* What a step does to its attempt, and to nobody else's.                  *)

Others(p) ==
  \A b \in Attempts : b # run[p].attempt =>
    /\ ledger'[b] = ledger[b] /\ artifacts'[b] = artifacts[b]
    /\ proposals'[b] = proposals[b] /\ asked'[b] = asked[b]

Kept(p) == LET a == run[p].attempt IN
  /\ ledger'[a] = ledger[a] /\ artifacts'[a] = artifacts[a]
  /\ proposals'[a] = proposals[a] /\ asked'[a] = asked[a]

Effect(p) == LET a == run[p].attempt IN
  /\ Mine(p) /\ Shape' /\ Others(p)
  /\ AttemptOK(a)'
  /\ \A h : Has(ledger[a], h) => Has(ledger'[a], h)
  /\ Readable' => Readable
  /\ claims \subseteq claims' /\ claims' \subseteq claims \union {a}
  /\ run'[p].pc \in Working => a \in claims'
  /\ run[p].pc \notin Working =>
       Kept(p) /\ (run'[p].pc \in Working => a \notin claims)

LEMMA ShapeKept ==
  ASSUME Inv, NEW p \in Procs, Mine(p),
         DOMAIN ledger' = DOMAIN ledger, DOMAIN proposals' = DOMAIN proposals,
         DOMAIN artifacts' = DOMAIN artifacts,
         \A a \in Attempts : DOMAIN artifacts'[a] = DOMAIN artifacts[a],
         asked' \in [Attempts -> Nat], claims' \subseteq Attempts
  PROVE  Shape'
<1>1. \A q \in Procs : DOMAIN run'[q] = DOMAIN Idle /\ DOMAIN run' = Procs
  BY DEF Mine, OwnOK, Moves, Inv, Shape
<1> QED BY <1>1 DEF Inv, Shape, Idle

(* A step that only moves its run.                                         *)
LEMMA QuietEffect ==
  ASSUME Inv, NEW p \in Procs, run[p].pc # "idle", Mine(p), Unchanged,
         run[p].pc \in Working \/ run'[p].pc \notin Working
  PROVE  Effect(p)
<1>1. /\ ledger' = ledger /\ artifacts' = artifacts /\ proposals' = proposals
      /\ asked' = asked /\ claims' = claims /\ tail' = tail
  BY DEF Unchanged, files
<1>2. run[p].attempt \in Attempts /\ (run[p].pc \in Working => run[p].attempt \in claims)
  BY Begun
<1>3. Shape'
  BY <1>1, ShapeKept DEF Inv, Shape
<1>4. AttemptOK(run[p].attempt)'
  BY <1>1, <1>2 DEF Inv, AttemptOK, Mine, OwnOK
<1>5. Kept(p) /\ Others(p) /\ (Readable' => Readable)
  BY <1>1 DEF Kept, Others, Readable
<1> QED BY <1>1, <1>2, <1>3, <1>4, <1>5 DEF Effect

(* A step of a working run that leaves the log without an end.             *)
LEMMA WorkEffect ==
  ASSUME Inv, NEW p \in Procs, run[p].pc \in Working, Mine(p), Shape', Others(p),
         claims' = claims, Readable' => Readable,
         ledger' = ledger, ~Has(Log(p), "completed"),
         asked'[run[p].attempt] <= 1
  PROVE  Effect(p)
<1> DEFINE a == run[p].attempt
<1>1. a \in Attempts /\ a \in claims /\ Story(ledger[a])
  BY Context DEF Log
<1>2. a' = a
  BY DEF Mine, OwnOK
<1>3. Story(ledger[a])' /\ Sealed(a, ledger[a], artifacts[a], proposals[a])'
  BY <1>1, <1>2 DEF Sealed, Log
<1>4. AttemptOK(a)'
  BY <1>1, <1>2, <1>3 DEF AttemptOK
<1> QED BY <1>1, <1>4 DEF Effect

LEMMA Unfinished ==
  ASSUME Inv, NEW p \in Procs, run[p].pc \in AtWorks
  PROVE  ~Has(Log(p), "completed")
BY AtWork, Ranks DEF Has

LEMMA ExtractEffect ==
  ASSUME Inv, NEW p \in Procs, Extract(p)
  PROVE  Effect(p)
<1> DEFINE a == run[p].attempt
<1>1. /\ run[p].pc = "extract" /\ run[p].pc \in AtWorks /\ run[p].pc \in Working
      /\ ledger' = ledger /\ artifacts' = artifacts /\ proposals' = proposals
      /\ claims' = claims /\ (Readable' => Readable)
      /\ asked' = [asked EXCEPT ![a] = @ + 1]
  BY DEF Extract, AtWorks, Working, files, Readable
<1>2. Shape /\ a \in Attempts /\ asked[a] = 0
  BY <1>1, AtWork, Context DEF Asked
<1>3. asked'[a] = 1 /\ asked' \in [Attempts -> Nat]
  BY <1>1, <1>2 DEF Shape
<1>4. Others(p)
  BY <1>1, <1>2 DEF Others, Shape
<1>5. Mine(p) /\ Shape'
  BY <1>1, <1>2, <1>3, ExtractOK, ShapeKept DEF Shape
<1> QED BY <1>1, <1>3, <1>4, <1>5, Unfinished, WorkEffect

LEMMA ArtifactEffect ==
  ASSUME Inv, NEW p \in Procs, NEW slot \in Slots, PersistArtifact(p, slot)
  PROVE  Effect(p)
<1> DEFINE a == run[p].attempt
<1>1. /\ run[p].pc = slot /\ run[p].pc \in AtWorks /\ run[p].pc \in Working
      /\ ledger' = ledger /\ proposals' = proposals /\ asked' = asked
      /\ claims' = claims /\ (Readable' => Readable)
  BY DEF PersistArtifact, Slots, AtWorks, Working, files, Readable
<1>2. Shape /\ a \in Attempts /\ AttemptOK(a)
  BY <1>1, Context DEF Inv
<1>3. PICK x : artifacts' = [artifacts EXCEPT ![a][slot] = x] \/ artifacts' = artifacts
  BY DEF PersistArtifact, SetArtifact
<1>4. /\ DOMAIN artifacts' = DOMAIN artifacts
      /\ \A b \in Attempts : DOMAIN artifacts'[b] = DOMAIN artifacts[b]
      /\ \A b \in Attempts : b # a => artifacts'[b] = artifacts[b]
  BY <1>2, <1>3 DEF Shape
<1>5. Others(p)
  BY <1>1, <1>4 DEF Others
<1>6. Mine(p) /\ Shape'
  BY <1>1, <1>2, <1>4, ArtifactOK, ShapeKept DEF Shape
<1>7. asked'[a] <= 1
  BY <1>1, <1>2 DEF AttemptOK
<1> QED BY <1>1, <1>5, <1>6, <1>7, Unfinished, WorkEffect

LEMMA ProposalEffect ==
  ASSUME Inv, NEW p \in Procs, PersistProposal(p)
  PROVE  Effect(p)
<1> DEFINE a == run[p].attempt
<1>1. /\ run[p].pc = "propose" /\ run[p].pc \in AtWorks /\ run[p].pc \in Working
      /\ ledger' = ledger /\ artifacts' = artifacts /\ asked' = asked
      /\ claims' = claims /\ (Readable' => Readable)
  BY DEF PersistProposal, AtWorks, Working, files, Readable
<1>2. Shape /\ a \in Attempts /\ AttemptOK(a)
  BY <1>1, Context DEF Inv
<1>3. PICK x : proposals' = [proposals EXCEPT ![a] = x] \/ proposals' = proposals
  BY DEF PersistProposal
<1>4. /\ DOMAIN proposals' = DOMAIN proposals
      /\ \A b \in Attempts : b # a => proposals'[b] = proposals[b]
  BY <1>2, <1>3 DEF Shape
<1>5. Others(p)
  BY <1>1, <1>4 DEF Others
<1>6. Mine(p) /\ Shape'
  BY <1>1, <1>2, <1>4, ProposalOK, ShapeKept DEF Shape
<1>7. asked'[a] <= 1
  BY <1>1, <1>2 DEF AttemptOK
<1> QED BY <1>1, <1>5, <1>6, <1>7, Unfinished, WorkEffect

(* The completed event seals what is on disk.                              *)
LEMMA Sealing ==
  ASSUME Inv, NEW p \in Procs, run[p].pc = "append", run[p].pending.kind = "completed"
  PROVE  Sealed(run[p].attempt, Append(Log(p), run[p].pending), Files(p), Proposed(p))
<1> DEFINE r == run[p]
           e0 == run[p].pending
           es == Append(Log(p), e0)
           art == Files(p)
           prop == Proposed(p)
<1>1. r.pc \in Working /\ r.pc \in Recording
  BY DEF Working, Recording
<1>2. PICK S : Log(p) \in Seq(S)
  BY <1>1, Context
<1>3. /\ Rank["completed"] = 6 /\ Stage(r) = 6
      /\ PendingOK(r, art) /\ Backed(r, Log(p), art) /\ Proposing(r, Log(p), prop)
      /\ \A e \in ToSet(Log(p)) : Rank[e.kind] < 6
  BY <1>1, AtRecord, Ranks
<1>4. /\ \A s \in Slots : Has(Log(p), s)
      /\ Matches(r, Log(p), art)
  <2>1. \A s \in Slots : Rank[s] < 6
    BY Ranks DEF Slots
  <2> QED BY <1>3, <2>1 DEF Backed
<1>5. ToSet(es) = ToSet(Log(p)) \union {e0} /\ \A k : Has(es, k) <=> Has(Log(p), k) \/ e0.kind = k
  BY <1>2, Appending, HasMore
<1>6. art["workflow"] = Text(r, "workflow")
  <2>1. "workflow" \in Slots
    BY DEF Slots
  <2>2. PICK e \in ToSet(Log(p)) : e.kind = "workflow"
    BY <1>4, <2>1 DEF Has
  <2> QED BY <1>4, <2>1, <2>2 DEF Matches
<1>7. /\ art["workflow"].attempt = r.attempt /\ art["workflow"].input = r.prepared
      /\ art["workflow"].ops = r.ops
  BY <1>6 DEF Text
<1>8. art["workflow"].produced = (r.ops # <<>>)
  BY <1>6 DEF Text
<1>9. /\ r.ops = <<>> => ~Has(Log(p), "proposal") /\ prop = NoValue
      /\ r.ops # <<>> => Has(Log(p), "proposal") /\ prop = r.ops
  BY <1>3 DEF Proposing
<1> HIDE DEF es, art, prop, e0
<1>10. ASSUME NEW e \in ToSet(es)
       PROVE  /\ e.kind = "started" => art["workflow"].input = e.body.input
              /\ e.kind \in Slots => art[e.kind] = e.body.content
              /\ e.kind = "proposal" => prop = e.body.ops /\ art["workflow"].ops = prop
              /\ e.kind = "completed" =>
                   /\ art["workflow"].produced = e.body.produced
                   /\ e.body.produced => Has(es, "proposal")
                   /\ ~e.body.produced => ~Has(es, "proposal") /\ prop = NoValue
  <2>1. CASE e \in ToSet(Log(p))
    <3>1. e.kind # "completed"
      BY <1>3, <2>1
    <3>2. e.kind = "proposal" => prop = r.ops /\ e.body.ops = r.ops
      <4>1. e.kind = "proposal" => Has(Log(p), "proposal")
        BY <2>1 DEF Has
      <4> QED BY <1>4, <1>9, <2>1, <4>1 DEF Matches
    <3>3. e.kind = "started" => e.body.input = r.prepared
      BY <1>4, <2>1 DEF Matches
    <3>4. e.kind \in Slots => art[e.kind] = e.body.content
      BY <1>4, <2>1 DEF Matches
    <3> QED BY <1>7, <3>1, <3>2, <3>3, <3>4
  <2>2. CASE e = e0
    <3>1. e.kind = "completed" /\ e.kind \notin Slots /\ e.kind # "started" /\ e.kind # "proposal"
      BY <2>2 DEF e0, Slots
    <3>2. e.body.produced = (r.ops # <<>>)
      BY <1>3, <2>2, <3>1 DEF PendingOK, e0
    <3>3. art["workflow"].produced = e.body.produced
      BY <1>8, <3>2
    <3>4. Has(es, "proposal") <=> Has(Log(p), "proposal")
      BY <1>5, <2>2, <3>1
    <3>5. CASE r.ops = <<>>
      <4>1. ~e.body.produced
        BY <3>2, <3>5
      <4> QED BY <1>9, <3>1, <3>3, <3>4, <3>5, <4>1
    <3>6. CASE r.ops # <<>>
      <4>1. e.body.produced
        BY <3>2, <3>6
      <4> QED BY <1>9, <3>1, <3>3, <3>4, <3>6, <4>1
    <3> QED BY <3>5, <3>6
  <2> QED BY <1>5, <2>1, <2>2
<1>11. Sealed(r.attempt, es, art, prop)
  BY <1>4, <1>5, <1>7, <1>10 DEF Sealed
<1> QED BY <1>11 DEF es, art, prop, e0

LEMMA RecordAppendEffect ==
  ASSUME Inv, NEW p \in Procs, RecordAppend(p)
  PROVE  Effect(p)
<1> DEFINE a == run[p].attempt
           r == run[p]
           e0 == run[p].pending
           k == run[p].pending.kind
<1>1. /\ r.pc = "append" /\ r.pc \in Working /\ r.pc \in Recording
      /\ artifacts' = artifacts /\ proposals' = proposals
      /\ asked' = asked /\ claims' = claims
  BY DEF RecordAppend, Working, Recording, files
<1>2. /\ Shape /\ a \in Attempts /\ a \in claims /\ AttemptOK(a) /\ Story(Log(p))
      /\ Sealed(a, Log(p), Files(p), Proposed(p))
  BY <1>1, Context DEF Inv
<1>3. /\ ledger'[a] \in {Log(p), Append(Log(p), e0)} /\ (Readable' => Readable)
      /\ \A b \in Attempts : b # a => ledger'[b] = ledger[b]
      /\ DOMAIN ledger' = Attempts
  <2>1. Tear => ledger' = ledger /\ (Readable' => Readable)
    BY DEF Tear, Readable
  <2>2. UNCHANGED <<ledger, tail>> => ledger' = ledger /\ (Readable' => Readable)
    BY DEF Readable
  <2>3. (ledger' = ledger /\ (Readable' => Readable)) \/ Write(a, e0)
    BY <2>1, <2>2 DEF RecordAppend
  <2> QED BY <1>1, <1>2, <2>3, Written DEF Log, Shape
<1>4. Mine(p) /\ Shape' /\ Others(p)
  BY <1>1, <1>2, <1>3, RecordAppendOK, ShapeKept DEF Shape, Others
<1>5. \A h : Has(Log(p), h) => Has(ledger'[a], h)
  BY <1>1, <1>3, MoreEvents
<1>6. /\ k \in Kinds /\ \A e \in ToSet(Log(p)) : Rank[e.kind] < Rank[k]
      /\ Rank[k] > 1 => Has(Log(p), "started")
  BY <1>1, AtRecord, Ranks
<1>7. Story(ledger'[a])
  <2>1. Story(Append(Log(p), e0))
    <3> DEFINE es == Log(p)
    <3>1. /\ Story(es) /\ e0.kind \in Kinds /\ \A e \in ToSet(es) : Rank[e.kind] < Rank[e0.kind]
          /\ Rank[e0.kind] > 1 => Has(es, "started")
      BY <1>2, <1>6
    <3> HIDE DEF es, e0
    <3>2. Story(Append(es, e0))
      BY <3>1, StoryGoesOn
    <3> QED BY <3>2 DEF es
  <2> QED BY <1>2, <1>3, <2>1
<1>8. Sealed(a, ledger'[a], Files(p), Proposed(p))
  <2>1. CASE ledger'[a] = Log(p)
    BY <1>2, <2>1
  <2>2. CASE ledger'[a] = Append(Log(p), e0) /\ k = "completed"
    BY <1>1, <2>2, Sealing
  <2>3. CASE ledger'[a] = Append(Log(p), e0) /\ k # "completed"
    <3>1. ~Has(Log(p), "completed")
      BY <1>6, Ranks DEF Has
    <3>2. ~Has(ledger'[a], "completed")
      BY <1>1, <1>3, <2>3, <3>1, MoreEvents
    <3> QED BY <3>2 DEF Sealed
  <2> QED BY <1>3, <2>1, <2>2, <2>3
<1>9. AttemptOK(a)'
  <2>1. a' = a
    BY <1>4 DEF Mine, OwnOK
  <2> QED BY <1>1, <1>2, <1>7, <1>8, <2>1 DEF AttemptOK, Files, Proposed
<1> QED BY <1>1, <1>2, <1>3, <1>4, <1>5, <1>9 DEF Effect, Log

LEMMA ClaimEffect ==
  ASSUME Inv, NEW p \in Procs, Claim(p)
  PROVE  Effect(p)
<1> DEFINE a == run[p].attempt
<1>1. /\ run[p].pc = "claim" /\ run[p].pc \notin Working
      /\ ledger' = ledger /\ artifacts' = artifacts /\ proposals' = proposals
      /\ asked' = asked /\ tail' = tail /\ claims \subseteq claims'
      /\ claims' \subseteq claims \union {a}
  BY DEF Claim, Working, Recording, Slots
<1>2. Shape /\ a \in Attempts /\ AttemptOK(a)
  BY <1>1, Begun DEF Inv
<1>3. /\ Mine(p)
      /\ run'[p].pc \in Working => a \notin claims /\ a \in claims'
  BY ClaimOK
<1>4. Shape'
  BY <1>1, <1>2, <1>3, ShapeKept DEF Shape
<1>5. AttemptOK(a)'
  BY <1>1, <1>2, <1>3 DEF AttemptOK, Mine, OwnOK
<1>6. Kept(p) /\ Others(p) /\ (Readable' => Readable)
  BY <1>1 DEF Kept, Others, Readable
<1> QED BY <1>1, <1>3, <1>4, <1>5, <1>6 DEF Effect

LEMMA CrashEffect ==
  ASSUME Inv, NEW p \in Procs, Crash(p)
  PROVE  Effect(p)
<1> DEFINE a == run[p].attempt
<1>1. /\ run[p].pc # "idle" /\ Mine(p) /\ run'[p].pc \notin Working
      /\ ledger' = ledger /\ proposals' = proposals /\ asked' = asked /\ claims' = claims
      /\ Readable' => Readable
  BY CrashOK DEF Crash, Tear, files, Readable
<1>2. Shape /\ a \in Attempts /\ AttemptOK(a) /\ a' = a
  BY <1>1, Begun DEF Inv, Mine, OwnOK
<1>3. CASE artifacts' = artifacts
  <2>1. Shape'
    BY <1>1, <1>2, <1>3, ShapeKept DEF Shape
  <2>2. AttemptOK(a)'
    BY <1>1, <1>2, <1>3 DEF AttemptOK
  <2>3. Kept(p) /\ Others(p)
    BY <1>1, <1>3 DEF Kept, Others
  <2> QED BY <1>1, <2>1, <2>2, <2>3 DEF Effect
<1>4. CASE run[p].pc \in Slots /\ SetArtifact(p, run[p].pc, Partial)
  <2>1. /\ DOMAIN artifacts' = DOMAIN artifacts
        /\ \A b \in Attempts : DOMAIN artifacts'[b] = DOMAIN artifacts[b]
        /\ \A b \in Attempts : b # a => artifacts'[b] = artifacts[b]
    BY <1>2, <1>4 DEF Shape, SetArtifact
  <2>2. Shape' /\ Others(p)
    BY <1>1, <1>2, <2>1, ShapeKept DEF Shape, Others
  <2>3. run[p].pc \in AtWorks /\ run[p].pc \in Working
    BY <1>4 DEF Slots, AtWorks, Working
  <2>4. asked'[a] <= 1
    BY <1>1, <1>2 DEF AttemptOK
  <2> QED BY <1>1, <2>2, <2>3, <2>4, Unfinished, WorkEffect
<1> QED BY <1>3, <1>4 DEF Crash

-----------------------------------------------------------------------------
(* Every step keeps the invariant.                                         *)

LEMMA InvKept ==
  ASSUME Inv, NEW p \in Procs, run[p].pc # "idle", Effect(p)
  PROVE  Inv'
<1> DEFINE a == run[p].attempt
<1>1. /\ Shape /\ a \in Attempts /\ (run[p].pc \in Working => a \in claims)
  BY Begun
<1>2. /\ Mine(p) /\ Shape' /\ Others(p) /\ AttemptOK(a)'
      /\ \A h : Has(ledger[a], h) => Has(ledger'[a], h)
      /\ Readable' => Readable
      /\ claims \subseteq claims' /\ claims' \subseteq claims \union {a}
      /\ run'[p].pc \in Working => a \in claims'
      /\ run[p].pc \notin Working =>
           Kept(p) /\ (run'[p].pc \in Working => a \notin claims)
      /\ a' = a
  BY DEF Effect, Mine, OwnOK
<1>3. ASSUME NEW b \in Attempts
      PROVE  AttemptOK(b)'
  <2>1. CASE b = a
    BY <1>2, <2>1
  <2>2. CASE b # a
    BY <1>2, <2>2 DEF Inv, AttemptOK, Others
  <2> QED BY <2>1, <2>2
<1>4. ASSUME NEW q \in Procs
      PROVE  ProcessOK(q)'
  <2>1. CASE q = p
    BY <1>1, <1>2, <2>1 DEF Mine, OwnOK, ProcessOK
  <2>2. CASE q # p
    <3>1. run'[q] = run[q]
      BY <1>2, <2>2 DEF Mine, OwnOK, Moves
    <3>2. CASE run[q].pc = "idle"
      BY <3>1, <3>2 DEF Inv, ProcessOK
    <3>3. CASE run[q].pc # "idle"
      <4> DEFINE b == run[q].attempt
      <4>1. /\ b \in Attempts /\ (run[q].pc \in Working => b \in claims)
            /\ RunOK(run[q], ledger[b], artifacts[b], proposals[b], asked[b], Readable)
            /\ Told(run[q], ledger[b])
        BY <3>3 DEF Inv, ProcessOK
      <4>2. Told(run[q], ledger'[b])
        <5>1. \A h : Has(ledger[b], h) => Has(ledger'[b], h)
          BY <1>2, <4>1 DEF Others
        <5> QED BY <4>1, <5>1 DEF Told
      <4>3. RunOK(run[q], ledger'[b], artifacts'[b], proposals'[b], asked'[b], Readable')
        <5>1. CASE run[q].pc \notin Working
          BY <5>1 DEF RunOK
        <5>2. CASE run[q].pc \in Working
          <6>1. b = a => run[p].pc \notin Working
            BY <2>2, <5>2 DEF Inv, Exclusive
          <6>2. /\ ledger'[b] = ledger[b] /\ artifacts'[b] = artifacts[b]
                /\ proposals'[b] = proposals[b] /\ asked'[b] = asked[b]
            BY <1>2, <4>1, <6>1 DEF Others, Kept
          <6> QED BY <1>2, <4>1, <6>2 DEF RunOK
        <5> QED BY <5>1, <5>2
      <4>4. run[q].pc \in Working => b \in claims'
        BY <1>2, <4>1
      <4> QED BY <3>1, <3>3, <4>1, <4>2, <4>3, <4>4 DEF ProcessOK
    <3> QED BY <3>2, <3>3
  <2> QED BY <2>1, <2>2
<1>5. Exclusive'
  <2>1. ASSUME NEW q \in Procs, q # p, run[q].pc \in Working, run[q].attempt = a
        PROVE  run'[p].pc \notin Working
    <3>1. a \in claims /\ run[p].pc \notin Working
      BY <2>1 DEF Inv, ProcessOK, Exclusive, Working, Recording, Slots
    <3> QED BY <1>2, <3>1
  <2>2. \A q \in Procs : q # p => run'[q] = run[q]
    BY <1>2 DEF Mine, OwnOK, Moves
  <2>3. run'[p].attempt = a
    BY <1>2 DEF Mine, OwnOK
  <2> QED BY <2>1, <2>2, <2>3 DEF Inv, Exclusive
<1> QED BY <1>2, <1>3, <1>4, <1>5 DEF Inv

LEMMA StepKeeps ==
  ASSUME Inv, NEW p \in Procs, Step(p) \/ Crash(p)
  PROVE  Inv'
<1>1. run[p].pc # "idle"
  BY DEF Step, Prepare, FoldHistory, Claim, RecordAppend, RecordVerify, Reread, Reload,
     Extract, Produce, Preflight, PersistArtifact, PersistProposal, Finish, Crash, Slots
<1>2. ASSUME RecordVerify(p) \/ Reread(p) \/ Reload(p) \/ Produce(p) \/ Preflight(p) \/ Finish(p)
      PROVE  Effect(p)
  <2>1. run[p].pc \in Working
    BY <1>2 DEF RecordVerify, Reread, Reload, Produce, Preflight, Finish, Working, Recording
  <2>2. Unchanged
    BY <1>2 DEF RecordVerify, Reread, Reload, Produce, Preflight, Finish
  <2>3. Mine(p)
    BY <1>2, RecordVerifyOK, RereadOK, ReloadOK, ProduceOK, PreflightOK, FinishOK
  <2> QED BY <1>1, <2>1, <2>2, <2>3, QuietEffect
<1>3. ASSUME Prepare(p) \/ FoldHistory(p)
      PROVE  Effect(p)
  <2>1. Unchanged
    BY <1>3 DEF Prepare, FoldHistory
  <2> QED BY <1>1, <1>3, <2>1, PrepareOK, FoldHistoryOK, QuietEffect
<1>4. Effect(p)
  BY <1>2, <1>3, ClaimEffect, RecordAppendEffect, ExtractEffect, ArtifactEffect,
     ProposalEffect, CrashEffect DEF Step
<1> QED BY <1>1, <1>4, InvKept

(* A run that starts takes an attempt it may be given, and claims nothing. *)
LEMMA StartKeeps ==
  ASSUME Inv, NEW p \in Procs, NEW a \in AttemptsOf[p], Start(p, a)
  PROVE  Inv'
<1>1. /\ a \in Attempts /\ Shape
  BY PostSessionAssumption DEF Inv
<1>2. /\ ledger' = ledger /\ artifacts' = artifacts /\ proposals' = proposals
      /\ asked' = asked /\ claims' = claims /\ tail' = tail
  BY DEF Start, Unchanged, files
<1>3. run[p].pc = "idle" /\ run[p].report = NoValue
  BY DEF Inv, ProcessOK, Start
<1>4. /\ DOMAIN run' = Procs /\ DOMAIN run'[p] = DOMAIN Idle
      /\ \A q \in Procs : q # p => run'[q] = run[q]
      /\ run'[p].attempt = a
      /\ \/ run'[p].pc = "prepare" /\ run'[p].report = run[p].report
         \/ run'[p].pc = "done" /\ run'[p].report = [status |-> "ineligible", reason |-> "session"]
  BY <1>1 DEF Start, Shape, Idle
<1>5. run'[p].pc \notin Working /\ run'[p].pc # "idle"
  BY <1>4 DEF Working, Recording, Slots
<1>6. ProcessOK(p)'
  BY <1>1, <1>3, <1>4, <1>5 DEF ProcessOK, RunOK, Told
<1>7. \A q \in Procs : ProcessOK(q)'
  BY <1>2, <1>4, <1>6 DEF Inv, ProcessOK, Readable
<1>8. \A b \in Attempts : AttemptOK(b)'
  BY <1>2 DEF Inv, AttemptOK
<1>9. Shape' /\ Exclusive'
  BY <1>1, <1>2, <1>4, <1>5 DEF Inv, Shape, Exclusive, Idle
<1> QED BY <1>7, <1>8, <1>9 DEF Inv

LEMMA OthersKeep ==
  ASSUME Inv, UNCHANGED <<ledger, tail, files, run, asked>>
  PROVE  Inv'
<1>1. /\ ledger' = ledger /\ artifacts' = artifacts /\ proposals' = proposals
      /\ asked' = asked /\ claims' = claims /\ tail' = tail /\ run' = run
  BY DEF files
<1>2. Shape' /\ Exclusive'
  BY <1>1 DEF Inv, Shape, Exclusive
<1>3. \A a \in Attempts : AttemptOK(a)'
  BY <1>1 DEF Inv, AttemptOK
<1>4. \A p \in Procs : ProcessOK(p)'
  BY <1>1 DEF Inv, ProcessOK, Readable
<1> QED BY <1>2, <1>3, <1>4 DEF Inv

LEMMA InvStep == Inv /\ [Next]_vars => Inv'
<1> SUFFICES ASSUME Inv, [Next]_vars
             PROVE  Inv'
  OBVIOUS
<1>1. ASSUME NEW p \in Procs, Step(p) \/ Crash(p)
      PROVE  Inv'
  BY <1>1, StepKeeps
<1>2. ASSUME NEW p \in Procs, NEW a \in AttemptsOf[p], Start(p, a)
      PROVE  Inv'
  BY <1>2, StartKeeps
<1>3. CASE EditByHand
  BY <1>3, OthersKeep DEF EditByHand
<1>4. ASSUME NEW a \in Attempts, ApplyProposal(a)
      PROVE  Inv'
  BY <1>4, OthersKeep DEF ApplyProposal
<1>5. CASE UNCHANGED vars
  BY <1>5, OthersKeep DEF vars, files
<1> QED BY <1>1, <1>2, <1>3, <1>4, <1>5 DEF Next

LEMMA InvInit == Init => Inv
<1> SUFFICES ASSUME Init
             PROVE  Inv
  OBVIOUS
<1>1. Shape
  BY DEF Init, Shape, Idle
<1>2. ASSUME NEW a \in Attempts
      PROVE  AttemptOK(a)
  <2>1. ledger[a] = <<>> /\ asked[a] = 0 /\ proposals[a] = NoValue
    BY DEF Init
  <2>2. ToSet(ledger[a]) = {} /\ DOMAIN ledger[a] = {}
    BY <2>1 DEF ToSet
  <2>3. Story(ledger[a])
    <3>1. <<>> \in Seq({})
      OBVIOUS
    <3> QED BY <2>1, <2>2, <3>1 DEF Story
  <2>4. Sealed(a, ledger[a], artifacts[a], proposals[a])
    BY <2>2 DEF Sealed, Has
  <2> QED BY <2>1, <2>3, <2>4 DEF AttemptOK
<1>3. \A p \in Procs : run[p].pc = "idle" /\ run[p].report = NoValue
  BY DEF Init, Idle
<1>4. Exclusive /\ \A p \in Procs : ProcessOK(p)
  BY <1>3 DEF Exclusive, ProcessOK, Working, Recording, Slots
<1> QED BY <1>1, <1>2, <1>4 DEF Inv

THEOREM Invariance == Spec => []Inv
BY InvInit, InvStep, PTL DEF Spec

-----------------------------------------------------------------------------
(* What the invariant says of the properties.                              *)

(* However many processes run an attempt, the model is asked once for it   *)
(* and the ledger tells one story (claim_attempt, fold_attempt_events).    *)
THEOREM WorksOnce == Spec => []WorkedOnce
<1>1. Inv => WorkedOnce
  BY StateIs DEF Inv, AttemptOK, WorkedOnce
<1> QED BY <1>1, Invariance, PTL

(* An outcome reported as recorded is the attempt's terminal event         *)
(* (process_session's results).                                            *)
THEOREM TellsTheTruth == Spec => []ReportsTrue
<1>1. ASSUME Inv
      PROVE  ReportsTrue
  <2>1. ASSUME NEW p \in Procs, run[p].report # NoValue
        PROVE  /\ run[p].pc = "done" /\ run[p].attempt \in Attempts
               /\ Told(run[p], ledger[run[p].attempt]) /\ Story(ledger[run[p].attempt])
    <3>1. run[p].pc # "idle"
      BY <1>1, <2>1 DEF Inv, ProcessOK
    <3>2. run[p].attempt \in Attempts /\ Told(run[p], ledger[run[p].attempt])
      BY <1>1, <3>1 DEF Inv, ProcessOK
    <3>3. run[p].pc = "done"
      BY <2>1, <3>2 DEF Told
    <3> QED BY <1>1, <3>1, <3>2, <3>3, Begun DEF Log
  <2> QED BY <2>1, StateIs DEF ReportsTrue, Told
<1> QED BY <1>1, Invariance, PTL

(* Every artifact and proposal a completed attempt's events promise is on  *)
(* disk, whatever failed on the way (verify_terminal_integrity).           *)
THEOREM CompletedIsIntact == Spec => []CompletedVerifies
<1>1. ASSUME Inv, NEW a \in Attempts, StateOf(a) = "completed"
      PROVE  TerminalIntegrity(a)
  <2> DEFINE es == ledger[a]
  <2>1. /\ Story(es) /\ Sealed(a, es, artifacts[a], proposals[a])
    BY <1>1 DEF Inv, AttemptOK
  <2>2. Has(es, "completed")
    BY <1>1, <2>1, StateIs
  <2>3. /\ \A s \in Slots : Has(es, s)
        /\ artifacts[a]["workflow"].attempt = a
        /\ \A e \in ToSet(es) :
             /\ e.kind = "started" => artifacts[a]["workflow"].input = e.body.input
             /\ e.kind \in Slots => artifacts[a][e.kind] = e.body.content
             /\ e.kind = "proposal" => /\ proposals[a] = e.body.ops
                                       /\ artifacts[a]["workflow"].ops = proposals[a]
             /\ e.kind = "completed" =>
                  /\ artifacts[a]["workflow"].produced = e.body.produced
                  /\ e.body.produced => Has(es, "proposal")
                  /\ ~e.body.produced => ~Has(es, "proposal") /\ proposals[a] = NoValue
    BY <2>1, <2>2 DEF Sealed
  <2>4. \A k : /\ Recorded(a, k) <=> Has(es, k)
               /\ Has(es, k) => EventOf(a, k) \in ToSet(es) /\ EventOf(a, k).kind = k
    BY DEF Recorded, EventsOf, Has, EventOf
  <2>5. Has(es, "started")
    <3>1. PICK S : es \in Seq(S)
      BY <2>1 DEF Story
    <3>2. es # <<>>
      BY <2>2 DEF Has, ToSet
    <3>3. 1 \in DOMAIN es /\ es[1].kind = "started"
      BY <2>1, <3>1, <3>2 DEF Story
    <3> QED BY <3>3 DEF Has, ToSet
  <2>6. \A s \in Slots : ArtifactIntact(a, s)
    BY <2>3, <2>4 DEF ArtifactIntact
  <2>7. WorkflowConsistent(a)
    BY <2>2, <2>3, <2>4, <2>5 DEF WorkflowConsistent
  <2>8. ProposalIntact(a)
    BY <2>2, <2>3, <2>4 DEF ProposalIntact
  <2> QED BY <2>6, <2>7, <2>8 DEF TerminalIntegrity
<1>2. Inv => CompletedVerifies
  BY <1>1, StateIs DEF Inv, AttemptOK, CompletedVerifies, OutputsShown
<1> QED BY <1>2, Invariance, PTL

-----------------------------------------------------------------------------
(* What a plan writes.  The lists of creations and appends, the vault they *)
(* are applied to and the recap are folds; each is an instance of Folding, *)
(* with what the proof has it keep.                                        *)

CreateStep(c, ops, k) ==
  IF \/ CreateConflicts(c.docs, c.x, c.session, k)
     \/ \E o \in ToSet(ops) : Normalized(o.name) = Normalized(k.name)
  THEN ops
  ELSE Append(ops, CreateOp(c.session, k))

AppendStep(c, ops, k) ==
  LET id == Target(c.docs, k, c.prepared) IN
  IF Appendable(c.docs, k, c.prepared) /\ ~DuplicateFact(c.docs, ops, k, id)
  THEN Append(ops, AppendOp(ops, k, id, c.prepared))
  ELSE ops

ApplyStep(c, ds, o) == ApplyOp(ds, o)

(* A vault whose documents hold each line once, and how one moves on: a    *)
(* document stays, and lines enter it only with a greater revision.        *)
Once(body) == \A i, j \in DOMAIN body : body[i] = body[j] => i = j
IsSeq(s) == \E S : s \in Seq(S)
DocOK(d) == {"rev", "body"} \subseteq DOMAIN d /\ d.rev \in Int /\ IsSeq(d.body) /\ Once(d.body)
Vault(ds) == \A id \in DOMAIN ds : DocOK(ds[id])
Onward(old, new) ==
  \A id \in DOMAIN old :
    /\ id \in DOMAIN new
    /\ \/ new[id].rev > old[id].rev
       \/ new[id].rev = old[id].rev /\ ToSet(new[id].body) \subseteq ToSet(old[id].body)

(* Operations that fit a vault: no fact is appended twice to an entity,    *)
(* and while the revision the first append to an entity expects is that of *)
(* the document, the document has none of the facts to be appended.        *)
Appended(ops) == {i \in DOMAIN ops : ops[i].op = "append"}

Distinct(ops) ==
  \A i, j \in Appended(ops) : ops[i].id = ops[j].id /\ ops[i].fact = ops[j].fact => i = j

Ahead(ops, ds) ==
  \A i, j \in Appended(ops) :
    /\ ops[i].id = ops[j].id
    /\ Touching(ops, i, ops[i].id, "append") = {}
    => /\ ops[i].expected \in Int /\ ops[i].expected <= ds[ops[i].id].rev
       /\ ops[i].expected = ds[ops[i].id].rev => ops[j].fact \notin ToSet(ds[ops[i].id].body)

Fits(ops, ds) ==
  /\ IsSeq(ops)
  /\ \A i \in DOMAIN ops : ops[i].op \in {"create", "append"}
  /\ \A i \in Appended(ops) : ops[i].id \in DOMAIN ds
  /\ Distinct(ops)
  /\ Ahead(ops, ds)

(* What can be said of a list of appends while it is planned.              *)
Timely(ops, ds) ==
  /\ IsSeq(ops)
  /\ \A i \in DOMAIN ops :
       /\ ops[i].op = "append" /\ ops[i].id \in DOMAIN ds
       /\ ops[i].fact \notin ToSet(ds[ops[i].id].body)
       /\ Touching(ops, i, ops[i].id, "append") = {} => ops[i].expected = ds[ops[i].id].rev
  /\ Distinct(ops)

(* How far a vault is after the first i operations.                        *)
Reached(ds, ops, i, D) ==
  /\ Vault(D)
  /\ \A id \in DOMAIN ds : id \in DOMAIN D /\ (D[id] = ds[id] \/ D[id].rev > ds[id].rev)
  /\ \A id \in DOMAIN D : id \in DOMAIN ds \/ \E j \in DOMAIN ops : ops[j].op = "create" /\ ops[j].id = id
  /\ \A id \in DOMAIN ds : \A f \in ToSet(D[id].body) :
       f \in ToSet(ds[id].body) \/ \E j \in Appended(ops) : j <= i /\ ops[j].id = id /\ ops[j].fact = f

(* What the three folds keep: a list of creations of the candidates; a     *)
(* list of appends, timely when the vault is one; the documents there were *)
(* and the created ones, as far as the operations have come.               *)
CreateKept(c, i, ops) == ops \in Seq({CreateOp(c.session, k) : k \in ToSet(c.x.candidates)})

AppendKept(c, i, ops) ==
  /\ IsSeq(ops)
  /\ \A o \in ToSet(ops) : o.op = "append"
  /\ Vault(c.docs) => Timely(ops, c.docs)

ApplyKept(c, i, D) ==
  /\ \A id \in DOMAIN D :
       id \in DOMAIN c.docs \/ \E j \in DOMAIN c.ops : c.ops[j].op = "create" /\ c.ops[j].id = id
  /\ Vault(c.docs) /\ Fits(c.ops, c.docs) /\ PreflightOk(c.docs, c.ops) =>
       Reached(c.docs, c.ops, i, D)

CreateFold == INSTANCE Folding WITH Step <- CreateStep, Kept <- CreateKept
AppendFold == INSTANCE Folding WITH Step <- AppendStep, Kept <- AppendKept
ApplyFold == INSTANCE Folding WITH Step <- ApplyStep, Kept <- ApplyKept

LEMMA CreatesFolds ==
  ASSUME NEW ds, NEW x, NEW s
  PROVE  Creates(ds, x, s) = CreateFold!Fold([docs |-> ds, x |-> x, session |-> s], <<>>, x.candidates)
BY DEF Creates, CreateStep, FoldLeft, MapThenFoldSet, CreateFold!Fold, Max, CreateFold!Max

LEMMA AppendsFolds ==
  ASSUME NEW ds, NEW x, NEW prep
  PROVE  Appends(ds, x, prep) = AppendFold!Fold([docs |-> ds, prepared |-> prep], <<>>, x.claims)
BY DEF Appends, AppendStep, FoldLeft, MapThenFoldSet, AppendFold!Fold, Max, AppendFold!Max

LEMMA ApplyFolds ==
  ASSUME NEW ds, NEW ops
  PROVE  FoldLeft(ApplyOp, ds, ops) = ApplyFold!Fold([docs |-> ds, ops |-> ops], ds, ops)
BY DEF ApplyStep, FoldLeft, MapThenFoldSet, ApplyFold!Fold, Max, ApplyFold!Max

(* The operations a plan begins with: one for each candidate created.      *)
LEMMA CreatesAre ==
  ASSUME NEW ds, NEW x, NEW s, NEW n \in Nat, DOMAIN x.candidates = 1..n
  PROVE  /\ IsSeq(Creates(ds, x, s))
         /\ \A o \in ToSet(Creates(ds, x, s)) :
              \E k \in ToSet(x.candidates) : o = CreateOp(s, k)
<1> DEFINE c == [docs |-> ds, x |-> x, session |-> s]
           Good == {CreateOp(s, k) : k \in ToSet(x.candidates)}
<1>1. \A i, v : CreateKept(c, i, v) <=> v \in Seq(Good)
  BY DEF CreateKept
<1>2. ASSUME NEW i \in 1..n, NEW v, CreateKept(c, i - 1, v)
      PROVE  CreateKept(c, i, CreateStep(c, v, x.candidates[i]))
  <2> DEFINE o == CreateOp(s, x.candidates[i])
             r == CreateStep(c, v, x.candidates[i])
  <2>1. o \in Good
    BY DEF ToSet
  <2>2. r = v \/ r = Append(v, o)
    BY DEF CreateStep
  <2>3. v \in Seq(Good)
    BY <1>1, <1>2
  <2> HIDE DEF o, r, Good
  <2>4. Append(v, o) \in Seq(Good)
    BY <2>1, <2>3, AppendProperties
  <2>5. r \in Seq(Good)
    BY <2>2, <2>3, <2>4
  <2> QED BY <1>1, <2>5 DEF r
<1>3. CreateKept(c, 0, <<>>)
  <2> HIDE DEF Good
  <2>1. <<>> \in Seq(Good)
    BY EmptySeq
  <2> QED BY <1>1, <2>1
<1>4. Creates(ds, x, s) \in Seq(Good)
  <2> HIDE DEF c, Good
  <2>1. CreateKept(c, n, CreateFold!Fold(c, <<>>, x.candidates))
    BY <1>2, <1>3, CreateFold!Keeps
  <2>2. Creates(ds, x, s) = CreateFold!Fold(c, <<>>, x.candidates)
    BY CreatesFolds DEF c
  <2> QED BY <1>1, <2>1, <2>2
<1> HIDE DEF Good
<1>5. \A o \in ToSet(Creates(ds, x, s)) : o \in Good
  BY <1>4 DEF ToSet
<1> QED BY <1>4, <1>5 DEF Good, IsSeq

(* A list with one more operation.                                         *)
LEMMA Longer ==
  ASSUME NEW s, IsSeq(s), NEW e
  PROVE  /\ IsSeq(Append(s, e))
         /\ Len(s) \in Nat /\ DOMAIN s = 1..Len(s) /\ DOMAIN Append(s, e) = 1..(Len(s) + 1)
         /\ \A i \in 1..Len(s) : Append(s, e)[i] = s[i]
         /\ Append(s, e)[Len(s) + 1] = e
         /\ ToSet(Append(s, e)) = ToSet(s) \union {e}
BY Appending DEF IsSeq

LEMMA TimelyStep ==
  ASSUME NEW ds, Vault(ds), NEW ops, Timely(ops, ds), NEW prep, NEW k,
         NEW r, r = AppendStep([docs |-> ds, prepared |-> prep], ops, k)
  PROVE  Timely(r, ds)
<1> DEFINE id == Target(ds, k, prep)
           o == AppendOp(ops, k, id, prep)
<1>1. CASE r = ops
  BY <1>1
<1>2. CASE r # ops
  <2>1. Appendable(ds, k, prep) /\ ~DuplicateFact(ds, ops, k, id) /\ r = Append(ops, o)
    BY <1>2 DEF AppendStep
  <2>2. /\ id \in DOMAIN ds /\ Projection(ds[id]) = prep.entities[id]
        /\ ~Contains(ds[id].body, k.text)
        /\ \A p \in ToSet(ops) : ~(p.id = id /\ p.fact = k.text)
    BY <2>1 DEF Appendable, ProjectionMatches, DuplicateFact
  <2>3. prep.entities[id].rev = ds[id].rev
    BY <2>2 DEF Projection
  <2>4. /\ o.op = "append" /\ o.id = id /\ o.fact = k.text
        /\ o.expected = ds[id].rev + Cardinality({i \in DOMAIN ops : ops[i].id = id})
    BY <2>3 DEF AppendOp
  <2>5. k.text \notin ToSet(ds[id].body)
    <3>1. PICK S : ds[id].body \in Seq(S)
      BY <2>2 DEF Vault, DocOK, IsSeq
    <3> QED BY <2>2, <3>1 DEF Contains, ToSet
  <2>6. IsSeq(ops)
    BY DEF Timely
  <2> DEFINE n == Len(ops)
  <2> HIDE DEF o, id
  <2>7. /\ IsSeq(r) /\ n \in Nat /\ DOMAIN ops = 1..n /\ DOMAIN r = 1..(n + 1)
        /\ \A i \in 1..n : r[i] = ops[i]
        /\ r[n + 1] = o
    <3>1. r = Append(ops, o)
      BY <2>1 DEF o, id
    <3> HIDE DEF n
    <3>2. /\ IsSeq(Append(ops, o))
          /\ Len(ops) \in Nat /\ DOMAIN ops = 1..Len(ops) /\ DOMAIN Append(ops, o) = 1..(Len(ops) + 1)
          /\ \A i \in 1..Len(ops) : Append(ops, o)[i] = ops[i]
          /\ Append(ops, o)[Len(ops) + 1] = o
      BY <2>6, Longer
    <3> QED BY <3>1, <3>2 DEF n
  <2> HIDE DEF n
  <2>8. \A i \in 1..n : Touching(r, i, r[i].id, "append") = Touching(ops, i, ops[i].id, "append")
    BY <2>7 DEF Touching
  <2>9. Touching(r, n + 1, id, "append") = {} => o.expected = ds[id].rev
    <3> SUFFICES ASSUME Touching(r, n + 1, id, "append") = {}
                 PROVE  o.expected = ds[id].rev
      OBVIOUS
    <3>1. {i \in DOMAIN ops : ops[i].id = id} = {}
      BY <2>7 DEF Touching, Timely
    <3>2. ds[id].rev \in Int
      BY <2>2 DEF Vault, DocOK
    <3>3. Cardinality({}) = 0
      BY FS_EmptySet
    <3>4. o.expected = ds[id].rev + 0
      BY <2>4, <3>1, <3>3
    <3> QED BY <3>2, <3>4
  <2>10. ASSUME NEW i \in DOMAIN r
         PROVE  /\ r[i].op = "append" /\ r[i].id \in DOMAIN ds
                /\ r[i].fact \notin ToSet(ds[r[i].id].body)
                /\ Touching(r, i, r[i].id, "append") = {} => r[i].expected = ds[r[i].id].rev
    <3>1. CASE i \in 1..n
      BY <2>7, <2>8, <3>1 DEF Timely
    <3>2. CASE i = n + 1
      BY <2>2, <2>4, <2>5, <2>7, <2>9, <3>2
    <3> QED BY <2>7, <3>1, <3>2
  <2>11. \A i \in 1..n : ops[i] \in ToSet(ops)
    BY <2>7 DEF ToSet
  <2>12. Distinct(r)
    <3>1. \A i \in 1..n : ~(r[i].id = o.id /\ r[i].fact = o.fact)
      BY <2>2, <2>4, <2>7, <2>11
    <3>2. \A i, j \in 1..n : r[i].id = r[j].id /\ r[i].fact = r[j].fact => i = j
      BY <2>7 DEF Timely, Distinct, Appended
    <3> QED BY <2>7, <3>1, <3>2 DEF Distinct, Appended
  <2> QED BY <2>7, <2>10, <2>12 DEF Timely
<1> QED BY <1>1, <1>2

(* The appends a plan ends with.                                           *)
LEMMA AppendsAre ==
  ASSUME NEW ds, NEW x, NEW prep, NEW n \in Nat, DOMAIN x.claims = 1..n
  PROVE  /\ IsSeq(Appends(ds, x, prep))
         /\ \A o \in ToSet(Appends(ds, x, prep)) : o.op = "append"
         /\ Vault(ds) => Timely(Appends(ds, x, prep), ds)
<1> DEFINE c == [docs |-> ds, prepared |-> prep]
<1>1. AppendKept(c, 0, <<>>)
  <2>1. IsSeq(<<>>) /\ DOMAIN <<>> = {} /\ ToSet(<<>>) = {}
    BY DEF IsSeq, ToSet
  <2> QED BY <2>1 DEF AppendKept, Timely, Distinct, Appended
<1>2. ASSUME NEW i \in 1..n, NEW v, AppendKept(c, i - 1, v)
      PROVE  AppendKept(c, i, AppendStep(c, v, x.claims[i]))
  <2> DEFINE k == x.claims[i]
             o == AppendOp(v, k, Target(ds, k, prep), prep)
             r == AppendStep(c, v, k)
  <2>1. IsSeq(v) /\ (\A p \in ToSet(v) : p.op = "append") /\ (Vault(ds) => Timely(v, ds))
    BY <1>2 DEF AppendKept
  <2>2. o.op = "append"
    BY DEF AppendOp
  <2>3. r = v \/ r = Append(v, o)
    BY DEF AppendStep
  <2>4. Vault(ds) => Timely(r, ds)
    BY <2>1, TimelyStep
  <2> HIDE DEF o, k
  <2>5. IsSeq(Append(v, o)) /\ ToSet(Append(v, o)) = ToSet(v) \union {o}
    BY <2>1, Longer
  <2> HIDE DEF r
  <2>6. IsSeq(r) /\ (\A p \in ToSet(r) : p.op = "append")
    BY <2>1, <2>2, <2>3, <2>5
  <2>7. AppendKept(c, i, r)
    BY <2>4, <2>6 DEF AppendKept
  <2> QED BY <2>7 DEF r, k
<1>3. Appends(ds, x, prep) = AppendFold!Fold(c, <<>>, x.claims)
  BY AppendsFolds
<1>4. c.docs = ds
  OBVIOUS
<1> HIDE DEF c
<1>5. AppendKept(c, n, AppendFold!Fold(c, <<>>, x.claims))
  BY <1>1, <1>2, AppendFold!Keeps
<1> QED BY <1>3, <1>4, <1>5 DEF AppendKept

LEMMA Joined ==
  ASSUME NEW s, IsSeq(s), NEW t, IsSeq(t)
  PROVE  /\ IsSeq(s \o t)
         /\ Len(s) \in Nat /\ Len(t) \in Nat
         /\ DOMAIN s = 1..Len(s) /\ DOMAIN t = 1..Len(t)
         /\ DOMAIN (s \o t) = 1..(Len(s) + Len(t))
         /\ \A i \in 1..Len(s) : (s \o t)[i] = s[i]
         /\ \A i \in 1..Len(t) : (s \o t)[Len(s) + i] = t[i]
<1>1. PICK S, T : s \in Seq(S) /\ t \in Seq(T)
  BY DEF IsSeq
<1> DEFINE U == S \union T
<1>2. s \in Seq(U) /\ t \in Seq(U)
  BY <1>1, SeqMonotonic
<1> HIDE DEF U
<1>3. /\ s \o t \in Seq(U) /\ Len(s \o t) = Len(s) + Len(t)
      /\ \A i \in 1..(Len(s) + Len(t)) :
           (s \o t)[i] = IF i <= Len(s) THEN s[i] ELSE t[i - Len(s)]
  BY <1>2, ConcatProperties
<1>4. /\ Len(s) \in Nat /\ Len(t) \in Nat
      /\ DOMAIN s = 1..Len(s) /\ DOMAIN t = 1..Len(t)
      /\ DOMAIN (s \o t) = 1..Len(s \o t)
  BY <1>2, <1>3
<1>5. \A i \in 1..Len(s) : (s \o t)[i] = s[i]
  <2>1. \A i \in 1..Len(s) : i \in 1..(Len(s) + Len(t)) /\ i <= Len(s)
    BY <1>4
  <2> QED BY <1>3, <2>1
<1>6. \A i \in 1..Len(t) : (s \o t)[Len(s) + i] = t[i]
  <2>1. \A i \in 1..Len(t) : /\ Len(s) + i \in 1..(Len(s) + Len(t)) /\ ~(Len(s) + i <= Len(s))
                             /\ (Len(s) + i) - Len(s) = i
    BY <1>4
  <2> QED BY <1>3, <2>1
<1> QED BY <1>3, <1>4, <1>5, <1>6 DEF IsSeq

(* A plan and its parts.                                                   *)
LEMMA PlanFits ==
  ASSUME NEW ds, Vault(ds), NEW x, NEW prep,
         NEW n \in Nat, DOMAIN x.claims = 1..n, NEW m \in Nat, DOMAIN x.candidates = 1..m
  PROVE  /\ Fits(Plan(ds, x, prep), ds)
         /\ \A i \in DOMAIN Plan(ds, x, prep) : Plan(ds, x, prep)[i].op = "create" =>
              \E k \in ToSet(x.candidates) :
                Plan(ds, x, prep)[i].id = Allocate(prep.session, k.type, k.name)
<1> DEFINE c == Creates(ds, x, prep.session)
           d == Appends(ds, x, prep)
           t == Plan(ds, x, prep)
           l == Len(c)
<1>1. IsSeq(c) /\ \A o \in ToSet(c) : \E k \in ToSet(x.candidates) : o = CreateOp(prep.session, k)
  BY CreatesAre
<1>2. Timely(d, ds)
  BY AppendsAre
<1>3. t = c \o d
  BY DEF Plan
<1> HIDE DEF c, d, t
<1>4. /\ IsSeq(t) /\ l \in Nat /\ Len(d) \in Nat
      /\ DOMAIN c = 1..l /\ DOMAIN d = 1..Len(d) /\ DOMAIN t = 1..(l + Len(d))
      /\ \A i \in 1..l : t[i] = c[i]
      /\ \A i \in 1..Len(d) : t[l + i] = d[i]
  BY <1>1, <1>2, <1>3, Joined DEF Timely
<1> HIDE DEF l
<1>5. ASSUME NEW i \in DOMAIN c
      PROVE  /\ c[i].op = "create"
             /\ \E k \in ToSet(x.candidates) : c[i].id = Allocate(prep.session, k.type, k.name)
  <2>1. PICK k \in ToSet(x.candidates) : c[i] = CreateOp(prep.session, k)
    BY <1>1 DEF ToSet
  <2> QED BY <2>1 DEF CreateOp
<1>6. \A i \in DOMAIN d : d[i].op = "append"
  BY <1>2 DEF Timely
<1>7. \A i \in DOMAIN t : i \in 1..l \/ (i - l \in 1..Len(d) /\ t[i] = d[i - l])
  <2>1. \A i \in DOMAIN t : i \in 1..l \/ (i - l \in 1..Len(d) /\ i = l + (i - l))
    BY <1>4
  <2> QED BY <1>4, <2>1
<1>8. \A i \in DOMAIN t : t[i].op = "create" =>
        \E k \in ToSet(x.candidates) : t[i].id = Allocate(prep.session, k.type, k.name)
  BY <1>4, <1>5, <1>6, <1>7
<1>9. \A i \in Appended(t) : i - l \in DOMAIN d /\ i - l \in Appended(d) /\ t[i] = d[i - l] /\ i \in Int
  BY <1>4, <1>5, <1>6, <1>7 DEF Appended
<1>10. ASSUME NEW i \in Appended(t), Touching(t, i, t[i].id, "append") = {}
       PROVE  Touching(d, i - l, d[i - l].id, "append") = {}
  <2>1. ASSUME NEW j \in Touching(d, i - l, d[i - l].id, "append")
        PROVE  l + j \in Touching(t, i, t[i].id, "append")
    <3>1. j \in 1..(i - l) - 1 /\ d[j].id = d[i - l].id /\ d[j].op = "append"
      BY DEF Touching
    <3>2. j \in 1..Len(d) /\ l + j \in 1..i - 1
      BY <1>4, <1>9, <3>1
    <3>3. t[l + j] = d[j]
      BY <1>4, <3>2
    <3> QED BY <1>9, <3>1, <3>2, <3>3 DEF Touching
  <2> QED BY <1>10, <2>1
<1>11. \A i \in Appended(t) : t[i].id \in DOMAIN ds
  BY <1>2, <1>9 DEF Timely
<1>12. Distinct(t)
  <2> SUFFICES ASSUME NEW i \in Appended(t), NEW j \in Appended(t),
                      t[i].id = t[j].id /\ t[i].fact = t[j].fact
               PROVE  i = j
    BY DEF Distinct
  <2>1. i - l = j - l
    BY <1>2, <1>9 DEF Timely, Distinct
  <2> QED BY <1>4, <1>9, <2>1
<1>13. Ahead(t, ds)
  <2> SUFFICES ASSUME NEW i \in Appended(t), NEW j \in Appended(t), t[i].id = t[j].id,
                      Touching(t, i, t[i].id, "append") = {}
               PROVE  /\ t[i].expected \in Int /\ t[i].expected <= ds[t[i].id].rev
                      /\ t[j].fact \notin ToSet(ds[t[i].id].body)
    BY DEF Ahead
  <2>1. t[i].expected = ds[t[i].id].rev
    BY <1>2, <1>9, <1>10 DEF Timely
  <2>2. ds[t[i].id].rev \in Int
    BY <1>11 DEF Vault, DocOK
  <2>3. t[j].fact \notin ToSet(ds[t[j].id].body)
    BY <1>2, <1>9 DEF Timely
  <2> QED BY <2>1, <2>2, <2>3
<1>14. Fits(t, ds)
  <2>1. \A i \in DOMAIN t : t[i].op \in {"create", "append"}
    BY <1>4, <1>5, <1>6, <1>7
  <2> QED BY <1>4, <1>11, <1>12, <1>13, <2>1 DEF Fits
<1> QED BY <1>8, <1>14 DEF t

LEMMA FitsOn ==
  ASSUME NEW ops, NEW ds, Fits(ops, ds), Vault(ds), NEW new, Vault(new), Onward(ds, new)
  PROVE  Fits(ops, new)
<1>1. \A i \in Appended(ops) : ops[i].id \in DOMAIN ds /\ ops[i].id \in DOMAIN new
  BY DEF Fits, Onward
<1>2. Ahead(ops, new)
  <2> SUFFICES ASSUME NEW i \in Appended(ops), NEW j \in Appended(ops), ops[i].id = ops[j].id,
                      Touching(ops, i, ops[i].id, "append") = {}
               PROVE  /\ ops[i].expected \in Int /\ ops[i].expected <= new[ops[i].id].rev
                      /\ ops[i].expected = new[ops[i].id].rev =>
                           ops[j].fact \notin ToSet(new[ops[i].id].body)
    BY DEF Ahead
  <2> DEFINE id == ops[i].id
  <2>1. /\ ops[i].expected \in Int /\ ops[i].expected <= ds[id].rev
        /\ ops[i].expected = ds[id].rev => ops[j].fact \notin ToSet(ds[id].body)
    BY DEF Fits, Ahead
  <2>2. ds[id].rev \in Int /\ new[id].rev \in Int
    BY <1>1 DEF Vault, DocOK
  <2>3. \/ new[id].rev > ds[id].rev
        \/ new[id].rev = ds[id].rev /\ ToSet(new[id].body) \subseteq ToSet(ds[id].body)
    BY <1>1 DEF Onward
  <2> QED BY <2>1, <2>2, <2>3
<1> QED BY <1>1, <1>2 DEF Fits

(* An operation that is applied was planned on the document as it is.      *)
LEMMA Opening ==
  ASSUME NEW ds, Vault(ds), NEW ops, Fits(ops, ds), PreflightOk(ds, ops),
         NEW j \in Appended(ops)
  PROVE  ops[j].id \in DOMAIN ds /\ ops[j].fact \notin ToSet(ds[ops[j].id].body)
<1> DEFINE id == ops[j].id
           N == {i \in Appended(ops) : ops[i].id = id}
<1>1. DOMAIN ops = 1..Len(ops) /\ Len(ops) \in Nat /\ id \in DOMAIN ds
  <2>1. PICK S : ops \in Seq(S)
    BY DEF Fits, IsSeq
  <2> QED BY <2>1 DEF Fits
<1>2. N \in SUBSET Nat /\ N # {}
  BY <1>1 DEF Appended
<1>3. PICK i \in N : \A k \in N : ~(k < i)
  <2> HIDE DEF N
  <2> QED BY <1>2, CreateFold!LeastNumber
<1>4. Touching(ops, i, id, "append") = {}
  <2>1. \A k \in 1..i - 1 : k \in DOMAIN ops /\ k < i
    BY <1>1 DEF Appended
  <2> QED BY <1>3, <2>1 DEF Touching, Appended
<1>5. ops[i].expected = ds[id].rev
  <2>1. OperationValid(ds, ops, i) /\ ops[i].op = "append" /\ ops[i].id = id
    BY DEF PreflightOk, Appended
  <2>2. ops[i].expected = ds[id].rev + Cardinality({})
    BY <1>1, <1>4, <2>1 DEF OperationValid, ProjectedRevision
  <2>3. Cardinality({}) = 0 /\ ds[id].rev \in Int
    BY <1>1, FS_EmptySet DEF Vault, DocOK
  <2> QED BY <2>2, <2>3
<1> QED BY <1>1, <1>4, <1>5 DEF Fits, Ahead

LEMMA ReachedStep ==
  ASSUME NEW ds, Vault(ds), NEW ops, Fits(ops, ds), PreflightOk(ds, ops),
         NEW i \in Nat, i + 1 \in DOMAIN ops,
         NEW D, Reached(ds, ops, i, D), NEW new, new = ApplyOp(D, ops[i + 1])
  PROVE  Reached(ds, ops, i + 1, new)
<1> DEFINE o == ops[i + 1]
<1>1. PICK S : ops \in Seq(S)
  BY DEF Fits, IsSeq
<1>2. DOMAIN ops = 1..Len(ops) /\ Len(ops) \in Nat /\ (\A j \in Appended(ops) : j \in Int)
  BY <1>1 DEF Appended
<1>3. CASE o.op = "create"
  <2>1. o.id \notin DOMAIN ds
    BY <1>3 DEF PreflightOk, OperationValid
  <2>2. new = [id \in DOMAIN D \union {o.id} |-> IF id = o.id THEN NewDocument(o) ELSE D[id]]
    BY <1>3 DEF ApplyOp
  <2>3. DocOK(NewDocument(o))
    <3>1. <<>> \in Seq({}) /\ DOMAIN <<>> = {}
      OBVIOUS
    <3> QED BY <3>1 DEF NewDocument, DocOK, IsSeq, Once
  <2> HIDE DEF o
  <2>4. Vault(new)
    BY <2>2, <2>3 DEF Vault, Reached
  <2>5. \A id \in DOMAIN ds : id \in DOMAIN new /\ new[id] = D[id]
    BY <2>1, <2>2 DEF Reached
  <2>6. \A id \in DOMAIN new : id \in DOMAIN D \/ (o.op = "create" /\ o.id = id)
    BY <1>3, <2>2
  <2>7. \A id \in DOMAIN new : id \in DOMAIN ds \/ \E j \in DOMAIN ops : ops[j].op = "create" /\ ops[j].id = id
    BY <2>6 DEF Reached, o
  <2>8. ASSUME NEW id \in DOMAIN ds, NEW f \in ToSet(new[id].body)
        PROVE  f \in ToSet(ds[id].body) \/ \E j \in Appended(ops) : j <= i + 1 /\ ops[j].id = id /\ ops[j].fact = f
    <3>1. f \in ToSet(ds[id].body) \/ \E j \in Appended(ops) : j <= i /\ ops[j].id = id /\ ops[j].fact = f
      BY <2>5 DEF Reached
    <3>2. \A j \in Appended(ops) : j <= i => j <= i + 1
      BY <1>2
    <3> QED BY <3>1, <3>2
  <2> QED BY <2>4, <2>5, <2>7, <2>8 DEF Reached
<1>4. CASE o.op = "append"
  <2>1. i + 1 \in Appended(ops)
    BY <1>4 DEF Appended
  <2>2. o.id \in DOMAIN ds /\ o.id \in DOMAIN D /\ o.fact \notin ToSet(ds[o.id].body)
    BY <2>1, Opening DEF Reached
  <2>3. new = [D EXCEPT ![o.id].rev = @ + 1, ![o.id].body = Append(@, o.fact)]
    BY <1>4 DEF ApplyOp
  <2>4. DocOK(D[o.id])
    BY <2>2 DEF Vault, Reached
  <2>5. /\ DOMAIN new = DOMAIN D
        /\ \A id \in DOMAIN D : id # o.id => new[id] = D[id]
        /\ new[o.id].rev = D[o.id].rev + 1 /\ new[o.id].body = Append(D[o.id].body, o.fact)
        /\ DOMAIN new[o.id] = DOMAIN D[o.id]
    <3>1. {"rev", "body"} \subseteq DOMAIN D[o.id]
      BY <2>4 DEF DocOK
    <3> HIDE DEF o
    <3> QED BY <2>2, <2>3, <3>1
  <2>6. o.fact \notin ToSet(D[o.id].body)
    <3>1. ASSUME NEW j \in Appended(ops), j <= i, ops[j].id = o.id, ops[j].fact = o.fact
          PROVE  FALSE
      <4>1. j = i + 1
        BY <2>1, <3>1 DEF Fits, Distinct
      <4> QED BY <1>2, <3>1, <4>1
    <3> QED BY <2>2, <3>1 DEF Reached
  <2>7. PICK T : D[o.id].body \in Seq(T)
    BY <2>4 DEF DocOK, IsSeq
  <2> DEFINE b == D[o.id].body
  <2>8. /\ IsSeq(Append(b, o.fact))
        /\ DOMAIN b = 1..Len(b) /\ Len(b) \in Nat
        /\ DOMAIN Append(b, o.fact) = 1..(Len(b) + 1)
        /\ \A k \in 1..Len(b) : Append(b, o.fact)[k] = b[k]
        /\ Append(b, o.fact)[Len(b) + 1] = o.fact
        /\ ToSet(Append(b, o.fact)) = ToSet(b) \union {o.fact}
    BY <2>7, Appending DEF IsSeq
  <2> HIDE DEF b, o
  <2>9. Once(Append(b, o.fact))
    <3>1. \A k \in 1..Len(b) : b[k] # o.fact
      BY <2>6, <2>8 DEF ToSet, b
    <3>2. \A k, l \in 1..Len(b) : b[k] = b[l] => k = l
      BY <2>4, <2>8 DEF DocOK, Once, b
    <3> QED BY <2>8, <3>1, <3>2 DEF Once
  <2>10. DocOK(new[o.id])
    <3>1. {"rev", "body"} \subseteq DOMAIN D[o.id] /\ D[o.id].rev \in Int
      BY <2>4 DEF DocOK
    <3>2. new[o.id].body = Append(b, o.fact)
      BY <2>5 DEF b
    <3> QED BY <2>5, <2>8, <2>9, <3>1, <3>2 DEF DocOK
  <2>11. Vault(new)
    BY <2>5, <2>10 DEF Vault, Reached
  <2>12. D[o.id].rev \in Int /\ ds[o.id].rev \in Int
    BY <2>2, <2>4 DEF Vault, DocOK
  <2>13. \A id \in DOMAIN ds : id \in DOMAIN new /\ (new[id] = ds[id] \/ new[id].rev > ds[id].rev)
    <3>1. new[o.id].rev > ds[o.id].rev
      <4>1. D[o.id].rev >= ds[o.id].rev
        BY <2>2, <2>12 DEF Reached
      <4> QED BY <2>5, <2>12, <4>1
    <3> QED BY <2>5, <3>1 DEF Reached
  <2>14. ASSUME NEW id \in DOMAIN ds, NEW f \in ToSet(new[id].body)
         PROVE  f \in ToSet(ds[id].body) \/ \E j \in Appended(ops) : j <= i + 1 /\ ops[j].id = id /\ ops[j].fact = f
    <3>1. f \in ToSet(D[id].body) \/ (id = o.id /\ f = o.fact)
      <4>1. CASE id = o.id
        BY <2>5, <2>8, <4>1 DEF b
      <4>2. CASE id # o.id
        BY <2>5, <4>2 DEF Reached
      <4> QED BY <4>1, <4>2
    <3>2. \A j \in Appended(ops) : j <= i => j <= i + 1
      BY <1>2
    <3>3. i + 1 <= i + 1
      OBVIOUS
    <3> QED BY <2>1, <3>1, <3>2, <3>3 DEF Reached, o
  <2> QED BY <2>5, <2>11, <2>13, <2>14 DEF Reached
<1> QED BY <1>3, <1>4 DEF Fits

(* Applying operations adds the documents they create, and no other; those *)
(* there were go onward.                                                   *)
LEMMA ApplyKeeps ==
  ASSUME NEW ds, NEW ops, IsSeq(ops)
  PROVE  /\ \A id \in DOMAIN ApplyAll(ds, ops) :
              id \in DOMAIN ds \/ \E j \in DOMAIN ops : ops[j].op = "create" /\ ops[j].id = id
         /\ Vault(ds) /\ Fits(ops, ds) =>
              Vault(ApplyAll(ds, ops)) /\ Onward(ds, ApplyAll(ds, ops))
<1> DEFINE c == [docs |-> ds, ops |-> ops]
           n == Len(ops)
<1>1. DOMAIN ops = 1..n /\ n \in Nat
  BY DEF IsSeq
<1> HIDE DEF n
<1>2. ASSUME NEW D, NEW i \in Nat, Vault(ds), Reached(ds, ops, i, D)
      PROVE  Vault(D) /\ Onward(ds, D)
  BY <1>2 DEF Reached, Onward
<1>3. Vault(ds) => Reached(ds, ops, 0, ds)
  BY DEF Reached
<1>4. CASE ~PreflightOk(ds, ops)
  <2>1. ApplyAll(ds, ops) = ds
    BY <1>4 DEF ApplyAll
  <2> QED BY <1>2, <1>3, <2>1
<1>5. CASE PreflightOk(ds, ops)
  <2>1. ApplyKept(c, 0, ds)
    BY <1>3 DEF ApplyKept
  <2>2. ASSUME NEW i \in 1..n, NEW D, ApplyKept(c, i - 1, D)
        PROVE  ApplyKept(c, i, ApplyStep(c, D, ops[i]))
    <3> DEFINE o == ops[i]
               r == ApplyOp(D, o)
    <3>1. \A id \in DOMAIN r : id \in DOMAIN D \/ (o.op = "create" /\ o.id = id)
      <4>1. CASE o.op = "create"
        <5>1. DOMAIN r = DOMAIN D \union {o.id}
          BY <4>1 DEF ApplyOp
        <5> QED BY <4>1, <5>1
      <4>2. CASE o.op # "create"
        <5>1. DOMAIN r = DOMAIN D
          BY <4>2 DEF ApplyOp
        <5> QED BY <5>1
      <4> QED BY <4>1, <4>2
    <3>2. i - 1 \in Nat /\ (i - 1) + 1 = i /\ i \in DOMAIN ops
      BY <1>1
    <3>3. Vault(ds) /\ Fits(ops, ds) /\ Reached(ds, ops, i - 1, D) => Reached(ds, ops, i, r)
      BY <1>5, <3>2, ReachedStep
    <3> HIDE DEF r
    <3>4. ApplyKept(c, i, r)
      BY <2>2, <3>1, <3>2, <3>3 DEF ApplyKept
    <3> QED BY <3>4 DEF r, ApplyStep
  <2>3. ApplyAll(ds, ops) = ApplyFold!Fold(c, ds, ops)
    BY <1>5, ApplyFolds DEF ApplyAll
  <2>4. ApplyKept(c, n, ApplyAll(ds, ops))
    <3> HIDE DEF c
    <3>1. ApplyKept(c, n, ApplyFold!Fold(c, ds, ops))
      BY <1>1, <2>1, <2>2, ApplyFold!Keeps
    <3> QED BY <2>3, <3>1
  <2>5. Vault(ds) /\ Fits(ops, ds) => Reached(ds, ops, n, ApplyAll(ds, ops))
    BY <1>5, <2>4 DEF ApplyKept
  <2> QED BY <1>1, <1>2, <2>4, <2>5 DEF ApplyKept
<1> QED BY <1>4, <1>5

-----------------------------------------------------------------------------
(* What a plan has in it, whatever the vault is like.                      *)

Named(sid) == {Allocate(sid, k.type, k.name) : k \in UNION {ToSet(x.candidates) : x \in Extractions}}

Planned(ops, sid) ==
  IsSeq(ops) /\ \A i \in DOMAIN ops : ops[i].op = "create" => ops[i].id \in Named(sid)

LEMMA PlanPlanned ==
  ASSUME NEW ds, NEW x \in Extractions, NEW prep
  PROVE  Planned(Plan(ds, x, prep), prep.session)
<1> DEFINE c == Creates(ds, x, prep.session)
           d == Appends(ds, x, prep)
           t == Plan(ds, x, prep)
<1>1. IsSeq(c) /\ \A o \in ToSet(c) : \E k \in ToSet(x.candidates) : o = CreateOp(prep.session, k)
  BY CreatesAre, PostSessionAssumption DEF IsList
<1>2. IsSeq(d) /\ \A o \in ToSet(d) : o.op = "append"
  BY AppendsAre, PostSessionAssumption DEF IsList
<1>3. t = c \o d
  BY DEF Plan
<1> HIDE DEF c, d, t
<1>4. /\ IsSeq(t) /\ Len(c) \in Nat /\ Len(d) \in Nat
      /\ DOMAIN c = 1..Len(c) /\ DOMAIN d = 1..Len(d) /\ DOMAIN t = 1..(Len(c) + Len(d))
      /\ \A i \in 1..Len(c) : t[i] = c[i]
      /\ \A i \in 1..Len(d) : t[Len(c) + i] = d[i]
  BY <1>1, <1>2, <1>3, Joined
<1>5. ASSUME NEW i \in DOMAIN t, t[i].op = "create"
      PROVE  t[i].id \in Named(prep.session)
  <2>1. CASE i \in 1..Len(c)
    <3>1. PICK k \in ToSet(x.candidates) : t[i] = CreateOp(prep.session, k)
      BY <1>1, <1>4, <2>1 DEF ToSet
    <3>2. t[i].id = Allocate(prep.session, k.type, k.name)
      BY <3>1 DEF CreateOp
    <3>3. k \in UNION {ToSet(y.candidates) : y \in Extractions}
      OBVIOUS
    <3> QED BY <3>2, <3>3 DEF Named
  <2>2. CASE i \notin 1..Len(c)
    <3>1. i - Len(c) \in 1..Len(d) /\ i = Len(c) + (i - Len(c))
      BY <1>4, <2>2
    <3>2. t[i] = d[i - Len(c)] /\ d[i - Len(c)] \in ToSet(d)
      BY <1>4, <3>1 DEF ToSet
    <3> QED BY <1>2, <1>5, <3>2
  <2> QED BY <2>1, <2>2
<1> QED BY <1>4, <1>5 DEF Planned, t

-----------------------------------------------------------------------------
(* The recap a player reads says the same whatever the secrets are.        *)

ToldStep(prepared, told, c) == IF InRecap(c, prepared) THEN Append(told, c) ELSE told
ToldKept(prepared, i, told) == IsSeq(told) /\ \A c \in ToSet(told) : InRecap(c, prepared)
ToldFold == INSTANCE Folding WITH Step <- ToldStep, Kept <- ToldKept

LEMMA InOrderFolds ==
  ASSUME NEW cs, NEW prepared
  PROVE  InOrder(cs, prepared) = ToldFold!Fold(prepared, <<>>, cs)
BY DEF InOrder, ToldStep, FoldLeft, MapThenFoldSet, ToldFold!Fold, Max, ToldFold!Max

(* A redacted claim is in the recap as the claim was, and is the claim if  *)
(* the recap tells it.                                                     *)
LEMMA RedactionKeeps ==
  ASSUME NEW x, NEW prepared, RecapInput(x, prepared), NEW i \in DOMAIN x.claims
  PROVE  LET c == x.claims[i]
             d == Redacted(x, prepared).claims[i] IN
         /\ InRecap(d, Anonymous(prepared)) <=> InRecap(c, prepared)
         /\ InRecap(c, prepared) => c = d
<1> DEFINE c == x.claims[i]
           d == Redacted(x, prepared).claims[i]
           other == Anonymous(prepared)
<1>1. {"id", "kind", "hint", "text", "mentions"} \subseteq DOMAIN c
  BY DEF RecapInput, ToSet
<1>2. d = IF Secret(c, prepared) THEN [c EXCEPT !.text = "?"] ELSE c
  BY DEF RecapInput, Redacted
<1>3. /\ DOMAIN other.entities = DOMAIN prepared.entities
      /\ \A id \in DOMAIN prepared.entities :
           /\ other.entities[id].type = prepared.entities[id].type
           /\ other.entities[id].vis = prepared.entities[id].vis
  BY DEF RecapInput, Anonymous
<1> HIDE DEF other, d
<1>4. d.hint = c.hint /\ d.mentions = c.mentions
  BY <1>1, <1>2
<1>5. \A m : Trusted(m, other) <=> Trusted(m, prepared)
  BY <1>3 DEF Trusted
<1>6. TrustedEntities(d, other) = TrustedEntities(c, prepared)
  BY <1>4, <1>5 DEF TrustedEntities
<1>7. HasUnresolved(d, other) <=> HasUnresolved(c, prepared)
  BY <1>4, <1>5 DEF HasUnresolved
<1>8. \A id \in TrustedEntities(c, prepared) : id \in DOMAIN prepared.entities
  BY DEF TrustedEntities, Trusted
<1>9. OnlyPlayerEntities(d, other) <=> OnlyPlayerEntities(c, prepared)
  BY <1>3, <1>6, <1>8 DEF OnlyPlayerEntities
<1>10. InRecap(d, other) <=> InRecap(c, prepared)
  BY <1>4, <1>7, <1>9 DEF InRecap
<1>11. InRecap(c, prepared) => ~Secret(c, prepared)
  <2> SUFFICES ASSUME InRecap(c, prepared)
               PROVE  ~Secret(c, prepared)
    OBVIOUS
  <2>1. c.hint = "player" /\ ~HasUnresolved(c, prepared) /\ OnlyPlayerEntities(c, prepared)
    BY DEF InRecap
  <2>2. c.mentions # <<>>
    <3>1. ToSet(<<>>) = {}
      BY DEF ToSet
    <3> QED BY <2>1, <3>1 DEF OnlyPlayerEntities, TrustedEntities
  <2>3. ASSUME NEW m \in ToSet(c.mentions)
        PROVE  Trusted(m, prepared) /\ prepared.entities[m.candidate].vis = "player"
    <3>1. Trusted(m, prepared)
      BY <2>1 DEF HasUnresolved
    <3>2. m.candidate \in TrustedEntities(c, prepared)
      BY <3>1 DEF TrustedEntities
    <3> QED BY <2>1, <3>1, <3>2 DEF OnlyPlayerEntities
  <2> QED BY <2>1, <2>2, <2>3 DEF Secret
<1> QED BY <1>2, <1>10, <1>11 DEF other, d

(* The claims told are in the recap by themselves.                         *)
LEMMA ToldIs ==
  ASSUME NEW cs, NEW prepared, NEW n \in Nat, DOMAIN cs = 1..n
  PROVE  \A c \in ToSet(InOrder(cs, prepared)) : InRecap(c, prepared)
<1>1. ToldKept(prepared, 0, <<>>)
  <2>1. IsSeq(<<>>) /\ ToSet(<<>>) = {}
    BY DEF IsSeq, ToSet
  <2> QED BY <2>1 DEF ToldKept
<1>2. ASSUME NEW i \in 1..n, NEW v, ToldKept(prepared, i - 1, v)
      PROVE  ToldKept(prepared, i, ToldStep(prepared, v, cs[i]))
  <2> DEFINE c == cs[i]
  <2>1. IsSeq(v) /\ \A d \in ToSet(v) : InRecap(d, prepared)
    BY <1>2 DEF ToldKept
  <2> HIDE DEF c
  <2>2. IsSeq(Append(v, c)) /\ ToSet(Append(v, c)) = ToSet(v) \union {c}
    BY <2>1, Longer
  <2>3. ToldKept(prepared, i, ToldStep(prepared, v, c))
    BY <2>1, <2>2 DEF ToldKept, ToldStep
  <2> QED BY <2>3 DEF c
<1>3. ToldKept(prepared, n, ToldFold!Fold(prepared, <<>>, cs))
  BY <1>1, <1>2, ToldFold!Keeps
<1> QED BY <1>3, InOrderFolds DEF ToldKept

(* For every extraction and prepared input: a claim the players may not    *)
(* know and a reference to an entity that is not theirs may have any text, *)
(* name and description, and the recap is the same.                        *)
THEOREM RecapTellsNoSecret ==
  ASSUME NEW x, NEW prepared, RecapInput(x, prepared)
  PROVE  HidesSecrets(x, prepared)
<1> DEFINE n == Len(x.claims)
           y == Redacted(x, prepared)
           other == Anonymous(prepared)
           told == InOrder(x.claims, prepared)
<1>1. DOMAIN x.claims = 1..n /\ n \in Nat
  BY DEF RecapInput, IsList
<1>2. DOMAIN y.claims = 1..n
  BY <1>1 DEF RecapInput, Redacted
<1>3. \A i \in 1..n : /\ InRecap(y.claims[i], other) <=> InRecap(x.claims[i], prepared)
                      /\ InRecap(x.claims[i], prepared) => x.claims[i] = y.claims[i]
  BY <1>1, RedactionKeeps
<1>4. PICK g : ToldFold!Chain(prepared, <<>>, x.claims, n, g) /\ told = g[n]
  <2>1. told = ToldFold!Fold(prepared, <<>>, x.claims)
    BY InOrderFolds
  <2> HIDE DEF told, n
  <2> QED BY <1>1, <2>1, ToldFold!Steps
<1>5. PICK h : ToldFold!Chain(other, <<>>, y.claims, n, h) /\ InOrder(y.claims, other) = h[n]
  <2> HIDE DEF y, n, other
  <2>1. InOrder(y.claims, other) = ToldFold!Fold(other, <<>>, y.claims)
    BY InOrderFolds
  <2> QED BY <1>1, <1>2, <2>1, ToldFold!Steps
<1>6. /\ g[0] = <<>> /\ \A i \in 1..n : g[i] = ToldStep(prepared, g[i - 1], x.claims[i])
      /\ h[0] = <<>> /\ \A i \in 1..n : h[i] = ToldStep(other, h[i - 1], y.claims[i])
  BY <1>4, <1>5 DEF ToldFold!Chain
<1> HIDE DEF y, n, other, told
<1> DEFINE Agree == {i \in 0..n : g[i] = h[i]}
<1>7. 0 \in Agree /\ \A i \in 0..n - 1 : i \in Agree => i + 1 \in Agree
  <2>2. \A i \in 1..n : \A v : ToldStep(prepared, v, x.claims[i]) = ToldStep(other, v, y.claims[i])
    BY <1>3 DEF ToldStep
  <2>3. 0 \in Agree
    BY <1>1, <1>6
  <2>4. ASSUME NEW i \in 0..n - 1, i \in Agree
        PROVE  i + 1 \in Agree
    <3>1. i + 1 \in 1..n /\ i + 1 \in 0..n /\ (i + 1) - 1 = i
      BY <1>1
    <3>2. /\ g[i + 1] = ToldStep(prepared, g[i], x.claims[i + 1])
          /\ h[i + 1] = ToldStep(other, g[i], y.claims[i + 1])
      BY <1>6, <2>4, <3>1
    <3> QED BY <2>2, <3>1, <3>2
  <2> QED BY <2>3, <2>4
<1>8. told = InOrder(y.claims, other)
  <2> HIDE DEF Agree
  <2>1. n \in Agree
    <3>1. 0..n \subseteq Agree
      BY <1>1, <1>7, ToldFold!UpTo
    <3> QED BY <1>1, <3>1
  <2> QED BY <1>4, <1>5, <2>1 DEF Agree
<1>9. \A c \in ToSet(told) : InRecap(c, prepared)
  BY <1>1, ToldIs DEF told
<1>10. ASSUME NEW c \in ToSet(told)
       PROVE  /\ TrustedEntities(c, other) = TrustedEntities(c, prepared)
              /\ \A id \in TrustedEntities(c, prepared) : EntityRef(prepared, id) = EntityRef(other, id)
  <2>1. OnlyPlayerEntities(c, prepared)
    BY <1>9 DEF InRecap
  <2>2. \A m : Trusted(m, other) <=> Trusted(m, prepared)
    BY DEF RecapInput, Anonymous, Trusted, other
  <2>3. TrustedEntities(c, other) = TrustedEntities(c, prepared)
    BY <2>2 DEF TrustedEntities
  <2>4. ASSUME NEW id \in TrustedEntities(c, prepared)
        PROVE  other.entities[id] = prepared.entities[id]
    <3>1. id \in DOMAIN prepared.entities /\ prepared.entities[id].vis = "player"
      BY <2>1 DEF OnlyPlayerEntities, TrustedEntities, Trusted
    <3> QED BY <3>1 DEF RecapInput, Anonymous, other
  <2> QED BY <2>3, <2>4 DEF EntityRef
<1>11. {EntityRef(prepared, id) : id \in UNION {TrustedEntities(c, prepared) : c \in ToSet(told)}}
     = {EntityRef(other, id) : id \in UNION {TrustedEntities(c, other) : c \in ToSet(told)}}
  <2>1. UNION {TrustedEntities(c, prepared) : c \in ToSet(told)}
      = UNION {TrustedEntities(c, other) : c \in ToSet(told)}
    BY <1>10
  <2>2. \A id \in UNION {TrustedEntities(c, prepared) : c \in ToSet(told)} :
          EntityRef(prepared, id) = EntityRef(other, id)
    BY <1>10
  <2> QED BY <2>1, <2>2
<1>12. RecapProjection(x, prepared) = RecapProjection(y, other)
  BY <1>8, <1>11 DEF RecapProjection, told
<1> QED BY <1>12 DEF HidesSecrets, y, other

(* The same of the inputs a run checks.                                    *)
THEOREM RecapIsClean == Spec => []RecapHidesSecrets
<1>1. RecapHidesSecrets
  BY RecapTellsNoSecret, PostSessionAssumption DEF RecapHidesSecrets
<1> QED BY <1>1, PTL

-----------------------------------------------------------------------------
(* What a step that plans nothing does to its run.                         *)
Carried(p) ==
  /\ Moves(p)
  /\ \/ run'[p].pc = "done" /\ run'[p].ops = <<>> /\ run'[p].pending = NoValue
     \/ /\ run'[p].pc \notin {"idle", "prepare", "produce"}
        /\ run'[p].ops = run[p].ops /\ run'[p].prepared = run[p].prepared
        /\ \/ run'[p].pending.id[1] = p
           \/ run'[p].pending = run[p].pending /\ (run'[p].pc \in Recording => run[p].pc \in Recording)

LEMMA ReportCarries ==
  ASSUME Shape, NEW p \in Procs, NEW st, NEW why, Report(p, st, why)
  PROVE  Carried(p)
BY DEF Shape, Report, Idle, Moves, Carried

LEMMA GotoCarries ==
  ASSUME Shape, NEW p \in Procs, NEW l, Goto(p, l),
         l \notin {"idle", "prepare", "produce", "append"}, l = "verify" => run[p].pc = "append"
  PROVE  Carried(p)
BY GotoIs DEF Same, Carried, Recording

LEMMA PendCarries ==
  ASSUME Shape, NEW p \in Procs, NEW k, NEW body, Pend(p, k, body)
  PROVE  Carried(p)
<1>1. /\ Moves(p) /\ Same(p) /\ run'[p].pc = "append"
      /\ run'[p].pending = [id |-> <<p, k>>, kind |-> k, body |-> body]
  BY PendIs
<1>2. run'[p].pending.id[1] = p
  BY <1>1
<1> QED BY <1>1, <1>2 DEF Same, Carried

LEMMA FailCarries ==
  ASSUME Shape, NEW p \in Procs, NEW phase, Fail(p, phase)
  PROVE  Carried(p)
BY PendCarries, ReportCarries DEF Fail

LEMMA UnrecordedCarries ==
  ASSUME Shape, NEW p \in Procs, NEW k, Unrecorded(p, k)
  PROVE  Carried(p)
<1>1. \/ Report(p, "interrupted", "attempt_start_uncertain")
      \/ Goto(p, "uncertain")
      \/ Report(p, "error", "recording_failed")
      \/ Fail(p, "persistence")
  BY DEF Unrecorded
<1>2. "uncertain" \notin {"idle", "prepare", "produce", "append", "verify"}
  OBVIOUS
<1> QED BY <1>1, <1>2, ReportCarries, GotoCarries, FailCarries

LEMMA RecordCarries ==
  ASSUME Shape, NEW p \in Procs, NEW k, NEW body, Record(p, k, body)
  PROVE  Carried(p)
BY PendCarries, UnrecordedCarries DEF Record

LEMMA AfterRecordCarries ==
  ASSUME Shape, NEW p \in Procs, AfterRecord(p), run[p].pending.kind \in Kinds
  PROVE  Carried(p)
<1>1. \/ Goto(p, "reload") \/ Goto(p, "recap") \/ Goto(p, "workflow")
      \/ Complete(p) \/ Goto(p, "propose") \/ Goto(p, "finish")
      \/ Report(p, "failed", "recorded")
  BY DEF AfterRecord, Kinds
<1>2. \A l \in {"reload", "recap", "workflow", "propose", "finish"} :
        l \notin {"idle", "prepare", "produce", "append", "verify"}
  OBVIOUS
<1>3. Complete(p) => Carried(p)
  BY RecordCarries DEF Complete
<1> QED BY <1>1, <1>2, <1>3, GotoCarries, ReportCarries

(* Every step of a run but the preparation, the extraction and the plan.   *)
LEMMA StepCarries ==
  ASSUME Inv, NEW p \in Procs, Step(p), ~Prepare(p), ~Extract(p), ~Produce(p)
  PROVE  Carried(p)
<1>1. Shape
  BY DEF Inv
<1>2. ASSUME FoldHistory(p)
      PROVE  Carried(p)
  <2>1. \/ Goto(p, "claim") \/ \E st, why : Report(p, st, why)
    BY <1>2 DEF FoldHistory
  <2>2. "claim" \notin {"idle", "prepare", "produce", "append", "verify"}
    OBVIOUS
  <2> QED BY <1>1, <2>1, <2>2, GotoCarries, ReportCarries
<1>3. Claim(p) => Carried(p)
  BY <1>1, ReportCarries, RecordCarries DEF Claim
<1>4. RecordAppend(p) => Carried(p)
  <2>1. "verify" \notin {"idle", "prepare", "produce", "append"}
    OBVIOUS
  <2> QED BY <1>1, <2>1, GotoCarries, UnrecordedCarries DEF RecordAppend, AfterRecordError
<1>5. RecordVerify(p) => Carried(p)
  <2>1. RecordVerify(p) => run[p].pending.kind \in Kinds
    BY AtRecord DEF RecordVerify, Recording
  <2> QED BY <1>1, <2>1, AfterRecordCarries, UnrecordedCarries DEF RecordVerify, AfterRecordError
<1>6. Reread(p) => Carried(p)
  <2>1. "finish" \notin {"idle", "prepare", "produce", "append", "verify"}
    OBVIOUS
  <2> QED BY <1>1, <2>1, GotoCarries, ReportCarries DEF Reread
<1>7. ASSUME Reload(p)
      PROVE  Carried(p)
  <2>1. \/ Goto(p, "extract") \/ \E st, why : Report(p, st, why)
    BY <1>7 DEF Reload
  <2>2. "extract" \notin {"idle", "prepare", "produce", "append", "verify"}
    OBVIOUS
  <2> QED BY <1>1, <2>1, <2>2, GotoCarries, ReportCarries
<1>8. Preflight(p) => Carried(p)
  <2>1. "summary" \notin {"idle", "prepare", "produce", "append", "verify"}
    OBVIOUS
  <2> QED BY <1>1, <2>1, GotoCarries, FailCarries DEF Preflight, Render
<1>9. \A slot \in Slots : PersistArtifact(p, slot) => Carried(p)
  BY <1>1, FailCarries, RecordCarries DEF PersistArtifact
<1>10. PersistProposal(p) => Carried(p)
  BY <1>1, FailCarries, RecordCarries DEF PersistProposal, ProposalError
<1>11. Finish(p) => Carried(p)
  BY <1>1, ReportCarries DEF Finish
<1> QED BY <1>2, <1>3, <1>4, <1>5, <1>6, <1>7, <1>8, <1>9, <1>10, <1>11 DEF Step

-----------------------------------------------------------------------------
(* The types, of the runs (whose plans create only what some extraction    *)
(* names) and of the rest.                                                 *)
RunTyped(r, sid) ==
  /\ r.pc \in Recording => r.pending.id[1] \in Procs
  /\ r.pc \notin {"idle", "prepare", "done"} => r.prepared.session = sid
  /\ r.pc = "produce" => r.accepted \in Extractions
  /\ Planned(r.ops, sid)

Typed ==
  /\ session \in SessionStates /\ applied \subseteq Attempts
  /\ tail \in {"clean", "torn", "malformed"}
  /\ faults \in Nat /\ edits \in Nat /\ faults + edits <= MaxDisturbances
  /\ DOMAIN docs \subseteq DOMAIN Documents \union Named(session.id)
  /\ \A p \in Procs : RunTyped(run[p], session.id)
  /\ \A a \in Attempts : proposals[a] # NoValue => Planned(proposals[a], session.id)
  /\ \A a \in Attempts : \A e \in ToSet(ledger[a]) : e.id[1] \in Procs

LEMMA NothingPlanned ==
  ASSUME NEW sid
  PROVE  Planned(<<>>, sid)
<1>1. <<>> \in Seq({}) /\ DOMAIN <<>> = {}
  OBVIOUS
<1> QED BY <1>1 DEF Planned, IsSeq

LEMMA StepTypes ==
  ASSUME Inv, Typed, NEW p \in Procs, Step(p)
  PROVE  Moves(p) /\ RunTyped(run'[p], session.id)
<1> DEFINE r == run[p]
           s == run'[p]
           sid == session.id
<1>0. Shape /\ RunTyped(r, sid)
  BY DEF Inv, Typed
<1>1. CASE Prepare(p)
  <2>1. r.pc = "prepare"
    BY <1>1 DEF Prepare
  <2>2. CASE \E why : Report(p, "failed", why)
    <3>1. Moves(p) /\ s.pc = "done" /\ s.ops = <<>> /\ s.pending = NoValue
      BY <1>0, <2>2 DEF Shape, Report, Idle, Moves
    <3> QED BY <3>1, NothingPlanned DEF RunTyped, Recording
  <2>3. CASE run' = [run EXCEPT ![p].pc = "fold", ![p].seen = NoValue,
                                ![p].prepared = PreparedInput(session, docs)]
    <3>1. /\ Moves(p) /\ s.pc = "fold" /\ s.ops = r.ops /\ s.pending = r.pending
          /\ s.prepared = PreparedInput(session, docs)
      BY <1>0, <2>3 DEF Shape, Idle, Moves
    <3>2. s.prepared.session = sid
      BY <3>1 DEF PreparedInput
    <3> QED BY <1>0, <3>1, <3>2 DEF RunTyped, Recording
  <2> QED BY <1>1, <2>2, <2>3 DEF Prepare
<1>2. CASE Carried(p) /\ r.pc \notin {"idle", "prepare", "done"}
  <2>1. CASE s.pc = "done" /\ s.ops = <<>> /\ s.pending = NoValue
    BY <1>2, <2>1, NothingPlanned DEF Carried, RunTyped, Recording
  <2>2. CASE /\ s.pc \notin {"idle", "prepare", "produce"}
             /\ s.ops = r.ops /\ s.prepared = r.prepared
             /\ \/ s.pending.id[1] = p
                \/ s.pending = r.pending /\ (s.pc \in Recording => r.pc \in Recording)
    BY <1>0, <1>2, <2>2 DEF Carried, RunTyped
  <2> QED BY <1>2, <2>1, <2>2 DEF Carried
<1>3. CASE Extract(p)
  <2>1. r.pc = "extract"
    BY <1>3 DEF Extract
  <2>2. ASSUME NEW x \in Extractions, run' = [run EXCEPT ![p].pc = "produce", ![p].accepted = x]
        PROVE  Moves(p) /\ RunTyped(s, sid)
    <3>1. /\ Moves(p) /\ s.pc = "produce" /\ s.ops = r.ops /\ s.pending = r.pending
          /\ s.prepared = r.prepared /\ s.accepted = x
      BY <1>0, <2>2 DEF Shape, Idle, Moves
    <3> QED BY <1>0, <2>1, <3>1 DEF RunTyped, Recording
  <2>3. ASSUME Fail(p, "extraction")
        PROVE  Moves(p) /\ RunTyped(s, sid)
    <3>1. Carried(p)
      BY <1>0, <2>3, FailCarries
    <3> QED BY <1>2, <2>1, <3>1 DEF Carried
  <2> QED BY <1>3, <2>2, <2>3 DEF Extract, ModelError
<1>4. CASE Produce(p)
  <2> DEFINE plan == Plan(docs, r.accepted, r.prepared)
  <2>1. r.pc = "produce" /\ run' = [run EXCEPT ![p].pc = "preflight", ![p].ops = plan]
    BY <1>4 DEF Produce
  <2>2. r.accepted \in Extractions /\ r.prepared.session = sid
    BY <1>0, <2>1 DEF RunTyped
  <2>3. Planned(plan, sid)
    BY <2>2, PlanPlanned
  <2> HIDE DEF plan
  <2>4. /\ Moves(p) /\ s.pc = "preflight" /\ s.ops = plan /\ s.pending = r.pending
        /\ s.prepared = r.prepared
    BY <1>0, <2>1 DEF Shape, Idle, Moves
  <2> QED BY <1>0, <2>2, <2>3, <2>4 DEF RunTyped, Recording
<1>5. r.pc \notin {"idle", "prepare", "done"} \/ Prepare(p)
  BY DEF Step, FoldHistory, Claim, RecordAppend, RecordVerify, Reread, Reload,
     Extract, Produce, Preflight, PersistArtifact, PersistProposal, Finish, Slots
<1> QED BY <1>1, <1>2, <1>3, <1>4, <1>5, StepCarries DEF Carried

(* What a step of a run may do to the rest.                                *)
Around(p) ==
  /\ docs' = docs /\ session' = session /\ applied' = applied /\ edits' = edits
  /\ faults' = faults \/ Fault
  /\ tail' \in {tail, "torn", "malformed"}
  /\ \A a \in Attempts : proposals'[a] \in {proposals[a], run[p].ops}
  /\ \A a \in Attempts :
       ledger'[a] = ledger[a] \/ (run[p].pc = "append" /\ ledger'[a] = Append(ledger[a], run[p].pending))

LEMMA StepAround ==
  ASSUME Inv, NEW p \in Procs, Step(p) \/ Crash(p)
  PROVE  Around(p)
<1>0. Shape
  BY DEF Inv
<1>1. ASSUME Unchanged, faults' = faults \/ Fault
      PROVE  Around(p)
  BY <1>1 DEF Unchanged, vault, files, Around
<1>2. Prepare(p) \/ FoldHistory(p) \/ Reload(p) \/ Produce(p) \/ Preflight(p) \/ Finish(p)
        => Unchanged /\ faults' = faults
  BY DEF Prepare, FoldHistory, Reload, Produce, Preflight, Finish
<1>3. RecordVerify(p) \/ Reread(p) => Unchanged /\ (faults' = faults \/ Fault)
  BY DEF RecordVerify, Reread
<1>4. Claim(p) \/ Extract(p) => Around(p)
  BY DEF Claim, Extract, vault, files, Around
<1>5. RecordAppend(p) => Around(p)
  <2> SUFFICES ASSUME RecordAppend(p)
               PROVE  Around(p)
    OBVIOUS
  <2>1. /\ run[p].pc = "append" /\ docs' = docs /\ session' = session /\ applied' = applied
        /\ edits' = edits /\ proposals' = proposals /\ (faults' = faults \/ Fault)
        /\ \/ Write(run[p].attempt, run[p].pending) \/ UNCHANGED <<ledger, tail>> \/ Tear
    BY DEF RecordAppend, vault, files
  <2>2. CASE UNCHANGED <<ledger, tail>>
    BY <2>1, <2>2 DEF Around
  <2>3. CASE Tear
    BY <2>1, <2>3 DEF Around, Tear
  <2>4. CASE Write(run[p].attempt, run[p].pending)
    <3>1. run[p].attempt \in Attempts
      BY <2>1, Begun
    <3>2. CASE ledger' = [ledger EXCEPT ![run[p].attempt] = Append(@, run[p].pending)] /\ tail' = tail
      <4>1. \A a \in Attempts :
              ledger'[a] = ledger[a] \/ ledger'[a] = Append(ledger[a], run[p].pending)
        BY <1>0, <3>2 DEF Shape
      <4> QED BY <2>1, <3>2, <4>1 DEF Around
    <3>3. CASE tail' = "malformed" /\ ledger' = ledger
      BY <2>1, <3>3 DEF Around
    <3> QED BY <2>4, <3>2, <3>3 DEF Write
  <2> QED BY <2>1, <2>2, <2>3, <2>4
<1>6. \A slot \in Slots : PersistArtifact(p, slot) => Around(p)
  BY DEF PersistArtifact, vault, Around
<1>7. PersistProposal(p) => Around(p)
  <2> SUFFICES ASSUME PersistProposal(p)
               PROVE  Around(p)
    OBVIOUS
  <2>1. /\ docs' = docs /\ session' = session /\ applied' = applied /\ edits' = edits
        /\ ledger' = ledger /\ tail' = tail /\ (faults' = faults \/ Fault)
        /\ \/ proposals' = proposals
           \/ \E left \in {proposals[run[p].attempt], run[p].ops} :
                proposals' = [proposals EXCEPT ![run[p].attempt] = left]
    BY DEF PersistProposal, vault
  <2>2. \A a \in Attempts : proposals'[a] \in {proposals[a], run[p].ops}
    BY <1>0, <2>1 DEF Shape
  <2> QED BY <2>1, <2>2 DEF Around
<1>8. Crash(p) => Around(p)
  BY DEF Crash, Tear, vault, Around
<1> QED BY <1>1, <1>2, <1>3, <1>4, <1>5, <1>6, <1>7, <1>8 DEF Step

LEMMA CountsKeep ==
  ASSUME Typed, faults' = faults \/ Fault, edits' = edits
  PROVE  faults' \in Nat /\ edits' \in Nat /\ faults' + edits' <= MaxDisturbances
BY PostSessionAssumption DEF Typed, Fault

LEMMA RunsKeepTyped ==
  ASSUME Inv, Typed, NEW p \in Procs, Around(p), Moves(p), RunTyped(run'[p], session.id)
  PROVE  Typed'
<1>1. /\ docs' = docs /\ session' = session /\ applied' = applied
  BY DEF Around
<1>2. faults' \in Nat /\ edits' \in Nat /\ faults' + edits' <= MaxDisturbances
  BY CountsKeep DEF Around
<1>3. tail' \in {"clean", "torn", "malformed"}
  BY DEF Around, Typed
<1>4. \A q \in Procs : RunTyped(run'[q], session.id)
  BY DEF Moves, Typed
<1>5. \A a \in Attempts : proposals'[a] # NoValue => Planned(proposals'[a], session.id)
  BY DEF Around, Typed, RunTyped
<1>6. ASSUME NEW a \in Attempts, NEW e \in ToSet(ledger'[a])
      PROVE  e.id[1] \in Procs
  <2>1. CASE ledger'[a] = ledger[a]
    BY <1>6, <2>1 DEF Typed
  <2>2. CASE run[p].pc = "append" /\ ledger'[a] = Append(ledger[a], run[p].pending)
    <3>1. PICK S : ledger[a] \in Seq(S)
      BY DEF Inv, AttemptOK, Story
    <3>2. e \in ToSet(ledger[a]) \/ e = run[p].pending
      BY <1>6, <2>2, <3>1, Appending
    <3>3. run[p].pending.id[1] \in Procs
      BY <2>2 DEF Typed, RunTyped, Recording
    <3> QED BY <3>2, <3>3 DEF Typed
  <2> QED BY <2>1, <2>2 DEF Around
<1> QED BY <1>1, <1>2, <1>3, <1>4, <1>5, <1>6 DEF Typed

LEMMA ActorsKeepTyped ==
  ASSUME Inv, Typed, NEW p \in Procs, Step(p) \/ Crash(p)
  PROVE  Typed'
<1>1. Around(p)
  BY StepAround
<1>2. CASE Step(p)
  BY <1>1, <1>2, StepTypes, RunsKeepTyped
<1>3. CASE Crash(p)
  <2>1. Shape
    BY DEF Inv
  <2>2. /\ Moves(p) /\ run'[p].pc = "done" /\ run'[p].ops = <<>>
    BY <1>3, <2>1 DEF Crash, Shape, Idle, Moves
  <2>3. RunTyped(run'[p], session.id)
    BY <2>2, NothingPlanned DEF RunTyped, Recording
  <2> QED BY <1>1, <2>2, <2>3, RunsKeepTyped
<1> QED BY <1>2, <1>3

LEMMA StartKeepsTyped ==
  ASSUME Inv, Typed, NEW p \in Procs, NEW a \in AttemptsOf[p], Start(p, a)
  PROVE  Typed'
<1>1. /\ docs' = docs /\ session' = session /\ applied' = applied /\ edits' = edits
      /\ faults' = faults /\ tail' = tail /\ proposals' = proposals /\ ledger' = ledger
  BY DEF Start, Unchanged, vault, files
<1>2. /\ Moves(p) /\ run'[p].pc \in {"prepare", "done"}
      /\ run'[p].ops = run[p].ops
  BY DEF Inv, Shape, Start, Idle, Moves
<1>3. RunTyped(run'[p], session.id)
  BY <1>2 DEF Typed, RunTyped, Recording
<1>4. Around(p)
  BY <1>1 DEF Around
<1> QED BY <1>2, <1>3, <1>4, RunsKeepTyped

LEMMA EditKeepsTyped ==
  ASSUME Typed, EditByHand
  PROVE  Typed'
<1>1. /\ ledger' = ledger /\ tail' = tail /\ proposals' = proposals /\ applied' = applied
      /\ run' = run /\ faults' = faults
  BY DEF EditByHand, files
<1>2. edits' \in Nat /\ faults + edits' <= MaxDisturbances
  BY PostSessionAssumption DEF EditByHand, Typed
<1>3. session' \in SessionStates /\ session'.id = session.id
  BY PostSessionAssumption DEF EditByHand, Typed
<1>4. DOMAIN docs' = DOMAIN docs
  BY DEF EditByHand
<1> QED BY <1>1, <1>2, <1>3, <1>4 DEF Typed

LEMMA ApplyKeepsTyped ==
  ASSUME Typed, NEW a \in Attempts, ApplyProposal(a)
  PROVE  Typed'
<1>1. /\ ledger' = ledger /\ tail' = tail /\ proposals' = proposals /\ session' = session
      /\ run' = run /\ faults' = faults /\ edits' = edits /\ applied' \subseteq Attempts
  BY DEF ApplyProposal, files, Typed
<1>2. Planned(proposals[a], session.id) /\ docs' = ApplyAll(docs, proposals[a])
  BY DEF ApplyProposal, Typed
<1>3. DOMAIN docs' \subseteq DOMAIN docs \union Named(session.id)
  <2> DEFINE ops == proposals[a]
  <2>1. IsSeq(ops) /\ \A j \in DOMAIN ops : ops[j].op = "create" => ops[j].id \in Named(session.id)
    BY <1>2 DEF Planned
  <2> HIDE DEF ops
  <2>2. \A id \in DOMAIN ApplyAll(docs, ops) :
          id \in DOMAIN docs \/ \E j \in DOMAIN ops : ops[j].op = "create" /\ ops[j].id = id
    BY <2>1, ApplyKeeps
  <2>3. docs' = ApplyAll(docs, ops)
    BY <1>2 DEF ops
  <2> QED BY <2>1, <2>2, <2>3
<1> QED BY <1>1, <1>3 DEF Typed

LEMMA TypedStep ==
  ASSUME Inv, Typed, [Next]_vars
  PROVE  Typed'
<1>1. CASE UNCHANGED vars
  BY <1>1 DEF vars, Typed
<1>2. CASE Next
  BY <1>2, ActorsKeepTyped, StartKeepsTyped, EditKeepsTyped, ApplyKeepsTyped DEF Next
<1> QED BY <1>1, <1>2

LEMMA TypedInit ==
  ASSUME Init
  PROVE  Typed
<1>1. \A p \in Procs : run[p].pc = "idle" /\ run[p].ops = <<>>
  BY DEF Init, Idle
<1>2. \A p \in Procs : RunTyped(run[p], session.id)
  BY <1>1, NothingPlanned DEF RunTyped, Recording
<1>3. \A a \in Attempts : proposals[a] = NoValue /\ ToSet(ledger[a]) = {}
  BY DEF Init, ToSet
<1> QED BY <1>2, <1>3, PostSessionAssumption DEF Init, Typed

(* What a state is made of: an attempt's events are by processes, a run    *)
(* prepared the session there is, the vault holds the documents of the     *)
(* start and those a candidate was created as.                             *)
THEOREM Typing == Spec => []TypeOK
<1>1. Init => Inv /\ Typed
  BY InvInit, TypedInit
<1>2. Inv /\ Typed /\ [Next]_vars => Inv' /\ Typed'
  BY InvStep, TypedStep
<1>3. ASSUME Inv, Typed
      PROVE  TypeOK
  <2>1. \A a \in Attempts : \A e \in ToSet(ledger[a]) : e.id[1] \in Procs /\ e.kind \in Kinds
    BY <1>3 DEF Inv, AttemptOK, Story, Typed, ToSet
  <2>2. DOMAIN docs \subseteq DOMAIN Documents \union
          {Allocate(session.id, k.type, k.name) : k \in UNION {ToSet(x.candidates) : x \in Extractions}}
    BY <1>3 DEF Typed, Named
  <2> QED BY <1>3, <2>1, <2>2 DEF TypeOK, Inv, Shape, Typed
<1> QED BY <1>1, <1>2, <1>3, PTL DEF Spec

-----------------------------------------------------------------------------
(* Facts.  The vault and the lines typed in by hand have no line twice at  *)
(* the start; and whoever adds a line by hand raises the revision, and     *)
(* nobody takes a revision back.                                           *)
CleanVault == Vault(Documents) /\ \A e \in HandEdits : DocOK(e[2])

CarefulEdit == EditByHand => Onward(docs, docs')

(* Every plan in a run or on disk fits the vault as it is.                 *)
Facts ==
  /\ Vault(docs)
  /\ \A p \in Procs : Fits(run[p].ops, docs)
  /\ \A a \in Attempts : proposals[a] # NoValue => Fits(proposals[a], docs)

LEMMA NothingFits ==
  ASSUME NEW ds
  PROVE  Fits(<<>>, ds)
<1>1. <<>> \in Seq({}) /\ DOMAIN <<>> = {}
  OBVIOUS
<1>2. Appended(<<>>) = {}
  BY <1>1 DEF Appended
<1> QED BY <1>1, <1>2 DEF Fits, IsSeq, Distinct, Ahead

(* The documents stay, and each run keeps its operations, plans or ends.   *)
LEMMA RunsKeepFacts ==
  ASSUME Inv, Typed, Facts, NEW p \in Procs, Step(p) \/ Crash(p)
  PROVE  Facts'
<1>1. /\ docs' = docs
      /\ \A a \in Attempts : proposals'[a] \in {proposals[a], run[p].ops}
  BY StepAround DEF Around
<1>2. Shape /\ Fits(run[p].ops, docs)
  BY DEF Inv, Facts
<1>3. Moves(p) /\ Fits(run'[p].ops, docs)
  <2>1. CASE Crash(p)
    <3>1. /\ Moves(p) /\ run'[p].ops = <<>>
      BY <1>2, <2>1 DEF Crash, Shape, Idle, Moves
    <3> QED BY <3>1, NothingFits
  <2>2. CASE Prepare(p)
    <3>1. CASE \E why : Report(p, "failed", why)
      BY <1>2, <3>1, ReportCarries, NothingFits DEF Carried
    <3>2. CASE run' = [run EXCEPT ![p].pc = "fold", ![p].seen = NoValue,
                                  ![p].prepared = PreparedInput(session, docs)]
      BY <1>2, <3>2 DEF Shape, Idle, Moves
    <3> QED BY <2>2, <3>1, <3>2 DEF Prepare
  <2>3. CASE Extract(p)
    <3>1. CASE \E x \in Extractions : run' = [run EXCEPT ![p].pc = "produce", ![p].accepted = x]
      BY <1>2, <3>1 DEF Shape, Idle, Moves
    <3>2. CASE Fail(p, "extraction")
      BY <1>2, <3>2, FailCarries, NothingFits DEF Carried
    <3> QED BY <2>3, <3>1, <3>2 DEF Extract, ModelError
  <2>4. CASE Produce(p)
    <3> DEFINE plan == Plan(docs, run[p].accepted, run[p].prepared)
    <3>1. run[p].accepted \in Extractions
      BY <2>4 DEF Produce, Typed, RunTyped
    <3>2. Fits(plan, docs)
      BY <3>1, PlanFits, PostSessionAssumption DEF IsList, Facts
    <3> HIDE DEF plan
    <3>3. Moves(p) /\ run'[p].ops = plan
      BY <1>2, <2>4 DEF Produce, Shape, Idle, Moves, plan
    <3> QED BY <3>2, <3>3
  <2>5. CASE Step(p) /\ ~Prepare(p) /\ ~Extract(p) /\ ~Produce(p)
    <3>1. Moves(p) /\ run'[p].ops \in {run[p].ops, <<>>}
      BY <2>5, StepCarries DEF Carried
    <3> QED BY <1>2, <3>1, NothingFits
  <2> QED BY <2>1, <2>2, <2>3, <2>4, <2>5
<1>4. \A q \in Procs : Fits(run'[q].ops, docs)
  BY <1>3 DEF Moves, Facts
<1>5. \A a \in Attempts : proposals'[a] # NoValue => Fits(proposals'[a], docs)
  BY <1>1, <1>2 DEF Facts
<1> QED BY <1>1, <1>4, <1>5 DEF Facts

(* A vault that moves on keeps every plan fitting.                         *)
LEMMA VaultMovesOn ==
  ASSUME Facts, Vault(docs'), Onward(docs, docs'), run' = run, proposals' = proposals
  PROVE  Facts'
<1>1. ASSUME NEW ops, Fits(ops, docs)
      PROVE  Fits(ops, docs')
  BY <1>1, FitsOn DEF Facts
<1> QED BY <1>1 DEF Facts

LEMMA FactsStep ==
  ASSUME CleanVault, Inv, Typed, Facts, [Next]_vars, [CarefulEdit]_vars
  PROVE  Facts'
<1>1. CASE UNCHANGED vars
  BY <1>1 DEF vars, files, Facts
<1>2. ASSUME NEW p \in Procs, Step(p) \/ Crash(p)
      PROVE  Facts'
  BY <1>2, RunsKeepFacts
<1>3. ASSUME NEW p \in Procs, NEW a \in AttemptsOf[p], Start(p, a)
      PROVE  Facts'
  <2>1. docs' = docs /\ proposals' = proposals
    BY <1>3 DEF Start, Unchanged, vault, files
  <2>2. /\ Moves(p) /\ run'[p].ops = run[p].ops
    BY <1>3 DEF Inv, Shape, Start, Idle, Moves
  <2> QED BY <2>1, <2>2 DEF Facts, Moves
<1>4. CASE EditByHand
  <2>1. run' = run /\ proposals' = proposals
    BY <1>4 DEF EditByHand, files
  <2>2. Onward(docs, docs')
    <3>1. edits' # edits
      BY <1>4 DEF EditByHand, Typed
    <3> QED BY <1>4, <3>1 DEF CarefulEdit, vars
  <2>3. Vault(docs')
    BY <1>4 DEF EditByHand, CleanVault, Vault, Facts
  <2> QED BY <2>1, <2>2, <2>3, VaultMovesOn
<1>5. ASSUME NEW a \in Attempts, ApplyProposal(a)
      PROVE  Facts'
  <2>1. /\ run' = run /\ proposals' = proposals /\ docs' = ApplyAll(docs, proposals[a])
        /\ Fits(proposals[a], docs) /\ Vault(docs)
    BY <1>5 DEF ApplyProposal, files, Facts
  <2>2. Vault(docs') /\ Onward(docs, docs')
    BY <2>1, ApplyKeeps DEF Fits
  <2> QED BY <2>1, <2>2, VaultMovesOn
<1> QED BY <1>1, <1>2, <1>3, <1>4, <1>5 DEF Next

LEMMA OnceCounts ==
  ASSUME NEW b, IsSeq(b), Once(b)
  PROVE  Len(b) = Cardinality(ToSet(b))
<1>1. PICK S : b \in Seq(S)
  BY DEF IsSeq
<1>2. DOMAIN b = 1..Len(b) /\ Len(b) \in Nat /\ b = [i \in 1..Len(b) |-> b[i]]
  BY <1>1
<1>3. b \in Bijection(1..Len(b), ToSet(b))
  BY <1>2 DEF Once, ToSet, Bijection, Injection, Surjection, IsInjective
<1> QED BY <1>2, <1>3, FS_CountingElements DEF ExistsBijection

(* However the attempts interleave, and whichever of their proposals are   *)
(* applied in whichever order: no document ends up with a fact twice.  The *)
(* check at the application is of revisions, so it needs edits by hand to  *)
(* raise them: a line typed in under the old revision may be the fact of a *)
(* proposal that still fits.                                               *)
THEOREM FactsStayOnce ==
  CleanVault /\ Spec /\ [][CarefulEdit]_vars => []FactsOnce
<1> SUFFICES ASSUME CleanVault
             PROVE  Spec /\ [][CarefulEdit]_vars => []FactsOnce
  OBVIOUS
<1>1. Init => Inv /\ Typed /\ Facts
  <2>1. ASSUME Init
        PROVE  Facts
    <3>1. /\ Vault(docs) /\ \A a \in Attempts : proposals[a] = NoValue
          /\ \A p \in Procs : run[p].ops = <<>>
      BY <2>1 DEF Init, CleanVault, Idle
    <3> QED BY <3>1, NothingFits DEF Facts
  <2> QED BY <2>1, InvInit, TypedInit
<1>2. Inv /\ Typed /\ Facts /\ [Next]_vars /\ [CarefulEdit]_vars => Inv' /\ Typed' /\ Facts'
  BY InvStep, TypedStep, FactsStep
<1>3. Facts => FactsOnce
  BY OnceCounts DEF Facts, Vault, DocOK, FactsOnce
<1> QED BY <1>1, <1>2, <1>3, PTL DEF Spec
=============================================================================
