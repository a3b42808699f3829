-------------------------- MODULE Bootstrap_proofs --------------------------
(***************************************************************************)
(* The Campaign State a rebuild returns is real.  The rebuild has no lock  *)
(* over its sources: it reads the clock, the sessions and the entities one *)
(* after another, twice, and publishes when the two derivations agree.     *)
(*                                                                         *)
(* Why that is enough.  The clock's revision only grows, so two equal      *)
(* readings of it mean it stood still between them.  A session changes     *)
(* only while it is active, and the recent ones are selected by when they  *)
(* were completed: what came in between would still be selected, or have   *)
(* been pushed out by what came after it (SelectionBetween).  So at the    *)
(* instant the first derivation read the entities, the clock and the       *)
(* sessions already said what both derivations found (RealBetween).        *)
(*                                                                         *)
(* Inv carries this through a run: RunReal says what is known where, given *)
(* the instants the call has lived through; Shape is what the steps rest   *)
(* on.  Steps of other processes and of the owner only add instants and    *)
(* let time pass (RunGrows).                                               *)
(*                                                                         *)
(* The second part is about the artifacts of the workflow: evidence and    *)
(* approvals lie only beside their whole proposal, and what was written is *)
(* never written again.  FilesInv says who may be at which step of storing *)
(* what, next to which files.                                              *)
(*                                                                         *)
(* The third part is about names.  With complete coverage a fingerprint    *)
(* knows every name in the vault (CoverageKnows), and what the model is    *)
(* asked to create from it has a name it does not know, each once          *)
(* (MappingIsSound).  A proposal passes the gate only with the fingerprint *)
(* of the sources as they are.  WorkOK says what a run knows where it      *)
(* stands, which gives the types; NamesOK, that from the gate to its last  *)
(* operation what a run has yet to create has a name nobody goes by.       *)
(*                                                                         *)
(* The fourth part is about what becomes of sources and items.  The order  *)
(* of paths lists each path once, and each step of packing puts one at one *)
(* place or none (PackPlaces); each step of a plan makes an operation of   *)
(* one item or gives its reason (NextItem), and an item keeps what became  *)
(* of it.  Ids are scoped by batch, so no two items are told as one.       *)
(***************************************************************************)
EXTENDS Bootstrap, SequenceTheorems, FiniteSetTheorems, WellFoundedInduction, TLAPS

(* Time in the sources: the clock's revision grows, and a session changes  *)
(* only as long as it is active.                                           *)
Later(c, d) == c = d \/ (c.rev \in Int /\ d.rev \in Int /\ c.rev < d.rev)

Grown(ss, tt) ==
  /\ DOMAIN tt = DOMAIN ss
  /\ \A s \in DOMAIN ss : ss[s].status # "active" => tt[s] = ss[s]

SessionsOK(ss) ==
  /\ IsFiniteSet(DOMAIN ss) /\ DOMAIN ss \subseteq Int
  /\ \A s \in DOMAIN ss :
       /\ DOMAIN ss[s] = SessionFields /\ ss[s].started \in Int
       /\ ss[s].finished # NoValue => ss[s].finished \in Int

(* The instants of a call at which the sources said what it derived.       *)
Real(identity, seen) ==
  \E i \in seen : Derivable(i[1], i[2], i[3]) /\ Identity(i[1], i[2], i[3]) = identity

(* Between the two derivations: at one instant of the call the entities    *)
(* were read, and the clock and the sessions read before have only grown   *)
(* since, up to what the second derivation reads.                          *)
Between(r, seen, c, ss) ==
  \E i, w, tt :
    /\ i \in seen /\ r.first = Identity(i[1], w, tt)
    /\ w # NoValue /\ ~SourceFailure(tt) /\ SessionsOK(tt)
    /\ ListOutcome(i[1]) = "ok" /\ ~Missing(i[1], tt)
    /\ Later(w, i[2]) /\ Grown(tt, i[3])
    /\ Later(i[2], IF r.pc = "world" THEN c ELSE r.world)
    /\ Grown(i[3], IF r.pc = "entities" THEN r.sessions ELSE ss)
    /\ r.pc = "entities" => SessionsOK(r.sessions) /\ ~SourceFailure(r.sessions)

Reading == {"world", "sessions", "entities"}
Publishing == {"world_state", "recently_touched", "commit"}
Told == {"published", "already_current"}

\* A run that derives, or has derived: r, at the instants seen, with the clock
\* c and the sessions ss.
RunReal(r, seen, c, ss) ==
  /\ r.pc \in Reading => r.phase \in {"initial", "fresh", "inspect"}
  /\ r.pc \in {"manifest", "texts"} => r.phase \in {"fresh", "inspect"}
  /\ r.pc = "index_list" => r.phase \in {"index_replace", "index_verify"}
  /\ r.pc \in {"sessions", "entities"} /\ r.phase = "initial" =>
       r.world # NoValue /\ Later(r.world, c)
  /\ r.pc = "entities" /\ r.phase = "initial" =>
       SessionsOK(r.sessions) /\ ~SourceFailure(r.sessions) /\ Grown(r.sessions, ss)
  /\ r.pc \in Reading /\ r.phase = "fresh" => Between(r, seen, c, ss)
  /\ \/ r.pc \in {"manifest", "texts"} /\ r.phase = "fresh"
     \/ r.pc \in Publishing
     \/ r.pc = "returned" /\ r.outcome \in Told
     => Real(r.identity, seen)

Storage == {"probe", "create", "write"}

\* What a command remembers, where its run is at r.
FlowOK(r, f) ==
  /\ DOMAIN f = DOMAIN NoFlow
  /\ r.pc \in Storage => f.kind \in Kinds
  /\ f.kind = "approval" => f.decision \in {"approved", "rejected"}

Shape ==
  /\ DOMAIN run = Procs /\ DOMAIN flow = Procs /\ DOMAIN todo = Procs
  /\ \A p \in Procs :
       /\ DOMAIN run[p] = DOMAIN Idle /\ todo[p] \in Seq(Commands)
       /\ run[p].pc # "idle" => run[p].call \in Commands
       /\ FlowOK(run[p], flow[p])

Inv ==
  /\ clock # NoValue => clock.rev \in Int
  /\ SessionsOK(sessions)
  /\ Shape
  /\ \A p \in Procs : RunReal(run[p], past[p], clock, sessions)

-----------------------------------------------------------------------------
(* The most recent sessions.                                               *)

LEMMA GrownTransitive ==
  ASSUME NEW ss, NEW tt, NEW uu, Grown(ss, tt), Grown(tt, uu)
  PROVE  Grown(ss, uu)
BY DEF Grown

LEMMA LaterTransitive ==
  ASSUME NEW c, NEW d, NEW e, Later(c, d), Later(d, e)
  PROVE  Later(c, e) /\ (c = e => d = c)
BY DEF Later

(* A completed session stays completed, and as recent as it was.           *)
LEMMA StaysCompleted ==
  ASSUME NEW ss, NEW tt, Grown(ss, tt)
  PROVE  /\ Completed(ss) \subseteq Completed(tt)
         /\ \A s \in Completed(ss) : tt[s] = ss[s]
         /\ \A r, s \in Completed(ss) : MoreRecent(tt, r, s) <=> MoreRecent(ss, r, s)
BY DEF Grown, Completed, MoreRecent

LEMMA Order ==
  ASSUME NEW ss, SessionsOK(ss), SessionsValid(ss)
  PROVE  /\ IsFiniteSet(Completed(ss))
         /\ \A r \in Completed(ss) : ~MoreRecent(ss, r, r)
         /\ \A r, s, t \in Completed(ss) :
              MoreRecent(ss, r, s) /\ MoreRecent(ss, s, t) => MoreRecent(ss, r, t)
<1>1. Completed(ss) \subseteq DOMAIN ss /\ IsFiniteSet(DOMAIN ss)
  BY DEF Completed, SessionsOK
<1>2. IsFiniteSet(Completed(ss))
  BY <1>1, FS_Subset
<1>3. \A s \in Completed(ss) : s \in Int /\ ss[s].finished \in Int
  BY DEF Completed, SessionsOK, SessionsValid
<1> QED BY <1>2, <1>3 DEF MoreRecent

(* A set of numbers has a least one.                                       *)
LEMMA LeastNumber ==
  ASSUME NEW N \in SUBSET Nat, N # {}
  PROVE  \E m \in N : \A k \in N : ~(k < m)
<1> DEFINE R == {ss \in Nat \X Nat : ss[1] < ss[2]}
<1>1. IsWellFoundedOn(R, Nat)
  BY NatLessThanWellFounded DEF OpToRel
<1>2. \A x, y \in Nat : x < y => <<x, y>> \in R
  OBVIOUS
<1> HIDE DEF R
<1>3. PICK m \in N : \A k \in N : ~(<<k, m>> \in R)
  BY <1>1, WFMin
<1> QED BY <1>2, <1>3

(* When two selections are the same, so is every one between them: a       *)
(* session that came in between would still be there, or be pushed out by  *)
(* one that came later and is there.                                       *)
LEMMA SelectionBetween ==
  ASSUME NEW ss, NEW tt, NEW uu, Grown(ss, tt), Grown(tt, uu),
         SessionsOK(uu), SessionsValid(uu), Selected(ss) = Selected(uu)
  PROVE  Selected(tt) = Selected(ss)
<1> DEFINE C(xx) == Completed(xx)
           Above(xx, s) == {r \in Completed(xx) : MoreRecent(xx, r, s)}
           n(xx, s) == Cardinality(Above(xx, s))
<1>1. /\ C(ss) \subseteq C(tt) /\ C(tt) \subseteq C(uu)
      /\ \A r, s \in C(tt) : MoreRecent(uu, r, s) <=> MoreRecent(tt, r, s)
      /\ \A r, s \in C(ss) : MoreRecent(tt, r, s) <=> MoreRecent(ss, r, s)
  BY StaysCompleted
<1>2. /\ IsFiniteSet(C(uu))
      /\ \A r \in C(uu) : ~MoreRecent(uu, r, r)
      /\ \A r, s, t \in C(uu) : MoreRecent(uu, r, s) /\ MoreRecent(uu, s, t) => MoreRecent(uu, r, t)
  BY Order
<1>3. \A s : /\ s \in Selected(ss) <=> s \in C(ss) /\ n(ss, s) < RecentLimit
             /\ s \in Selected(tt) <=> s \in C(tt) /\ n(tt, s) < RecentLimit
             /\ s \in Selected(uu) <=> s \in C(uu) /\ n(uu, s) < RecentLimit
  BY DEF Selected
<1>4. /\ \A s \in C(ss) : Above(ss, s) \subseteq Above(tt, s)
      /\ \A s \in C(tt) : Above(tt, s) \subseteq Above(uu, s)
      /\ \A s : Above(uu, s) \subseteq C(uu)
  BY <1>1
<1>5. \A s : IsFiniteSet(Above(uu, s))
  BY <1>2, <1>4, FS_Subset
<1> HIDE DEF C, Above
<1>6. \A S : \A s : S \subseteq Above(uu, s) =>
         IsFiniteSet(S) /\ Cardinality(S) \in Nat /\ Cardinality(S) <= n(uu, s) /\ n(uu, s) \in Nat
              /\ (Cardinality(S) = n(uu, s) => S = Above(uu, s))
  BY <1>5, FS_Subset, FS_CardinalityType
<1>7. RecentLimit \in Nat
  BY CampaignAssumption
<1>8. Selected(ss) \subseteq Selected(tt)
  <2> SUFFICES ASSUME NEW s \in Selected(ss)
               PROVE  s \in Selected(tt)
    OBVIOUS
  <2>1. s \in C(tt) /\ n(uu, s) < RecentLimit
    BY <1>1, <1>3
  <2>2. n(tt, s) \in Nat /\ n(tt, s) <= n(uu, s) /\ n(uu, s) \in Nat
    BY <1>4, <1>6, <2>1
  <2> QED BY <1>3, <1>7, <2>1, <2>2
<1>9. Selected(tt) \subseteq Selected(ss)
  <2> SUFFICES ASSUME NEW r \in Selected(tt)
               PROVE  r \in Selected(ss)
    OBVIOUS
  <2>1. r \in C(tt) /\ r \in C(uu) /\ n(tt, r) < RecentLimit
    BY <1>1, <1>3
  <2>2. CASE r \in C(ss)
    <3>1. Above(ss, r) \subseteq Above(tt, r) /\ Above(tt, r) \subseteq Above(uu, r)
      BY <1>4, <2>1, <2>2
    <3>2. IsFiniteSet(Above(tt, r)) /\ n(tt, r) \in Nat
      BY <1>6, <3>1
    <3>3. n(ss, r) \in Nat /\ n(ss, r) <= n(tt, r)
      BY <3>1, <3>2, FS_Subset, FS_CardinalityType
    <3> QED BY <1>3, <1>7, <2>1, <2>2, <3>2, <3>3
  <2>3. CASE r \notin C(ss)
    <3> DEFINE D == Above(uu, r) \ Above(tt, r)
               Ns == {n(uu, q) : q \in D}
    <3>1. r \notin Selected(uu) /\ ~(n(uu, r) < RecentLimit)
      BY <1>3, <2>1, <2>3
    <3>2. Above(tt, r) \subseteq Above(uu, r)
      BY <1>4, <2>1
    <3>3. D # {}
      <4>1. SUFFICES ASSUME D = {}
                     PROVE  FALSE
        OBVIOUS
      <4>2. Above(tt, r) = Above(uu, r)
        BY <3>2, <4>1
      <4> QED BY <2>1, <3>1, <4>2
    <3>4. Ns \subseteq Nat /\ Ns # {}
      BY <1>6, <3>3
    <3>5. PICK m \in Ns : \A k \in Ns : ~(k < m)
      <4> HIDE DEF Ns
      <4> QED BY <3>4, LeastNumber
    <3>6. PICK q \in D : n(uu, q) = m
      BY <3>5
    <3>7. \A x \in D : ~(n(uu, x) < n(uu, q))
      BY <3>5, <3>6
    <3>8. /\ q \in C(uu) /\ MoreRecent(uu, q, r) /\ q \notin C(tt)
      BY <1>1, <2>1, <3>6 DEF Above, C
    <3>9. Above(uu, q) \subseteq Above(tt, r)
      <4> SUFFICES ASSUME NEW x \in Above(uu, q), x \notin Above(tt, r)
                   PROVE  FALSE
        OBVIOUS
      <4>1. x \in C(uu) /\ MoreRecent(uu, x, q)
        BY DEF Above, C
      <4>2. MoreRecent(uu, x, r)
        BY <1>2, <2>1, <3>8, <4>1
      <4>3. x \in D
        BY <4>1, <4>2 DEF Above, C
      <4>4. Above(uu, x) \subseteq Above(uu, q)
        BY <1>2, <3>8, <4>1 DEF Above, C
      <4>5. x \in Above(uu, q) /\ x \notin Above(uu, x)
        BY <1>2, <4>1 DEF Above
      <4>6. n(uu, x) < n(uu, q)
        BY <1>6, <4>4, <4>5
      <4> QED BY <3>7, <4>3, <4>6
    <3>10. n(uu, q) <= n(tt, r) /\ n(uu, q) \in Nat /\ n(tt, r) \in Nat
      <4>1. IsFiniteSet(Above(tt, r)) /\ n(tt, r) \in Nat
        BY <1>6, <3>2
      <4> QED BY <3>9, <4>1, FS_Subset, FS_CardinalityType
    <3>11. q \in Selected(uu)
      BY <1>3, <1>7, <2>1, <3>8, <3>10
    <3>12. q \in C(tt)
      BY <1>1, <1>3, <3>11
    <3> QED BY <3>8, <3>12
  <2> QED BY <2>2, <2>3
<1> QED BY <1>8, <1>9

(* Two derivations with the same result, read one after another: so it was *)
(* when the first one read the entities.                                   *)
LEMMA RealBetween ==
  ASSUME NEW v, NEW c, NEW ss, NEW w, NEW tt, NEW vv, NEW d, NEW uu,
         Identity(v, w, tt) = Identity(vv, d, uu),
         w # NoValue, ~SourceFailure(tt), ListOutcome(v) = "ok", ~Missing(v, tt),
         Later(w, c), Later(c, d), Grown(tt, ss), Grown(ss, uu),
         SessionsOK(uu), ~SourceFailure(uu)
  PROVE  Derivable(v, c, ss) /\ Identity(v, c, ss) = Identity(v, w, tt)
<1>1. w = d /\ c = w
  BY LaterTransitive DEF Identity
<1>2. Selected(tt) = Selected(uu)
  <2>1. Identity(v, w, tt).sessions = Identity(vv, d, uu).sessions
    OBVIOUS
  <2>2. [s \in Selected(tt) |-> tt[s].rev] = [s \in Selected(uu) |-> uu[s].rev]
    BY <2>1 DEF Identity
  <2> QED BY <2>2
<1>3. Selected(ss) = Selected(tt)
  BY <1>2, SelectionBetween DEF SourceFailure
<1>4. \A s \in Selected(tt) : ss[s] = tt[s]
  BY StaysCompleted DEF Selected
<1>5. Touched(ss) = Touched(tt)
  BY <1>3, <1>4 DEF Touched
<1>6. \A note, id : Reference(note, ss, id) = Reference(note, tt, id)
  BY <1>3, <1>4 DEF Reference
<1>7. Identity(v, c, ss) = Identity(v, w, tt)
  BY <1>1, <1>3, <1>4, <1>5, <1>6 DEF Identity
<1>8. SessionsValid(ss)
  BY DEF Grown, SourceFailure, SessionsValid, Completed
<1> QED BY <1>1, <1>5, <1>7, <1>8 DEF Derivable, SourceFailure, Missing

(* What is known of a run stays true while others go on.                   *)
LEMMA RealMore ==
  ASSUME NEW identity, NEW seen, NEW more, seen \subseteq more, Real(identity, seen)
  PROVE  Real(identity, more)
BY DEF Real

LEMMA BetweenGrows ==
  ASSUME NEW r, NEW seen, NEW more, NEW c, NEW d, NEW ss, NEW tt,
         Between(r, seen, c, ss), seen \subseteq more, Later(c, d), Grown(ss, tt)
  PROVE  Between(r, more, d, tt)
<1>1. PICK i, w, uu :
        /\ i \in seen /\ r.first = Identity(i[1], w, uu)
        /\ w # NoValue /\ ~SourceFailure(uu) /\ SessionsOK(uu)
        /\ ListOutcome(i[1]) = "ok" /\ ~Missing(i[1], uu)
        /\ Later(w, i[2]) /\ Grown(uu, i[3])
        /\ Later(i[2], IF r.pc = "world" THEN c ELSE r.world)
        /\ Grown(i[3], IF r.pc = "entities" THEN r.sessions ELSE ss)
        /\ r.pc = "entities" => SessionsOK(r.sessions) /\ ~SourceFailure(r.sessions)
  BY DEF Between
<1>2. Later(i[2], IF r.pc = "world" THEN d ELSE r.world)
  BY <1>1, LaterTransitive
<1>3. Grown(i[3], IF r.pc = "entities" THEN r.sessions ELSE tt)
  BY <1>1, GrownTransitive
<1> QED BY <1>1, <1>2, <1>3 DEF Between

LEMMA RunGrows ==
  ASSUME NEW r, NEW seen, NEW more, NEW c, NEW d, NEW ss, NEW tt,
         RunReal(r, seen, c, ss), seen \subseteq more, Later(c, d), Grown(ss, tt)
  PROVE  RunReal(r, more, d, tt)
<1>1. r.pc \in {"sessions", "entities"} /\ r.phase = "initial" => Later(r.world, d)
  BY LaterTransitive DEF RunReal
<1>2. r.pc = "entities" /\ r.phase = "initial" => Grown(r.sessions, tt)
  BY GrownTransitive DEF RunReal
<1>3. r.pc \in Reading /\ r.phase = "fresh" => Between(r, more, d, tt)
  BY BetweenGrows DEF RunReal
<1>4. Real(r.identity, seen) => Real(r.identity, more)
  BY RealMore
<1> QED BY <1>1, <1>2, <1>3, <1>4 DEF RunReal

-----------------------------------------------------------------------------
(* The steps of a derivation.                                              *)

(* A step of p that moves its run and leaves the sources alone.            *)
Moves(p) ==
  /\ DOMAIN run' = Procs /\ DOMAIN run'[p] = DOMAIN Idle
  /\ \A q \in Procs : q # p => run'[q] = run[q]
  /\ run'[p].call = run[p].call

Seen(p) == past[p] \union {sources}

Fine(p) ==
  /\ Moves(p) /\ run'[p].pc \notin {"idle", "probe", "create", "write"}
  /\ RunReal(run'[p], Seen(p), clock, sessions)

\* Where nothing is claimed.
Elsewhere(r) ==
  /\ r.pc \notin Reading \union {"manifest", "texts", "index_list"} \union Publishing
  /\ r.pc = "returned" => r.outcome \notin Told

LEMMA ElsewhereOK ==
  ASSUME NEW r, Elsewhere(r), NEW seen, NEW c, NEW ss
  PROVE  RunReal(r, seen, c, ss)
BY DEF Elsewhere, RunReal, Reading, Publishing

LEMMA ReturnIs ==
  ASSUME Shape, NEW p \in Procs, NEW outcome, Return(p, outcome)
  PROVE  /\ Moves(p) /\ run'[p].pc = "returned" /\ run'[p].outcome = outcome
         /\ run'[p].identity = run[p].identity
BY DEF Shape, Return, Change, Over, Idle, Moves

LEMMA ReturnOK ==
  ASSUME Shape, NEW p \in Procs, NEW outcome, Return(p, outcome), outcome \notin Told
  PROVE  Fine(p)
<1>1. Moves(p) /\ run'[p].pc = "returned" /\ run'[p].outcome = outcome
  BY ReturnIs
<1>2. Elsewhere(run'[p])
  BY <1>1 DEF Elsewhere, Reading, Publishing
<1> QED BY <1>1, <1>2, ElsewhereOK DEF Fine

LEMMA FailedOK ==
  ASSUME Shape, NEW p \in Procs, NEW reason, Failed(p, reason), reason \notin Told
  PROVE  Fine(p)
BY ReturnOK DEF Failed, Told

LEMMA ReadWorldOK ==
  ASSUME Inv, NEW p \in Procs, ReadWorld(p)
  PROVE  Fine(p)
<1>1. CASE Failed(p, "world_time_unavailable")
  BY <1>1, FailedOK DEF Inv, Told
<1>2. CASE clock # NoValue /\ Change(p, [pc |-> "sessions", world |-> clock])
  <2> DEFINE r == run[p]
             s == run'[p]
  <2>1. /\ Moves(p) /\ s.pc = "sessions" /\ s.world = clock /\ s.phase = r.phase
        /\ s.first = r.first
    BY <1>2 DEF Inv, Shape, Change, Over, Idle, Moves
  <2>2. r.pc = "world" /\ RunReal(r, past[p], clock, sessions)
    BY DEF ReadWorld, At, Inv
  <2>3. s.phase \in {"initial", "fresh", "inspect"}
    BY <2>1, <2>2 DEF RunReal, Reading
  <2>4. Later(s.world, clock)
    BY <2>1 DEF Later
  <2>5. s.phase = "fresh" => Between(s, Seen(p), clock, sessions)
    <3> SUFFICES ASSUME s.phase = "fresh"
                 PROVE  Between(s, Seen(p), clock, sessions)
      OBVIOUS
    <3>1. Between(r, past[p], clock, sessions)
      BY <2>1, <2>2 DEF RunReal, Reading
    <3>2. PICK i, w, uu :
            /\ i \in past[p] /\ r.first = Identity(i[1], w, uu)
            /\ w # NoValue /\ ~SourceFailure(uu) /\ SessionsOK(uu)
            /\ ListOutcome(i[1]) = "ok" /\ ~Missing(i[1], uu)
            /\ Later(w, i[2]) /\ Grown(uu, i[3])
            /\ Later(i[2], clock) /\ Grown(i[3], sessions)
      BY <2>2, <3>1 DEF Between
    <3>3. i \in Seen(p)
      BY <3>2 DEF Seen
    <3> HIDE DEF r, s
    <3> QED BY <2>1, <3>2, <3>3 DEF Between
  <2>6. RunReal(s, Seen(p), clock, sessions)
    BY <1>2, <2>1, <2>3, <2>4, <2>5 DEF RunReal, Publishing
  <2> QED BY <2>1, <2>6 DEF Fine
<1> QED BY <1>1, <1>2 DEF ReadWorld

LEMMA ReadSessionsOK ==
  ASSUME Inv, NEW p \in Procs, ReadSessions(p)
  PROVE  Fine(p)
<1>1. CASE Failed(p, "source_error")
  BY <1>1, FailedOK DEF Inv, Told
<1>2. CASE ~SourceFailure(sessions) /\ Change(p, [pc |-> "entities", sessions |-> sessions])
  <2> DEFINE r == run[p]
             s == run'[p]
  <2>1. /\ Moves(p) /\ s.pc = "entities" /\ s.sessions = sessions /\ s.world = r.world
        /\ s.phase = r.phase /\ s.first = r.first
    BY <1>2 DEF Inv, Shape, Change, Over, Idle, Moves
  <2>2. /\ r.pc = "sessions" /\ RunReal(r, past[p], clock, sessions)
        /\ SessionsOK(sessions) /\ Grown(sessions, sessions)
    BY DEF ReadSessions, At, Inv, Grown
  <2>3. s.phase \in {"initial", "fresh", "inspect"}
    BY <2>1, <2>2 DEF RunReal, Reading
  <2>4. s.phase = "initial" => s.world # NoValue /\ Later(s.world, clock)
    BY <2>1, <2>2 DEF RunReal
  <2>5. s.phase = "fresh" => Between(s, Seen(p), clock, sessions)
    <3> SUFFICES ASSUME s.phase = "fresh"
                 PROVE  Between(s, Seen(p), clock, sessions)
      OBVIOUS
    <3>1. Between(r, past[p], clock, sessions)
      BY <2>1, <2>2 DEF RunReal, Reading
    <3>2. PICK i, w, uu :
            /\ i \in past[p] /\ r.first = Identity(i[1], w, uu)
            /\ w # NoValue /\ ~SourceFailure(uu) /\ SessionsOK(uu)
            /\ ListOutcome(i[1]) = "ok" /\ ~Missing(i[1], uu)
            /\ Later(w, i[2]) /\ Grown(uu, i[3])
            /\ Later(i[2], r.world) /\ Grown(i[3], sessions)
      BY <2>2, <3>1 DEF Between
    <3>3. i \in Seen(p)
      BY <3>2 DEF Seen
    <3> HIDE DEF r, s
    <3> QED BY <1>2, <2>1, <2>2, <3>2, <3>3 DEF Between
  <2>6. RunReal(s, Seen(p), clock, sessions)
    BY <1>2, <2>1, <2>2, <2>3, <2>4, <2>5 DEF RunReal, Publishing
  <2> QED BY <2>1, <2>6 DEF Fine
<1> QED BY <1>1, <1>2 DEF ReadSessions

LEMMA ReadEntitiesOK ==
  ASSUME Inv, NEW p \in Procs, ReadEntities(p)
  PROVE  Fine(p)
<1> DEFINE r == run[p]
           s == run'[p]
           identity == Identity(vault, r.world, r.sessions)
<1>1. /\ Shape /\ r.pc = "entities" /\ RunReal(r, past[p], clock, sessions)
      /\ r.phase \in {"initial", "fresh", "inspect"}
  BY DEF ReadEntities, At, Inv, RunReal, Reading
<1>2. CASE ListOutcome(vault) # "ok" /\ Failed(p, ListOutcome(vault))
  BY <1>1, <1>2, FailedOK DEF ListOutcome, Told
<1>3. CASE Failed(p, "source_error")
  BY <1>1, <1>3, FailedOK DEF Told
<1>4. CASE /\ ListOutcome(vault) = "ok" /\ ~Missing(vault, r.sessions)
           /\ Derived(p, identity)
  <2>1. CASE r.phase = "initial" /\ Change(p, [pc |-> "world", phase |-> "fresh", first |-> identity])
    <3>1. Moves(p) /\ s.pc = "world" /\ s.phase = "fresh" /\ s.first = identity
      BY <1>1, <2>1 DEF Shape, Change, Over, Idle, Moves
    <3>2. /\ r.world # NoValue /\ Later(r.world, clock)
          /\ SessionsOK(r.sessions) /\ ~SourceFailure(r.sessions) /\ Grown(r.sessions, sessions)
      BY <1>1, <2>1 DEF RunReal
    <3>3. Later(clock, clock) /\ Grown(sessions, sessions)
      BY DEF Later, Grown
    <3>4. Between(s, Seen(p), clock, sessions)
      <4>1. sources \in Seen(p) /\ sources = <<vault, clock, sessions>>
        BY DEF Seen, sources
      <4>2. /\ sources[1] = vault /\ sources[2] = clock /\ sources[3] = sessions
        BY DEF sources
      <4> DEFINE rw == r.world
                 rs == r.sessions
      <4>3. /\ s.first = Identity(sources[1], rw, rs)
            /\ rw # NoValue /\ ~SourceFailure(rs) /\ SessionsOK(rs)
            /\ ListOutcome(sources[1]) = "ok" /\ ~Missing(sources[1], rs)
            /\ Later(rw, sources[2]) /\ Grown(rs, sources[3])
            /\ Later(sources[2], clock) /\ Grown(sources[3], sessions)
        BY <1>4, <3>1, <3>2, <3>3, <4>2
      <4> HIDE DEF rw, rs, s
      <4> QED BY <3>1, <4>1, <4>3 DEF Between
    <3> QED BY <3>1, <3>4 DEF Fine, RunReal, Reading, Publishing
  <2>2. CASE r.phase = "fresh" /\ identity = r.first
             /\ Change(p, [pc |-> "manifest", identity |-> identity])
    <3>1. Moves(p) /\ s.pc = "manifest" /\ s.phase = "fresh" /\ s.identity = identity
      BY <1>1, <2>2 DEF Shape, Change, Over, Idle, Moves
    <3>2. Between(r, past[p], clock, sessions)
      BY <1>1, <2>2 DEF RunReal, Reading
    <3>3. PICK i, w, uu :
            /\ i \in past[p] /\ r.first = Identity(i[1], w, uu)
            /\ w # NoValue /\ ~SourceFailure(uu) /\ SessionsOK(uu)
            /\ ListOutcome(i[1]) = "ok" /\ ~Missing(i[1], uu)
            /\ Later(w, i[2]) /\ Grown(uu, i[3])
            /\ Later(i[2], r.world) /\ Grown(i[3], r.sessions)
            /\ SessionsOK(r.sessions) /\ ~SourceFailure(r.sessions)
      BY <1>1, <3>2 DEF Between
    <3>4. Derivable(i[1], i[2], i[3]) /\ Identity(i[1], i[2], i[3]) = Identity(i[1], w, uu)
      <4>1. Identity(i[1], w, uu) = Identity(vault, r.world, r.sessions)
        BY <2>2, <3>3
      <4> DEFINE d == r.world
                 rs == r.sessions
      <4>2. /\ Identity(i[1], w, uu) = Identity(vault, d, rs)
            /\ Later(i[2], d) /\ Grown(i[3], rs) /\ SessionsOK(rs) /\ ~SourceFailure(rs)
        BY <3>3, <4>1
      <4> HIDE DEF d, rs
      <4> QED BY <3>3, <4>2, RealBetween
    <3>5. Real(s.identity, Seen(p))
      BY <2>2, <3>1, <3>3, <3>4 DEF Real, Seen
    <3> QED BY <3>1, <3>5 DEF Fine, RunReal, Reading, Publishing
  <2>3. CASE r.phase = "fresh" /\ Return(p, "source_changed")
    BY <1>1, <2>3, ReturnOK DEF Told
  <2>4. CASE r.phase = "inspect" /\ Return(p, Freshness(r.manifest, r.texts, identity))
    <3>1. Freshness(r.manifest, r.texts, identity) \notin Told
      BY DEF Freshness, Told
    <3> QED BY <1>1, <2>4, <3>1, ReturnOK
  <2> QED BY <1>1, <1>4, <2>1, <2>2, <2>3, <2>4 DEF Derived
<1> QED BY <1>2, <1>3, <1>4 DEF ReadEntities

LEMMA ReadManifestOK ==
  ASSUME Inv, NEW p \in Procs, ReadManifest(p)
  PROVE  Fine(p)
<1> DEFINE r == run[p]
           s == run'[p]
<1>1. r.pc = "manifest" /\ RunReal(r, past[p], clock, sessions)
  BY DEF ReadManifest, At, Inv
<1>2. Moves(p) /\ s.pc = "texts" /\ s.phase = r.phase /\ s.identity = r.identity
  BY DEF ReadManifest, Inv, Shape, Change, Over, Idle, Moves
<1>3. s.phase = "fresh" => Real(s.identity, Seen(p))
  BY <1>1, <1>2, RealMore DEF RunReal, Seen
<1> QED BY <1>1, <1>2, <1>3 DEF Fine, RunReal, Reading, Publishing

LEMMA ReadTextsOK ==
  ASSUME Inv, NEW p \in Procs, ReadTexts(p)
  PROVE  Fine(p)
<1> DEFINE r == run[p]
           s == run'[p]
           stored == StoredStatus(r.manifest, Texts)
<1>1. r.pc = "texts" /\ Shape /\ RunReal(r, past[p], clock, sessions)
  BY DEF ReadTexts, At, Inv
<1>2. r.phase = "fresh" => Real(r.identity, Seen(p))
  BY <1>1, RealMore DEF RunReal, Seen
<1>3. r.phase \in {"fresh", "inspect"}
  BY <1>1 DEF RunReal
<1>4. CASE r.phase = "inspect" /\ Change(p, [pc |-> "world", texts |-> Texts])
  <2>1. Moves(p) /\ s.pc = "world" /\ s.phase = r.phase
    BY <1>1, <1>4 DEF Shape, Change, Over, Idle, Moves
  <2> QED BY <1>4, <2>1 DEF Fine, RunReal, Reading, Publishing
<1>5. CASE r.phase = "inspect" /\ Return(p, stored)
  <2>1. stored \notin Told
    BY DEF StoredStatus, Told
  <2> QED BY <1>1, <1>5, <2>1, ReturnOK
<1>6. CASE r.phase # "inspect" /\ Return(p, "already_current")
  <2>1. /\ Moves(p) /\ s.pc = "returned" /\ s.identity = r.identity
    BY <1>1, <1>6, ReturnIs
  <2> QED BY <1>2, <1>3, <1>6, <2>1 DEF Fine, RunReal, Reading, Publishing
<1>7. CASE r.phase # "inspect" /\ Goto(p, "world_state")
  <2>1. Moves(p) /\ s.pc = "world_state" /\ s.identity = r.identity
    BY <1>1, <1>7 DEF Shape, Goto, Change, Over, Idle, Moves
  <2> QED BY <1>2, <1>3, <1>7, <2>1 DEF Fine, RunReal, Reading, Publishing
<1> QED BY <1>4, <1>5, <1>6, <1>7 DEF ReadTexts

LEMMA PublishTextOK ==
  ASSUME Inv, NEW p \in Procs, NEW i \in DOMAIN Artifacts, PublishText(p, i)
  PROVE  Fine(p)
<1> DEFINE r == run[p]
           s == run'[p]
           next == IF i < Len(Artifacts) THEN Artifacts[i + 1] ELSE "commit"
<1>1. r.pc \in Publishing /\ next \in Publishing
  BY DEF PublishText, At, Artifacts, Publishing
<1>2. Shape /\ RunReal(r, past[p], clock, sessions)
  BY DEF Inv
<1>3. Goto(p, next)
  BY DEF PublishText
<1> HIDE DEF next
<1>4. Moves(p) /\ s.pc = next /\ s.identity = r.identity
  BY <1>2, <1>3 DEF Shape, Goto, Change, Over, Idle, Moves
<1>5. Real(s.identity, Seen(p))
  BY <1>1, <1>2, <1>4, RealMore DEF RunReal, Seen
<1> QED BY <1>1, <1>4, <1>5 DEF Fine, RunReal, Reading, Publishing

LEMMA PublishManifestOK ==
  ASSUME Inv, NEW p \in Procs, PublishManifest(p)
  PROVE  Fine(p)
<1> DEFINE r == run[p]
           s == run'[p]
<1>1. r.pc = "commit" /\ Shape /\ RunReal(r, past[p], clock, sessions)
  BY DEF PublishManifest, At, Inv
<1>2. Moves(p) /\ s.pc = "returned" /\ s.identity = r.identity
  BY <1>1, ReturnIs DEF PublishManifest
<1>3. Real(s.identity, Seen(p))
  BY <1>1, <1>2, RealMore DEF RunReal, Publishing, Seen
<1> QED BY <1>2, <1>3 DEF Fine, RunReal, Reading, Publishing

LEMMA IndexingOK ==
  ASSUME Inv, NEW p \in Procs, Indexing(p)
  PROVE  Fine(p)
<1> DEFINE r == run[p]
           s == run'[p]
<1>1. Shape /\ RunReal(r, past[p], clock, sessions)
  BY DEF Inv
<1>2. CASE ListForIndex(p)
  <2>1. r.phase \in {"index_replace", "index_verify"}
    BY <1>1, <1>2 DEF ListForIndex, At, RunReal
  <2>2. CASE ListOutcome(vault) # "ok" /\ Return(p, ListOutcome(vault))
    BY <1>1, <2>2, ReturnOK DEF ListOutcome, Told
  <2>3. CASE Change(p, [pc |-> r.phase, listed |-> PlayerNotes(vault)])
    <3>1. Moves(p) /\ s.pc = r.phase
      BY <1>1, <2>3 DEF Shape, Change, Over, Idle, Moves
    <3>2. Elsewhere(s) /\ s.pc \notin {"idle", "probe", "create", "write"}
      BY <2>1, <3>1 DEF Elsewhere, Reading, Publishing
    <3> QED BY <3>1, <3>2, ElsewhereOK DEF Fine
  <2> QED BY <1>2, <2>2, <2>3 DEF ListForIndex
<1>3. CASE ReplaceIndex(p)
  BY <1>1, <1>3, ReturnOK DEF ReplaceIndex, Told
<1>4. CASE VerifyIndex(p)
  <2>1. Return(p, "fresh") \/ Return(p, "stale_index")
    BY <1>4 DEF VerifyIndex
  <2> QED BY <1>1, <2>1, ReturnOK DEF Told
<1> QED BY <1>2, <1>3, <1>4 DEF Indexing

LEMMA DerivationOK ==
  ASSUME Inv, NEW p \in Procs, Derivation(p)
  PROVE  Fine(p)
BY ReadWorldOK, ReadSessionsOK, ReadEntitiesOK, ReadManifestOK, ReadTextsOK, PublishTextOK,
   PublishManifestOK DEF Derivation

-----------------------------------------------------------------------------
(* The steps of a command.                                                 *)

(* A step of p that claims nothing of the sources, whatever they are.      *)
Runs(p) ==
  /\ DOMAIN run' = Procs /\ DOMAIN run'[p] = DOMAIN Idle
  /\ \A q \in Procs : q # p => run'[q] = run[q]
  /\ run'[p].pc # "idle" => run'[p].call \in Commands
  /\ \A seen, c, ss : RunReal(run'[p], seen, c, ss)

Flows(p) ==
  /\ DOMAIN flow' = Procs
  /\ \A q \in Procs : q # p => flow'[q] = flow[q]
  /\ FlowOK(run'[p], flow'[p])

\* Only these lead on to an artifact to store.
Stores(p) == Ask(p) \/ Storing(p) \/ LoadReview(p)

Carried(p) ==
  /\ run'[p].pc \in Storage => Stores(p)
  /\ Runs(p) \/ (Fine(p) /\ run[p].pc # "idle" /\ UNCHANGED sources)
  /\ Flows(p)
  /\ DOMAIN todo' = Procs /\ \A q \in Procs : todo'[q] \in Seq(Commands)
  /\ UNCHANGED <<clock, sessions>>

Claiming == Reading \union {"manifest", "texts", "index_list"} \union Publishing

Starting(r) ==
  \/ r.pc = "world" /\ r.phase = "initial"
  \/ r.pc = "manifest" /\ r.phase = "inspect"
  \/ r.pc = "index_list" /\ r.phase \in {"index_replace", "index_verify"}

LEMMA StartingOK ==
  ASSUME NEW r, Starting(r), NEW seen, NEW c, NEW ss
  PROVE  RunReal(r, seen, c, ss)
BY DEF Starting, RunReal, Reading, Publishing

LEMMA FinishIs ==
  ASSUME Shape, NEW p \in Procs, run[p].pc # "idle",
         NEW outcome, Finish(p, outcome), outcome \notin Told
  PROVE  Runs(p) /\ run'[p].pc = "returned"
<1>1. /\ DOMAIN run' = Procs /\ DOMAIN run'[p] = DOMAIN Idle
      /\ \A q \in Procs : q # p => run'[q] = run[q]
      /\ run'[p].pc = "returned" /\ run'[p].outcome = outcome /\ run'[p].call = run[p].call
  BY DEF Shape, Finish, Change, Over, Idle
<1>2. Elsewhere(run'[p])
  BY <1>1 DEF Elsewhere, Reading, Publishing
<1> QED BY <1>1, <1>2, ElsewhereOK DEF Runs, Shape

LEMMA GotoIs ==
  ASSUME Shape, NEW p \in Procs, run[p].pc # "idle",
         NEW pc, Goto(p, pc), pc \notin Claiming \union {"idle", "returned"}
  PROVE  Runs(p) /\ run'[p].pc = pc
<1>1. /\ DOMAIN run' = Procs /\ DOMAIN run'[p] = DOMAIN Idle
      /\ \A q \in Procs : q # p => run'[q] = run[q]
      /\ run'[p].pc = pc /\ run'[p].call = run[p].call
  BY DEF Shape, Goto, Change, Over, Idle
<1>2. Elsewhere(run'[p])
  BY <1>1 DEF Elsewhere, Claiming
<1> QED BY <1>1, <1>2, ElsewhereOK DEF Runs, Shape

LEMMA StartIs ==
  ASSUME Shape, NEW p \in Procs, run[p].pc # "idle",
         NEW start \in {RebuildStart, InspectStart, IndexStart, VerifyStart}, Change(p, start)
  PROVE  Runs(p) /\ run'[p].pc \notin Storage
<1>1. start.pc \in {"world", "manifest", "index_list"} /\ Starting(start)
      /\ DOMAIN start = {"pc", "phase"}
  BY DEF RebuildStart, InspectStart, IndexStart, VerifyStart, Starting
<1>2. /\ DOMAIN run' = Procs /\ DOMAIN run'[p] = DOMAIN Idle
      /\ \A q \in Procs : q # p => run'[q] = run[q]
      /\ run'[p].pc = start.pc /\ run'[p].phase = start.phase /\ run'[p].call = run[p].call
  BY <1>1 DEF Shape, Change, Over, Idle
<1>3. Starting(run'[p])
  BY <1>1, <1>2 DEF Starting
<1> QED BY <1>1, <1>2, <1>3, StartingOK DEF Runs, Shape, Storage

LEMMA NoteIs ==
  ASSUME Shape, NEW p \in Procs, NEW r, Note(p, r), DOMAIN r \subseteq DOMAIN NoFlow
  PROVE  /\ DOMAIN flow' = Procs /\ DOMAIN flow'[p] = DOMAIN NoFlow
         /\ \A q \in Procs : q # p => flow'[q] = flow[q]
         /\ \A f \in DOMAIN r : flow'[p][f] = r[f]
         /\ \A f \in DOMAIN NoFlow \ DOMAIN r : flow'[p][f] = flow[p][f]
BY DEF Shape, FlowOK, Note, Over

(* A note that says nothing of what is to be stored.                       *)
LEMMA NoteKeeps ==
  ASSUME Shape, NEW p \in Procs, NEW r, Note(p, r), DOMAIN r \subseteq DOMAIN NoFlow,
         {"kind", "decision"} \cap DOMAIN r = {}, run'[p].pc \notin Storage
  PROVE  Flows(p)
<1>1. /\ DOMAIN flow' = Procs /\ DOMAIN flow'[p] = DOMAIN NoFlow
      /\ \A q \in Procs : q # p => flow'[q] = flow[q]
      /\ flow'[p].kind = flow[p].kind /\ flow'[p].decision = flow[p].decision
  BY NoteIs DEF NoFlow
<1> QED BY <1>1 DEF Flows, FlowOK, Shape

LEMMA FlowStays ==
  ASSUME Shape, NEW p \in Procs, UNCHANGED flow,
         run'[p].pc \in Storage => flow[p].kind \in Kinds
  PROVE  Flows(p)
BY DEF Shape, Flows, FlowOK

LEMMA CarriedBy ==
  ASSUME Shape, NEW p \in Procs, Runs(p), Flows(p), UNCHANGED <<clock, sessions, todo>>,
         run'[p].pc \in Storage => Stores(p)
  PROVE  Carried(p)
BY DEF Carried, Shape

LEMMA BeginIs ==
  ASSUME Shape, NEW p \in Procs, Begin(p)
  PROVE  LET call == Head(todo[p])
             start == FirstStep(call)
         IN /\ call \in Commands /\ Tail(todo[p]) \in Seq(Commands)
            /\ \/ start.pc = "discover" /\ call \in {"map", "finalize"}
               \/ start.pc = "load"
               \/ /\ Starting(start) /\ start.pc \in {"world", "manifest", "index_list"}
                  /\ run'[p].phase = start.phase
            /\ DOMAIN run' = Procs /\ DOMAIN run'[p] = DOMAIN Idle
            /\ \A q \in Procs : q # p => run'[q] = run[q]
            /\ run'[p].call = call /\ run'[p].pc = start.pc
<1> DEFINE call == Head(todo[p])
           start == FirstStep(call)
           s == run'[p]
<1>1. call \in Commands /\ Tail(todo[p]) \in Seq(Commands)
  <2>1. todo[p] \in Seq(Commands) /\ todo[p] # <<>>
    BY DEF Shape, Begin
  <2> QED BY <2>1, HeadTailProperties
<1>2. /\ DOMAIN start \in {{"pc"}, {"pc", "phase"}}
      /\ \/ start.pc = "discover" /\ call \in {"map", "finalize"}
         \/ start.pc = "load"
         \/ Starting(start) /\ DOMAIN start = {"pc", "phase"}
              /\ start.pc \in {"world", "manifest", "index_list"}
  <2> HIDE DEF call
  <2> QED BY <1>1 DEF Commands, FirstStep, RebuildStart, InspectStart, IndexStart, Starting
<1>3. Change(p, Over([call |-> call], start))
  BY DEF Begin
<1> HIDE DEF start
<1>4. /\ DOMAIN run' = Procs /\ DOMAIN s = DOMAIN Idle
      /\ \A q \in Procs : q # p => run'[q] = run[q]
      /\ s.call = call /\ s.pc = start.pc
      /\ "phase" \in DOMAIN start => s.phase = start.phase
  <2> HIDE DEF call
  <2>1. DOMAIN run = Procs /\ DOMAIN run[p] = DOMAIN Idle
    BY DEF Shape
  <2>2. s = Over(Over([call |-> call], start), run[p])
        /\ DOMAIN run' = Procs /\ \A q \in Procs : q # p => run'[q] = run[q]
    BY <1>3, <2>1 DEF Change
  <2>3. DOMAIN [call |-> call] = {"call"} /\ [call |-> call].call = call
    OBVIOUS
  <2>4. /\ DOMAIN Over([call |-> call], start) = {"call"} \union DOMAIN start
        /\ Over([call |-> call], start).call = call
        /\ Over([call |-> call], start).pc = start.pc
        /\ "phase" \in DOMAIN start => Over([call |-> call], start).phase = start.phase
    BY <1>2, <2>3 DEF Over
  <2>5. DOMAIN s = ({"call"} \union DOMAIN start) \union DOMAIN Idle
    BY <2>1, <2>2, <2>4 DEF Over
  <2>6. DOMAIN s = DOMAIN Idle
    BY <1>2, <2>5 DEF Idle
  <2>7. s.call = call /\ s.pc = start.pc
    BY <1>2, <2>2, <2>4 DEF Over
  <2>8. "phase" \in DOMAIN start => s.phase = start.phase
    BY <1>2, <2>2, <2>4 DEF Over
  <2> QED BY <2>2, <2>6, <2>7, <2>8
<1>5. Starting(start) /\ DOMAIN start = {"pc", "phase"} => s.phase = start.phase
  BY <1>4
<1>6. start = FirstStep(Head(todo[p]))
  BY DEF start
<1> QED BY <1>1, <1>2, <1>4, <1>5, <1>6

LEMMA BeginOK ==
  ASSUME Shape, NEW p \in Procs, Begin(p)
  PROVE  Carried(p)
<1> DEFINE call == Head(todo[p])
           start == FirstStep(call)
           s == run'[p]
<1>1. /\ call \in Commands /\ Tail(todo[p]) \in Seq(Commands)
      /\ \/ start.pc \in {"discover", "load"}
         \/ /\ Starting(start) /\ start.pc \in {"world", "manifest", "index_list"}
            /\ s.phase = start.phase
      /\ DOMAIN run' = Procs /\ DOMAIN s = DOMAIN Idle
      /\ \A q \in Procs : q # p => run'[q] = run[q]
      /\ s.call = call /\ s.pc = start.pc
  BY BeginIs
<1> HIDE DEF start, call
<1>2. \A seen, c, ss : RunReal(s, seen, c, ss)
  <2>1. CASE start.pc \in {"discover", "load"}
    <3>1. Elsewhere(s)
      BY <1>1, <2>1 DEF Elsewhere, Reading, Publishing
    <3> QED BY <3>1, ElsewhereOK
  <2>2. CASE Starting(start) /\ s.phase = start.phase
    <3>1. Starting(s)
      BY <1>1, <2>2 DEF Starting
    <3> QED BY <3>1, StartingOK
  <2> QED BY <1>1, <2>1, <2>2
<1>3. Runs(p) /\ s.pc \notin Storage
  BY <1>1, <1>2 DEF Runs, Storage
<1>4. Flows(p)
  BY <1>3, FlowStays DEF Begin
<1>5. DOMAIN todo' = Procs /\ \A q \in Procs : todo'[q] \in Seq(Commands)
  BY <1>1 DEF Begin, Shape, call
<1> QED BY <1>3, <1>4, <1>5 DEF Carried, Begin, sources

(* A run that is over, or never began.                                     *)
LEMMA IdleOK ==
  /\ FlowOK(Idle, NoFlow)
  /\ \A seen, c, ss : RunReal(Idle, seen, c, ss)
<1>1. Idle.pc = "idle" /\ NoFlow.kind = NoValue /\ NoValue \notin Kinds
  BY BootstrapAssumption DEF Idle, NoFlow
<1>2. Elsewhere(Idle)
  BY <1>1 DEF Elsewhere, Reading, Publishing
<1> QED BY <1>1, <1>2, ElsewhereOK DEF FlowOK, Storage, Kinds

LEMMA EndsIdle ==
  ASSUME Shape, NEW p \in Procs, run' = [run EXCEPT ![p] = Idle],
         flow' = [flow EXCEPT ![p] = NoFlow], UNCHANGED <<clock, sessions, todo>>
  PROVE  Carried(p)
<1>1. Runs(p) /\ run'[p].pc \notin Storage
  BY IdleOK DEF Shape, Runs, Idle, Storage
<1>2. Flows(p)
  BY IdleOK DEF Shape, Flows
<1> QED BY <1>1, <1>2, CarriedBy

LEMMA LeaveOK ==
  ASSUME Shape, NEW p \in Procs, Leave(p)
  PROVE  Carried(p)
BY EndsIdle DEF Leave, sources

LEMMA DiscoveredOK ==
  ASSUME Shape, NEW p \in Procs, Discovered(p)
  PROVE  Carried(p)
<1>1. run[p].pc # "idle"
  BY DEF Discovered, At
<1>2. Goto(p, "ask") \/ Goto(p, "ready")
  BY DEF Discovered
<1>3. Runs(p) /\ run'[p].pc \notin Storage
  BY <1>1, <1>2, GotoIs DEF Claiming, Reading, Publishing, Storage
<1>4. Flows(p)
  BY <1>3, NoteKeeps DEF Discovered, NoFlow
<1> QED BY <1>3, <1>4, CarriedBy DEF Discovered, sources

LEMMA CheckReadyOK ==
  ASSUME Shape, NEW p \in Procs, CheckReady(p)
  PROVE  Carried(p)
<1>1. run[p].pc # "idle"
  BY DEF CheckReady, At
<1>2. \/ Finish(p, "canonical_not_ready") \/ Finish(p, "world_time_uninitialized")
      \/ Finish(p, "active_session_present") \/ Goto(p, "ask")
  BY DEF CheckReady
<1>3. Runs(p) /\ run'[p].pc \notin Storage
  BY <1>1, <1>2, GotoIs, FinishIs DEF Claiming, Reading, Publishing, Storage, Told
<1>4. Flows(p)
  BY <1>3, FlowStays DEF CheckReady
<1> QED BY <1>3, <1>4, CarriedBy DEF CheckReady, sources

LEMMA MappingIs ==
  ASSUME NEW report, NEW answers
  PROVE  /\ Mapping(report, answers).status \in {"failed", "no_changes", "proposal"}
         /\ Mapping(report, answers).status = "proposal" => Mapping(report, answers).ops # <<>>
BY DEF Mapping

LEMMA AskOK ==
  ASSUME Shape, NEW p \in Procs, Ask(p)
  PROVE  /\ Carried(p)
         /\ run'[p].pc \in Storage =>
              run'[p].pc = "probe" /\ flow'[p].kind = "proposal" /\ flow'[p].mapped.ops # <<>>
<1>1. run[p].pc # "idle"
  BY DEF Ask, At
<1>2. PICK answers : Mapped(p, Mapping(flow[p].report, answers))
  BY DEF Ask
<1> DEFINE m == Mapping(flow[p].report, answers)
           kind == IF m.ops = <<>> THEN NoValue ELSE "proposal"
           note == [mapped |-> m, key |-> Fingerprint(flow[p].report), report |-> NoValue,
                    kind |-> kind]
<1>3. /\ m.status \in {"failed", "no_changes", "proposal"}
      /\ m.status = "proposal" => m.ops # <<>>
  BY MappingIs
<1>4. Mapped(p, m)
  BY <1>2
<1> HIDE DEF m
<1>5. /\ Note(p, note)
      /\ \/ Finish(p, "mapping_failed") \/ Finish(p, "no_changes") \/ Goto(p, "recheck")
         \/ m.ops # <<>> /\ Goto(p, "probe")
  BY <1>3, <1>4 DEF Mapped
<1>6. /\ Runs(p)
      /\ run'[p].pc \in Storage => run'[p].pc = "probe" /\ m.ops # <<>>
  BY <1>1, <1>5, GotoIs, FinishIs DEF Claiming, Reading, Publishing, Storage, Told
<1>7. DOMAIN note = {"mapped", "key", "report", "kind"} /\ note.kind = kind /\ note.mapped = m
  OBVIOUS
<1> HIDE DEF note
<1>8. /\ DOMAIN flow' = Procs /\ DOMAIN flow'[p] = DOMAIN NoFlow
      /\ \A q \in Procs : q # p => flow'[q] = flow[q]
      /\ flow'[p].kind = kind /\ flow'[p].mapped = m
  BY <1>5, <1>7, NoteIs DEF NoFlow
<1>9. kind # "approval" /\ (m.ops # <<>> => kind \in Kinds)
  BY BootstrapAssumption DEF Kinds
<1>10. Flows(p)
  BY <1>6, <1>8, <1>9 DEF Flows, FlowOK
<1> QED BY <1>6, <1>8, <1>10, CarriedBy DEF Ask, Stores, sources

(* What follows an artifact that was stored, or was not.                   *)
LEMMA AfterStoredOK ==
  ASSUME Shape, NEW p \in Procs, run[p].pc \in Storage, AfterStored(p)
  PROVE  Runs(p) /\ Flows(p)
<1>1. run[p].pc # "idle" /\ flow[p].kind \in Kinds
  BY DEF Storage, Shape, FlowOK
<1>2. CASE flow[p].kind = "proposal"
  <2>1. Note(p, [kind |-> "evidence"]) /\ Goto(p, "probe")
    BY <1>2 DEF AfterStored
  <2>2. Runs(p)
    BY <1>1, <2>1, GotoIs DEF Claiming, Reading, Publishing
  <2>3. /\ DOMAIN flow' = Procs /\ DOMAIN flow'[p] = DOMAIN NoFlow
        /\ \A q \in Procs : q # p => flow'[q] = flow[q]
        /\ flow'[p].kind = "evidence"
    BY <2>1, NoteIs DEF NoFlow
  <2> QED BY <2>2, <2>3 DEF Flows, FlowOK, Kinds
<1>3. CASE flow[p].kind = "evidence"
  <2>1. Finish(p, "proposal") \/ Goto(p, "recheck")
    BY <1>3 DEF AfterStored
  <2>2. UNCHANGED flow
    BY <1>3 DEF AfterStored
  <2>3. Runs(p)
    BY <1>1, <2>1, GotoIs, FinishIs DEF Claiming, Reading, Publishing, Told
  <2> QED BY <1>1, <2>2, <2>3, FlowStays
<1>4. CASE flow[p].kind = "approval"
  <2>1. Finish(p, flow[p].decision) /\ UNCHANGED flow
    BY <1>4 DEF AfterStored
  <2>2. flow[p].decision \notin Told
    BY <1>4 DEF Shape, FlowOK, Told
  <2>3. Runs(p)
    BY <1>1, <2>1, <2>2, FinishIs
  <2> QED BY <1>1, <2>1, <2>3, FlowStays
<1> QED BY <1>1, <1>2, <1>3, <1>4 DEF Kinds

LEMMA AfterFailureOK ==
  ASSUME Shape, NEW p \in Procs, run[p].pc \in Storage, AfterFailure(p)
  PROVE  Runs(p) /\ Flows(p)
<1>1. run[p].pc # "idle" /\ flow[p].kind \in Kinds
  BY DEF Storage, Shape, FlowOK
<1>2. CASE /\ UNCHANGED flow
           /\ \/ Finish(p, "persistence_failed") \/ Finish(p, "partial")
              \/ Finish(p, "not_recorded")
  <2>1. Runs(p)
    BY <1>1, <1>2, FinishIs DEF Told
  <2> QED BY <1>1, <1>2, <2>1, FlowStays
<1>3. CASE Note(p, [failed |-> {"evidence"}]) /\ Goto(p, "recheck")
  <2>1. Runs(p) /\ run'[p].pc \notin Storage
    BY <1>1, <1>3, GotoIs DEF Claiming, Reading, Publishing, Storage
  <2> QED BY <1>3, <2>1, NoteKeeps DEF NoFlow
<1> QED BY <1>1, <1>2, <1>3 DEF Kinds, AfterFailure

LEMMA StoringOK ==
  ASSUME Shape, NEW p \in Procs, Storing(p)
  PROVE  Carried(p)
<1>1. run[p].pc \in Storage /\ run[p].pc # "idle" /\ flow[p].kind \in Kinds
  BY DEF Storing, Probe, Create, Write, At, Storage, Shape, FlowOK
<1>2. \/ AfterStored(p) \/ AfterFailure(p)
      \/ (Goto(p, "create") \/ Goto(p, "write")) /\ UNCHANGED flow
  BY DEF Storing, Probe, Create, Write
<1>3. CASE (Goto(p, "create") \/ Goto(p, "write")) /\ UNCHANGED flow
  <2>1. Runs(p)
    BY <1>1, <1>3, GotoIs DEF Claiming, Reading, Publishing
  <2> QED BY <1>1, <1>3, <2>1, FlowStays, CarriedBy
         DEF Stores, Storing, Probe, Create, Write, sources
<1> QED BY <1>1, <1>2, <1>3, AfterStoredOK, AfterFailureOK, CarriedBy
        DEF Stores, Storing, Probe, Create, Write, sources

LEMMA ReviewingOK ==
  ASSUME Shape, NEW p \in Procs, Reviewing(p)
  PROVE  Carried(p)
<1>1. run[p].pc # "idle" /\ run[p].pc \notin Storage /\ UNCHANGED <<clock, sessions, todo>>
  BY DEF Reviewing, LoadReview, LoadApply, NothingToLoad, Gate, Preflight, Perform, At, sources,
         Storage
<1>2. CASE LoadReview(p)
  <2> DEFINE decision == IF run[p].call = "approve" THEN "approved" ELSE "rejected"
  <2>1. PICK key : Decide(p, key, decision) \/ (Finish(p, "not_ready") /\ UNCHANGED flow)
    BY <1>2 DEF LoadReview
  <2>2. decision \in {"approved", "rejected"}
    OBVIOUS
  <2> HIDE DEF decision
  <2>3. CASE Decide(p, key, decision)
    <3> DEFINE note == [key |-> key, kind |-> "approval", decision |-> decision]
    <3>1. Note(p, note) /\ Goto(p, "probe")
      BY <2>3 DEF Decide
    <3>2. Runs(p)
      BY <1>1, <3>1, GotoIs DEF Claiming, Reading, Publishing
    <3>3. /\ DOMAIN note = {"key", "kind", "decision"}
          /\ note.kind = "approval" /\ note.decision = decision
      OBVIOUS
    <3> HIDE DEF note
    <3>4. /\ DOMAIN flow' = Procs /\ DOMAIN flow'[p] = DOMAIN NoFlow
          /\ \A q \in Procs : q # p => flow'[q] = flow[q]
          /\ flow'[p].kind = "approval" /\ flow'[p].decision = decision
      BY <3>1, <3>3, NoteIs DEF NoFlow
    <3>5. Flows(p)
      BY <2>2, <3>4 DEF Flows, FlowOK, Kinds
    <3> QED BY <1>1, <1>2, <3>2, <3>5, CarriedBy DEF Stores
  <2>4. CASE Finish(p, "not_ready") /\ UNCHANGED flow
    <3>1. Runs(p) /\ run'[p].pc \notin Storage
      BY <1>1, <2>4, FinishIs DEF Told, Storage
    <3> QED BY <1>1, <2>4, <3>1, FlowStays, CarriedBy
  <2> QED BY <2>1, <2>3, <2>4
<1>3. CASE ~LoadReview(p)
  <2> DEFINE Small == \/ UNCHANGED flow
                      \/ \E r : Note(p, r) /\ DOMAIN r \subseteq {"key", "ack", "report", "next"}
  <2>1. /\ \/ Finish(p, "not_ready") \/ Finish(p, "not_found") \/ Finish(p, "failed")
           \/ Finish(p, "applied") \/ Goto(p, "gate") \/ Goto(p, "preflight") \/ Goto(p, "perform")
        /\ Small
    <3>1. CASE LoadApply(p)
      <4>1. PICK key, ack : \/ Note(p, [key |-> key, ack |-> ack, report |-> Discover(vault)])
                            \/ UNCHANGED flow
        BY <3>1 DEF LoadApply
      <4> DEFINE note == [key |-> key, ack |-> ack, report |-> Discover(vault)]
      <4>2. DOMAIN note = {"key", "ack", "report"}
        OBVIOUS
      <4> HIDE DEF note
      <4>3. Note(p, note) \/ UNCHANGED flow
        BY <4>1 DEF note
      <4>4. Small
        BY <4>2, <4>3
      <4>5. Finish(p, "not_ready") \/ Goto(p, "gate")
        BY <3>1 DEF LoadApply
      <4> QED BY <4>4, <4>5
    <3>2. CASE NothingToLoad(p) \/ Preflight(p)
      BY <3>2 DEF NothingToLoad, Preflight
    <3>3. CASE Gate(p)
      <4>1. Note(p, [report |-> NoValue]) /\ DOMAIN [report |-> NoValue] = {"report"}
        BY <3>3 DEF Gate
      <4>2. Small
        BY <4>1
      <4>3. Finish(p, "not_ready") \/ Goto(p, "preflight")
        BY <3>3 DEF Gate
      <4> QED BY <4>2, <4>3
    <3>4. CASE Perform(p)
      <4> DEFINE note == [next |-> flow[p].next + 1]
      <4>1. DOMAIN note = {"next"}
        OBVIOUS
      <4>2. UNCHANGED flow \/ Note(p, note)
        BY <3>4 DEF Perform
      <4> HIDE DEF note
      <4>3. Small
        BY <4>1, <4>2
      <4>4. Finish(p, "applied") \/ Finish(p, "failed") \/ Goto(p, "perform")
        BY <3>4 DEF Perform
      <4> QED BY <4>3, <4>4
    <3> QED BY <1>3, <3>1, <3>2, <3>3, <3>4 DEF Reviewing
  <2>2. Runs(p) /\ run'[p].pc \notin Storage
    BY <1>1, <2>1, FinishIs, GotoIs DEF Told, Storage, Claiming, Reading, Publishing
  <2>3. Flows(p)
    <3>1. CASE UNCHANGED flow
      BY <2>2, <3>1, FlowStays
    <3>2. CASE \E r : Note(p, r) /\ DOMAIN r \subseteq {"key", "ack", "report", "next"}
      <4>1. PICK r : Note(p, r) /\ DOMAIN r \subseteq {"key", "ack", "report", "next"}
        BY <3>2
      <4> QED BY <2>2, <4>1, NoteKeeps DEF NoFlow
    <3> QED BY <2>1, <3>1, <3>2
  <2> QED BY <1>1, <2>2, <2>3, CarriedBy
<1> QED BY <1>2, <1>3

LEMMA RecheckOK ==
  ASSUME Shape, NEW p \in Procs, Recheck(p)
  PROVE  Carried(p)
<1>1. run[p].pc # "idle" /\ UNCHANGED <<clock, sessions, todo>>
  BY DEF Recheck, At, sources
<1>2. \A ack : Closure(p, ack) \notin Told
  BY DEF Closure, Told
<1>3. \/ \E outcome : Finish(p, outcome) /\ outcome \notin Told /\ UNCHANGED flow
      \/ Change(p, RebuildStart) /\ Note(p, [stage |-> "rebuild"])
  <2>1. PICK ack \in BOOLEAN :
          \/ Finish(p, "source_changed") /\ UNCHANGED flow
          \/ Finish(p, Closure(p, ack)) /\ UNCHANGED flow
          \/ Change(p, RebuildStart) /\ Note(p, [stage |-> "rebuild"])
    BY DEF Recheck
  <2>2. "source_changed" \notin Told
    BY DEF Told
  <2> QED BY <1>2, <2>1, <2>2
<1>4. CASE \E outcome : Finish(p, outcome) /\ outcome \notin Told /\ UNCHANGED flow
  <2>1. Runs(p) /\ run'[p].pc \notin Storage
    BY <1>1, <1>4, FinishIs DEF Storage
  <2> QED BY <1>1, <1>4, <2>1, FlowStays, CarriedBy
<1>5. CASE Change(p, RebuildStart) /\ Note(p, [stage |-> "rebuild"])
  <2>1. Runs(p) /\ run'[p].pc \notin Storage
    BY <1>1, <1>5, StartIs
  <2>2. Flows(p)
    BY <1>5, <2>1, NoteKeeps DEF NoFlow
  <2> QED BY <1>1, <2>1, <2>2, CarriedBy
<1> QED BY <1>3, <1>4, <1>5

LEMMA ContinueOK ==
  ASSUME Shape, NEW p \in Procs, Continue(p)
  PROVE  Carried(p)
<1>1. run[p].pc # "idle" /\ UNCHANGED <<clock, sessions, todo>>
  BY DEF Continue, At, sources
<1>2. \E r : Note(p, r) /\ DOMAIN r \subseteq {"stage", "failed"}
  <2> DEFINE r1 == [stage |-> NoValue]
  <2>1. DOMAIN r1 = {"stage"} /\ \A s, f : DOMAIN [stage |-> s, failed |-> f] = {"stage", "failed"}
    OBVIOUS
  <2> HIDE DEF r1
  <2>2. Note(p, r1) \/ \E s, f : Note(p, [stage |-> s, failed |-> f])
    BY DEF Continue, r1
  <2> QED BY <2>1, <2>2
<1>3. \/ Finish(p, "source_changed") \/ Change(p, IndexStart) \/ Change(p, InspectStart)
      \/ Change(p, VerifyStart) \/ Goto(p, "final")
  BY DEF Continue
<1>4. Runs(p) /\ run'[p].pc \notin Storage
  BY <1>1, <1>3, FinishIs, GotoIs, StartIs
     DEF Told, Storage, Claiming, Reading, Publishing
<1>5. Flows(p)
  BY <1>2, <1>4, NoteKeeps DEF NoFlow
<1> QED BY <1>1, <1>4, <1>5, CarriedBy

LEMMA FinalOK ==
  ASSUME Shape, NEW p \in Procs, Final(p)
  PROVE  Carried(p)
<1>1. run[p].pc # "idle" /\ UNCHANGED <<clock, sessions, todo, flow>>
  BY DEF Final, At, sources
<1>2. \/ Finish(p, "source_changed") \/ Finish(p, "not_current") \/ Finish(p, "complete")
  BY DEF Final
<1>3. Runs(p) /\ run'[p].pc \notin Storage
  BY <1>1, <1>2, FinishIs DEF Told, Storage
<1> QED BY <1>1, <1>3, FlowStays, CarriedBy

LEMMA CommandCarried ==
  ASSUME Inv, NEW p \in Procs, Command(p)
  PROVE  Carried(p)
<1>1. Shape
  BY DEF Inv
<1>2. CASE (Derivation(p) \/ Indexing(p)) /\ UNCHANGED <<own, flow, todo>>
  <2>1. Fine(p)
    BY <1>2, DerivationOK, IndexingOK
  <2>2. run[p].pc # "idle" /\ UNCHANGED sources
    <3>1. Artifacts[1] # "idle" /\ Artifacts[2] # "idle" /\ DOMAIN Artifacts = {1, 2}
      BY DEF Artifacts
    <3> QED BY <1>2, <3>1
            DEF Derivation, Indexing, ReadWorld, ReadSessions, ReadEntities, ReadManifest, ReadTexts,
                PublishText, PublishManifest, ListForIndex, ReplaceIndex, VerifyIndex, At
  <2>3. Flows(p)
    BY <1>1, <1>2, <2>1, FlowStays DEF Fine, Storage
  <2> QED BY <1>1, <1>2, <2>1, <2>2, <2>3 DEF Carried, Fine, Storage, Shape, sources
<1> QED BY <1>1, <1>2, BeginOK, LeaveOK, DiscoveredOK, CheckReadyOK, AskOK, StoringOK, ReviewingOK,
           RecheckOK, ContinueOK, FinalOK DEF Command

-----------------------------------------------------------------------------
(* Every step.                                                             *)

(* A process that does not move, while the sources go on.                  *)
LEMMA OthersOK ==
  ASSUME Inv, NEW q \in Procs, run'[q] = run[q], Observe,
         Later(clock, clock'), Grown(sessions, sessions')
  PROVE  RunReal(run'[q], past'[q], clock', sessions')
<1>1. RunReal(run[q], past[q], clock, sessions)
  BY DEF Inv
<1>2. CASE run[q].pc = "idle"
  BY <1>2, ElsewhereOK DEF Elsewhere, Reading, Publishing
<1>3. CASE run[q].pc # "idle"
  <2>1. run[q].call # NoValue
    BY <1>3, BootstrapAssumption DEF Inv, Shape
  <2>2. past'[q] = past[q] \union {sources'}
    BY <2>1 DEF Observe
  <2> QED BY <1>1, <2>2, RunGrows
<1> QED BY <1>2, <1>3

LEMMA SameTime == \A c, ss : Later(c, c) /\ Grown(ss, ss)
BY DEF Later, Grown

LEMMA CarriedOn ==
  ASSUME Inv, NEW p \in Procs, Carried(p), Observe
  PROVE  Inv'
<1>1. UNCHANGED <<clock, sessions>> /\ Later(clock, clock') /\ Grown(sessions, sessions')
  BY SameTime DEF Carried
<1>2. \A q \in Procs : q # p => run'[q] = run[q] /\ flow'[q] = flow[q]
  BY DEF Carried, Runs, Fine, Moves, Flows
<1>3. /\ DOMAIN run' = Procs /\ DOMAIN run'[p] = DOMAIN Idle
      /\ run'[p].pc # "idle" => run'[p].call \in Commands
      /\ FlowOK(run'[p], flow'[p])
  BY DEF Inv, Shape, Carried, Runs, Fine, Moves, Flows
<1>4. Shape'
  BY <1>2, <1>3 DEF Inv, Shape, Carried, Flows
<1>5. RunReal(run'[p], past'[p], clock', sessions')
  <2>1. CASE Fine(p) /\ run[p].pc # "idle" /\ UNCHANGED sources
    <3>1. run[p].call # NoValue /\ run'[p].call = run[p].call
      BY <2>1, BootstrapAssumption DEF Inv, Shape, Fine, Moves
    <3>2. past'[p] = past[p] \union {sources'}
      BY <3>1 DEF Observe
    <3>3. past'[p] = Seen(p)
      BY <2>1, <3>2 DEF Seen
    <3> QED BY <1>1, <2>1, <3>3 DEF Fine
  <2> QED BY <2>1 DEF Carried, Runs
<1>6. \A q \in Procs : RunReal(run'[q], past'[q], clock', sessions')
  BY <1>1, <1>2, <1>5, OthersOK
<1>7. (clock' # NoValue => clock'.rev \in Int) /\ SessionsOK(sessions')
  BY <1>1 DEF Inv
<1> QED BY <1>4, <1>6, <1>7 DEF Inv

LEMMA SurroundingsOK ==
  ASSUME Inv, Surroundings, UNCHANGED <<flow, todo>>, Observe
  PROVE  Inv'
<1>1. UNCHANGED run
  BY DEF Surroundings, EditNote, AdvanceClock, FinishSession, DamageState
<1>2. /\ clock' # NoValue => clock'.rev \in Int
      /\ SessionsOK(sessions') /\ Later(clock, clock') /\ Grown(sessions, sessions')
  <2>1. CASE UNCHANGED <<clock, sessions>>
    BY <2>1, SameTime DEF Inv
  <2>2. CASE AdvanceClock
    <3>1. clock.rev \in Int /\ clock'.rev = clock.rev + 1 /\ UNCHANGED sessions
      BY <2>2 DEF AdvanceClock, Inv
    <3> QED BY <3>1, SameTime DEF Later, Inv
  <2>3. CASE FinishSession
    <3>1. PICK s \in DOMAIN sessions :
            /\ sessions[s].status = "active"
            /\ sessions' = [sessions EXCEPT ![s] =
                 [@ EXCEPT !.status = "completed", !.rev = @ + 1,
                           !.finished = sessions[s].started + 1, !.tick = clock.tick]]
      BY <2>3 DEF FinishSession
    <3>2. UNCHANGED clock
      BY <2>3 DEF FinishSession
    <3>3. SessionsOK(sessions)
      BY DEF Inv
    <3>4. /\ DOMAIN sessions' = DOMAIN sessions
          /\ \A t \in DOMAIN sessions : t # s => sessions'[t] = sessions[t]
          /\ DOMAIN sessions'[s] = SessionFields
          /\ sessions'[s].started = sessions[s].started
          /\ sessions'[s].finished = sessions[s].started + 1
      BY <3>1, <3>3 DEF SessionsOK, SessionFields
    <3>5. SessionsOK(sessions')
      BY <3>3, <3>4 DEF SessionsOK
    <3>6. Grown(sessions, sessions')
      BY <3>1, <3>4 DEF Grown
    <3> QED BY <3>2, <3>5, <3>6, SameTime DEF Inv
  <2> QED BY <2>1, <2>2, <2>3 DEF Surroundings, EditNote, DamageState, sources
<1>3. \A q \in Procs : RunReal(run'[q], past'[q], clock', sessions')
  BY <1>1, <1>2, OthersOK
<1>4. Shape'
  BY <1>1 DEF Inv, Shape
<1> QED BY <1>2, <1>3, <1>4 DEF Inv

LEMMA InvInit ==
  ASSUME Init
  PROVE  Inv
<1>1. PICK s \in Scenarios : sessions = s.sessions /\ clock = s.clock /\ todo = s.todo
  BY DEF Init, InitCampaign
<1>2. (clock # NoValue => clock.rev \in Int) /\ SessionsOK(sessions)
  BY <1>1, CampaignAssumption DEF SessionsOK
<1>3. DOMAIN todo = Procs /\ \A p \in Procs : todo[p] \in Seq(Commands)
  BY <1>1, BootstrapAssumption
<1>4. /\ run = [p \in Procs |-> Idle] /\ flow = [p \in Procs |-> NoFlow]
  BY DEF Init, InitCampaign
<1>5. Shape
  BY <1>3, <1>4, IdleOK DEF Shape, Idle
<1>6. \A p \in Procs : RunReal(run[p], past[p], clock, sessions)
  BY <1>4, IdleOK
<1> QED BY <1>2, <1>5, <1>6 DEF Inv

LEMMA InvStep ==
  ASSUME Inv, [Next]_vars
  PROVE  Inv'
<1>1. CASE Next
  <2>1. Observe
    BY <1>1 DEF Next
  <2>2. CASE \E p \in Procs : Command(p)
    BY <2>1, <2>2, CommandCarried, CarriedOn
  <2>3. CASE \E p \in Procs : Crash(p)
    <3>1. PICK p \in Procs : Crash(p)
      BY <2>3
    <3>2. Carried(p)
      BY <3>1, EndsIdle DEF Inv, Crash, Die, sources
    <3> QED BY <2>1, <3>2, CarriedOn
  <2>4. CASE Surroundings /\ UNCHANGED <<own, flow, todo>>
    BY <2>1, <2>4, SurroundingsOK
  <2> QED BY <1>1, <2>2, <2>3, <2>4 DEF Next
<1>2. CASE UNCHANGED vars
  BY <1>2 DEF vars, sources, Inv, Shape
<1> QED BY <1>1, <1>2

(* The Campaign State a rebuild returns is what the clock, the sessions    *)
(* and the entities said together at one instant of the call: it reads     *)
(* them twice, one after another, and the two derivations agree.           *)
THEOREM SnapshotsAreReal == Spec => []SnapshotIsReal
<1>1. Init => Inv
  BY InvInit
<1>2. Inv /\ [Next]_vars => Inv'
  BY InvStep
<1>3. Inv => SnapshotIsReal
  BY DEF Inv, RunReal, SnapshotIsReal, Real, At, Told
<1> QED BY <1>1, <1>2, <1>3, PTL DEF Spec

-----------------------------------------------------------------------------
(* The artifacts of the workflow.  Files are only created and written once *)
(* (Stays), whoever stores an evidence or an approval has its proposal     *)
(* before it, and whoever writes a file is the one that created it: the    *)
(* proposal an approval names is there, whole, whichever commands ran side *)
(* by side and wherever they died.                                         *)

Written(fs, kind, key) == <<kind, key>> \in DOMAIN fs /\ fs[<<kind, key>>] # Torn

InOrder(fs) ==
  \A f \in DOMAIN fs : f[1] \in Kinds /\ (f[1] # "proposal" => Written(fs, "proposal", f[2]))

Place(f) == <<f.kind, f.key>>

\* A process that runs r and remembers f may go on storing, given the files.
StoreOK(r, f, fs) ==
  /\ r.pc \in Storage =>
       /\ f.kind = "proposal" => f.mapped.ops # <<>>
       /\ f.kind # "proposal" => Written(fs, "proposal", f.key)
  /\ r.pc = "write" => Place(f) \in DOMAIN fs /\ fs[Place(f)] = Torn

FilesInv ==
  /\ InOrder(files)
  /\ \A p \in Procs : StoreOK(run[p], flow[p], files)
  /\ \A p, q \in Procs :
       run[p].pc = "write" /\ run[q].pc = "write" /\ Place(flow[p]) = Place(flow[q]) => p = q

\* What was written stays as it was written.
Stays(fs, gs) == \A f \in DOMAIN fs : fs[f] # Torn => f \in DOMAIN gs /\ gs[f] = fs[f]

LEMMA WrittenStays ==
  ASSUME NEW fs, NEW gs, Stays(fs, gs), NEW kind, NEW key, Written(fs, kind, key)
  PROVE  Written(gs, kind, key)
BY DEF Stays, Written

Others(p) == \A q \in Procs : q # p => run'[q] = run[q] /\ flow'[q] = flow[q]

(* A step of p that touches no file but the one it writes.                 *)
LEMMA FilesKept ==
  ASSUME FilesInv, NEW p \in Procs, Others(p), InOrder(files'),
         StoreOK(run'[p], flow'[p], files'), Stays(files, files'),
         run'[p].pc = "write" => run[p].pc # "write" /\ Place(flow'[p]) \notin DOMAIN files,
         \A f \in DOMAIN files :
           f \in DOMAIN files' /\ (files'[f] = files[f] \/ (run[p].pc = "write" /\ f = Place(flow[p])))
  PROVE  FilesInv'
<1>1. ASSUME NEW q \in Procs, q # p
      PROVE  StoreOK(run[q], flow[q], files')
  <2>1. StoreOK(run[q], flow[q], files)
    BY DEF FilesInv
  <2>2. run[q].pc \in Storage /\ flow[q].kind # "proposal" => Written(files', "proposal", flow[q].key)
    BY <2>1, WrittenStays DEF StoreOK
  <2>3. run[q].pc = "write" => Place(flow[q]) \in DOMAIN files' /\ files'[Place(flow[q])] = Torn
    BY <1>1, <2>1 DEF StoreOK, FilesInv
  <2> QED BY <2>1, <2>2, <2>3 DEF StoreOK
<1>2. \A q \in Procs : StoreOK(run'[q], flow'[q], files')
  BY <1>1 DEF Others
<1>3. ASSUME NEW q \in Procs, NEW t \in Procs, run'[q].pc = "write", run'[t].pc = "write",
             Place(flow'[q]) = Place(flow'[t])
      PROVE  q = t
  <2>1. \A u \in Procs : run[u].pc = "write" => Place(flow[u]) \in DOMAIN files
    BY DEF FilesInv, StoreOK
  <2> QED BY <1>3, <2>1 DEF FilesInv, Others
<1> QED BY <1>2, <1>3 DEF FilesInv

(* A step that leaves the files alone.                                     *)
LEMMA FilesSame ==
  ASSUME FilesInv, NEW p \in Procs, UNCHANGED files, Others(p), run'[p].pc # "write",
         StoreOK(run'[p], flow'[p], files)
  PROVE  Stays(files, files') /\ FilesInv'
<1>1. Stays(files, files') /\ InOrder(files')
  BY DEF Stays, FilesInv
<1> QED BY <1>1, FilesKept

(* Nothing is being stored.                                                *)
LEMMA NotStoring ==
  ASSUME NEW r, NEW f, NEW fs, r.pc \notin Storage
  PROVE  StoreOK(r, f, fs)
BY DEF StoreOK, Storage

LEMMA CarriedOthers ==
  ASSUME NEW p \in Procs, Carried(p)
  PROVE  Others(p)
BY DEF Carried, Runs, Fine, Moves, Flows, Others

LEMMA AskFiles ==
  ASSUME Shape, FilesInv, NEW p \in Procs, Ask(p)
  PROVE  Stays(files, files') /\ FilesInv'
<1>1. Others(p) /\ run'[p].pc # "write" /\ StoreOK(run'[p], flow'[p], files)
  BY AskOK, CarriedOthers DEF StoreOK, Storage
<1> QED BY <1>1, FilesSame DEF Ask, own

LEMMA LoadReviewFiles ==
  ASSUME Shape, FilesInv, NEW p \in Procs, LoadReview(p)
  PROVE  Stays(files, files') /\ FilesInv'
<1>1. Others(p) /\ run[p].pc # "idle" /\ UNCHANGED files
  BY ReviewingOK, CarriedOthers DEF Reviewing, LoadReview, At, own
<1> DEFINE decision == IF run[p].call = "approve" THEN "approved" ELSE "rejected"
<1>2. PICK key : \/ Readable("proposal", key) /\ Decide(p, key, decision)
                 \/ Finish(p, "not_ready")
  BY DEF LoadReview
<1> HIDE DEF decision
<1>3. CASE Readable("proposal", key) /\ Decide(p, key, decision)
  <2> DEFINE note == [key |-> key, kind |-> "approval", decision |-> decision]
  <2>1. Note(p, note) /\ Goto(p, "probe")
    BY <1>3 DEF Decide
  <2>2. DOMAIN note = {"key", "kind", "decision"} /\ note.kind = "approval" /\ note.key = key
    OBVIOUS
  <2> HIDE DEF note
  <2>3. flow'[p].kind = "approval" /\ flow'[p].key = key
    BY <2>1, <2>2, NoteIs DEF NoFlow
  <2>4. run'[p].pc = "probe"
    BY <1>1, <2>1, GotoIs DEF Claiming, Reading, Publishing
  <2>5. StoreOK(run'[p], flow'[p], files)
    BY <1>3, <2>3, <2>4 DEF StoreOK, Written, Readable
  <2> QED BY <1>1, <2>4, <2>5, FilesSame
<1>4. CASE Finish(p, "not_ready")
  <2>1. run'[p].pc = "returned"
    BY <1>1, <1>4, FinishIs DEF Told
  <2> QED BY <1>1, <2>1, NotStoring, FilesSame DEF Storage
<1> QED BY <1>2, <1>3, <1>4

(* What follows an artifact that was stored, or was not.                   *)
LEMMA AfterStoredNext ==
  ASSUME Shape, NEW p \in Procs, run[p].pc \in Storage, AfterStored(p),
         NEW fs, flow[p].kind = "proposal" => Written(fs, "proposal", flow[p].key)
  PROVE  run'[p].pc # "write" /\ StoreOK(run'[p], flow'[p], fs)
<1>1. run[p].pc # "idle" /\ flow[p].kind \in Kinds
  BY DEF Storage, Shape, FlowOK
<1>2. CASE flow[p].kind = "proposal"
  <2>1. Note(p, [kind |-> "evidence"]) /\ Goto(p, "probe")
    BY <1>2 DEF AfterStored
  <2>2. run'[p].pc = "probe"
    BY <1>1, <2>1, GotoIs DEF Claiming, Reading, Publishing
  <2>3. flow'[p].kind = "evidence" /\ flow'[p].key = flow[p].key
    BY <2>1, NoteIs DEF NoFlow
  <2> QED BY <1>2, <2>2, <2>3 DEF StoreOK
<1>3. CASE flow[p].kind # "proposal"
  <2>1. Finish(p, "proposal") \/ Goto(p, "recheck") \/ Finish(p, flow[p].decision)
    BY <1>1, <1>3 DEF AfterStored, Kinds
  <2>2. Finish(p, flow[p].decision) => flow[p].decision \notin Told
    <3>1. CASE flow[p].kind = "approval"
      BY <3>1 DEF Shape, FlowOK, Told
    <3>2. CASE flow[p].kind = "evidence"
      <4>1. (Finish(p, "proposal") \/ Goto(p, "recheck"))
        BY <3>2 DEF AfterStored
      <4>2. run'[p].outcome = "proposal" \/ run'[p].pc = "recheck"
        BY <4>1 DEF Shape, Finish, Goto, Change, Over, Idle
      <4>3. Finish(p, flow[p].decision) =>
              run'[p].pc = "returned" /\ run'[p].outcome = flow[p].decision
        BY DEF Shape, Finish, Change, Over, Idle
      <4> QED BY <4>2, <4>3 DEF Told
    <3> QED BY <1>1, <1>3, <3>1, <3>2 DEF Kinds
  <2>3. run'[p].pc \in {"returned", "recheck"}
    BY <1>1, <2>1, <2>2, FinishIs, GotoIs DEF Told, Claiming, Reading, Publishing
  <2> QED BY <2>3, NotStoring DEF Storage
<1> QED BY <1>2, <1>3

LEMMA AfterFailureNext ==
  ASSUME Shape, NEW p \in Procs, run[p].pc \in Storage, AfterFailure(p)
  PROVE  run'[p].pc \notin Storage
<1>1. run[p].pc # "idle" /\ flow[p].kind \in Kinds
  BY DEF Storage, Shape, FlowOK
<1>2. \/ Finish(p, "persistence_failed") \/ Finish(p, "partial") \/ Finish(p, "not_recorded")
      \/ Goto(p, "recheck")
  BY <1>1 DEF AfterFailure, Kinds
<1>3. run'[p].pc \in {"returned", "recheck"}
  BY <1>1, <1>2, FinishIs, GotoIs DEF Told, Claiming, Reading, Publishing
<1> QED BY <1>3 DEF Storage

LEMMA ProbeFiles ==
  ASSUME Shape, FilesInv, NEW p \in Procs, Probe(p)
  PROVE  Stays(files, files') /\ FilesInv'
<1>1. /\ run[p].pc = "probe" /\ run[p].pc \in Storage /\ run[p].pc # "idle" /\ UNCHANGED files
      /\ StoreOK(run[p], flow[p], files) /\ Others(p)
  <2>1. Others(p)
    BY StoringOK, CarriedOthers DEF Storing
  <2> QED BY <2>1 DEF Probe, At, Storage, own, FilesInv
<1>2. CASE File(p) \notin DOMAIN files
  <2> DEFINE Created == Goto(p, "create") /\ UNCHANGED flow
  <2>1. (CASE File(p) \notin DOMAIN files -> Created
           [] AlreadyStored(p) -> AfterStored(p)
           [] OTHER -> AfterFailure(p))
    BY DEF Probe
  <2>2. ~AlreadyStored(p)
    BY <1>2 DEF AlreadyStored
  <2> HIDE DEF Created
  <2>3. Created
    BY <1>2, <2>1, <2>2
  <2>4. run'[p].pc = "create"
    BY <1>1, <2>3, GotoIs DEF Created, Claiming, Reading, Publishing
  <2> QED BY <1>1, <2>3, <2>4, FilesSame DEF Created, StoreOK
<1>3. CASE File(p) \in DOMAIN files /\ AlreadyStored(p)
  <2>1. AfterStored(p)
    BY <1>3 DEF Probe
  <2>2. flow[p].kind = "proposal" => Written(files, "proposal", flow[p].key)
    BY <1>1, <1>3 DEF AlreadyStored, Content, File, Written, StoreOK, Torn
  <2> QED BY <1>1, <2>1, <2>2, AfterStoredNext, FilesSame
<1>4. CASE File(p) \in DOMAIN files /\ ~AlreadyStored(p)
  <2>1. AfterFailure(p)
    BY <1>4 DEF Probe
  <2>2. run'[p].pc \notin Storage
    BY <1>1, <2>1, AfterFailureNext
  <2> QED BY <1>1, <2>2, NotStoring, FilesSame DEF Storage
<1> QED BY <1>2, <1>3, <1>4

LEMMA CreateFiles ==
  ASSUME Shape, FilesInv, NEW p \in Procs, Create(p)
  PROVE  Stays(files, files') /\ FilesInv'
<1>1. /\ run[p].pc = "create" /\ run[p].pc \in Storage /\ run[p].pc # "idle"
      /\ StoreOK(run[p], flow[p], files) /\ Others(p) /\ flow[p].kind \in Kinds
  BY StoringOK, CarriedOthers DEF Storing, Create, At, Storage, FilesInv, Shape, FlowOK
<1>2. CASE File(p) \in DOMAIN files
  <2>1. AfterFailure(p) /\ UNCHANGED files
    BY <1>2 DEF Create
  <2>2. run'[p].pc \notin Storage
    BY <1>1, <2>1, AfterFailureNext
  <2> QED BY <1>1, <2>1, <2>2, NotStoring, FilesSame DEF Storage
<1>3. CASE File(p) \notin DOMAIN files
  <2>1. /\ files' = Over([f \in {File(p)} |-> Torn], files)
        /\ Goto(p, "write") /\ UNCHANGED flow
    BY <1>3 DEF Create
  <2>2. /\ DOMAIN files' = DOMAIN files \union {Place(flow[p])}
        /\ files'[Place(flow[p])] = Torn
        /\ \A f \in DOMAIN files : files'[f] = files[f]
    BY <1>3, <2>1 DEF Over, File, Place
  <2>3. Stays(files, files')
    BY <2>2 DEF Stays
  <2>4. flow[p].kind # "proposal" => Written(files', "proposal", flow[p].key)
    BY <1>1, <2>3, WrittenStays DEF StoreOK
  <2>5. InOrder(files')
    <3>1. ASSUME NEW f \in DOMAIN files
          PROVE  f[1] \in Kinds /\ (f[1] # "proposal" => Written(files', "proposal", f[2]))
      BY <2>3, WrittenStays DEF FilesInv, InOrder
    <3>2. Place(flow[p])[1] = flow[p].kind /\ Place(flow[p])[2] = flow[p].key
      BY DEF Place
    <3> QED BY <1>1, <2>2, <2>4, <3>1, <3>2 DEF InOrder
  <2>6. run'[p].pc = "write"
    BY <1>1, <2>1, GotoIs DEF Claiming, Reading, Publishing
  <2>7. StoreOK(run'[p], flow'[p], files')
    BY <1>1, <2>1, <2>2, <2>4, <2>6 DEF StoreOK
  <2>8. Place(flow'[p]) \notin DOMAIN files /\ run[p].pc # "write"
    BY <1>1, <1>3, <2>1 DEF File, Place
  <2>9. \A f \in DOMAIN files : f \in DOMAIN files' /\ files'[f] = files[f]
    BY <2>2
  <2> QED BY <1>1, <2>3, <2>5, <2>7, <2>8, <2>9, FilesKept
<1> QED BY <1>2, <1>3

LEMMA WriteFiles ==
  ASSUME Shape, FilesInv, NEW p \in Procs, Write(p)
  PROVE  Stays(files, files') /\ FilesInv'
<1>1. /\ run[p].pc = "write" /\ run[p].pc \in Storage
      /\ StoreOK(run[p], flow[p], files) /\ Others(p) /\ AfterStored(p)
  BY StoringOK, CarriedOthers DEF Storing, Write, At, Storage, FilesInv
<1>2. /\ DOMAIN files' = DOMAIN files
      /\ Place(flow[p]) \in DOMAIN files /\ files[Place(flow[p])] = Torn
      /\ files'[Place(flow[p])] = Content(p)
      /\ \A f \in DOMAIN files : f # Place(flow[p]) => files'[f] = files[f]
  <2>1. files' = [files EXCEPT ![Place(flow[p])] = Content(p)]
    BY DEF Write, File, Place
  <2>2. Place(flow[p]) \in DOMAIN files /\ files[Place(flow[p])] = Torn
    BY <1>1 DEF StoreOK
  <2> HIDE DEF Content, Place
  <2> QED BY <2>1, <2>2
<1>3. Stays(files, files')
  BY <1>2 DEF Stays
<1>4. InOrder(files')
  BY <1>2, <1>3, WrittenStays DEF FilesInv, InOrder
<1>5. flow[p].kind = "proposal" => Written(files', "proposal", flow[p].key)
  BY <1>1, <1>2 DEF Content, Place, Written, StoreOK, Torn
<1>6. run'[p].pc # "write" /\ StoreOK(run'[p], flow'[p], files')
  BY <1>1, <1>5, AfterStoredNext
<1>7. \A f \in DOMAIN files :
        f \in DOMAIN files' /\ (files'[f] = files[f] \/ (run[p].pc = "write" /\ f = Place(flow[p])))
  BY <1>1, <1>2
<1> QED BY <1>1, <1>3, <1>4, <1>6, <1>7, FilesKept

LEMMA CommandFiles ==
  ASSUME Inv, FilesInv, NEW p \in Procs, Command(p)
  PROVE  Stays(files, files') /\ FilesInv'
<1>1. Shape /\ Carried(p) /\ Others(p)
  BY CommandCarried, CarriedOthers DEF Inv
<1>2. CASE Stores(p)
  BY <1>1, <1>2, AskFiles, LoadReviewFiles, ProbeFiles, CreateFiles, WriteFiles
     DEF Stores, Storing
<1>3. CASE ~Stores(p)
  <2>1. run'[p].pc \notin Storage
    BY <1>1, <1>3 DEF Carried
  <2>2. UNCHANGED files
    BY <1>3 DEF Command, Stores, Begin, Leave, Discovered, CheckReady, Reviewing, LoadApply,
                NothingToLoad, Gate, Preflight, Perform, Recheck, Continue, Final, own
  <2> QED BY <1>1, <2>1, <2>2, NotStoring, FilesSame DEF Storage
<1> QED BY <1>2, <1>3

LEMMA FilesStep ==
  ASSUME Inv, FilesInv, [Next]_vars
  PROVE  Stays(files, files') /\ FilesInv'
<1>1. CASE UNCHANGED <<files, run, flow>>
  BY <1>1 DEF FilesInv, Stays
<1>2. CASE \E p \in Procs : Command(p)
  BY <1>2, CommandFiles
<1>3. CASE \E p \in Procs : Crash(p)
  <2>1. PICK p \in Procs : Crash(p)
    BY <1>3
  <2>2. Others(p) /\ UNCHANGED files /\ run'[p].pc \notin Storage
    BY <2>1 DEF Inv, Shape, Crash, Die, Others, own, Idle, Storage
  <2> QED BY <2>2, NotStoring, FilesSame DEF Storage
<1>4. Surroundings => UNCHANGED run
  BY DEF Surroundings, EditNote, AdvanceClock, FinishSession, DamageState
<1> QED BY <1>1, <1>2, <1>3, <1>4 DEF Next, vars, own

LEMMA InvAlways == Spec => [](Inv /\ FilesInv)
<1>1. Init => Inv /\ FilesInv
  <2>1. ASSUME Init
        PROVE  FilesInv
    <3>1. DOMAIN files = {} /\ \A p \in Procs : run[p].pc \notin Storage
      BY <2>1 DEF Init, InitCampaign, Idle, Storage
    <3> QED BY <3>1, NotStoring DEF FilesInv, InOrder, Storage
  <2> QED BY <2>1, InvInit
<1>2. Inv /\ FilesInv /\ [Next]_vars => Inv' /\ FilesInv'
  BY InvStep, FilesStep
<1> QED BY <1>1, <1>2, PTL DEF Spec

(* Evidence and approvals lie only beside the whole proposal they are of,  *)
(* for everyone who may look, whichever commands run side by side and      *)
(* wherever they die.                                                      *)
THEOREM ArtifactsComeInOrder == Spec => []ArtifactsInOrder
<1>1. FilesInv => ArtifactsInOrder
  BY DEF FilesInv, InOrder, Written, ArtifactsInOrder, Readable
<1> QED BY <1>1, InvAlways, PTL

(* An artifact that was written is never written again: not by a later     *)
(* mapping that comes to other operations, not by a second decision.       *)
THEOREM ArtifactsStay == Spec => [][Stays(files, files')]_vars
<1>1. Inv /\ FilesInv /\ [Next]_vars => [Stays(files, files')]_vars
  BY FilesStep
<1> QED BY <1>1, InvAlways, PTL DEF Spec

-----------------------------------------------------------------------------
(* What discovery and mapping know of names.                               *)

IsSeq(s) == \E S : s \in Seq(S)

(* The entities of a vault that go by a name.                              *)
Named(v, n) ==
  {path \in Stored(v) : IsEntity(v[path].note) /\ Normalized(v[path].note.name) = n}

(* The names of the entities whose contents a fingerprint was taken of.    *)
EntityEntries(key) ==
  {path \in DOMAIN key :
     /\ key[path].class = "entity" /\ key[path].content # <<>>
     /\ IsEntity(key[path].content[1])}
KnownNames(key) == {Normalized(key[path].content[1].name) : path \in EntityEntries(key)}

FilesOK(v) == \A path \in DOMAIN v : IsFile(path, v[path])

LEMMA Prefix ==
  ASSUME NEW s, NEW t, IsSeq(s), IsSeq(t), NEW k \in 1..Len(t), IsStrictPrefix(s, t)
  PROVE  IsPrefix(s, SubSeq(t, 1, k)) \/ IsPrefix(SubSeq(t, 1, k), s)
<1> DEFINE u == SubSeq(t, 1, k)
<1>1. PICK S : s \in Seq(S)
  BY DEF IsSeq
<1>2. PICK T : t \in Seq(T)
  BY DEF IsSeq
<1>3. Len(s) \in Nat /\ Len(t) \in Nat /\ k \in Nat /\ k <= Len(t)
  BY <1>1, <1>2
<1>4. Len(u) = k /\ (\A i \in 1..k : u[i] = t[i]) /\ u \in Seq(T)
  BY <1>2
<1>5. Len(s) <= Len(t) /\ SubSeq(s, 1, Len(s)) = SubSeq(t, 1, Len(s))
  BY DEF IsStrictPrefix, IsPrefix
<1>6. \A i \in 1..Len(s) : s[i] = t[i]
  <2> TAKE i \in 1..Len(s)
  <2>1. SubSeq(s, 1, Len(s))[i] = s[i]
    BY <1>1
  <2>2. SubSeq(t, 1, Len(s))[i] = t[i]
    BY <1>2, <1>3, <1>5
  <2> QED BY <1>5, <2>1, <2>2
<1> HIDE DEF u
<1>7. CASE Len(s) <= k
  <2>1. SubSeq(s, 1, Len(s)) = [i \in 1..Len(s) |-> s[i]]
    BY <1>1, <1>3
  <2>2. SubSeq(u, 1, Len(s)) = [i \in 1..Len(s) |-> u[i]]
    BY <1>3, <1>4, <1>7
  <2>3. \A i \in 1..Len(s) : s[i] = u[i]
    BY <1>3, <1>4, <1>6, <1>7
  <2>4. SubSeq(s, 1, Len(s)) = SubSeq(u, 1, Len(s))
    BY <2>1, <2>2, <2>3
  <2> QED BY <1>4, <1>7, <2>4 DEF IsPrefix, u
<1>8. CASE k < Len(s)
  <2>1. SubSeq(s, 1, k) = [i \in 1..k |-> s[i]]
    BY <1>1, <1>3, <1>8
  <2>2. SubSeq(u, 1, k) = [i \in 1..k |-> u[i]]
    BY <1>3, <1>4
  <2>3. \A i \in 1..k : s[i] = u[i]
    BY <1>3, <1>4, <1>6, <1>8
  <2>4. SubSeq(u, 1, Len(u)) = SubSeq(s, 1, Len(u))
    BY <1>4, <2>1, <2>2, <2>3
  <2> QED BY <1>3, <1>4, <1>8, <2>4 DEF IsPrefix, u
<1> QED BY <1>3, <1>7, <1>8

(* A file in an entity folder is an entity entry, unless an issue or an    *)
(* excluded name in the managed folders hides it.                          *)
LEMMA StoredIsSeen ==
  ASSUME NEW v, FilesOK(v), NEW path \in Stored(v), CoverageComplete(Discover(v))
  PROVE  /\ path \in Entries(v) /\ ClassOf(v, path) = "entity" /\ path \in Eligible(v)
<1> DEFINE report == Discover(v)
           k == Least(StopsAt(v, path))
           stop == StopPoint(v, path)
<1>1. /\ path \in DOMAIN v /\ UnderEntityFolder(path) /\ v[path].ext = "md"
      /\ v[path].form = "regular" /\ IsSeq(path)
  BY DEF Stored, FilesOK, IsFile, IsList, IsSeq
<1>2. PICK folder \in DOMAIN EntityFolders : IsStrictPrefix(folder, path)
  BY <1>1 DEF UnderEntityFolder
<1>3. IsSeq(folder) /\ folder # <<>> /\ folder[1] # "_system"
  BY <1>2, ContentAssumption DEF IsList, IsSeq
<1>4. path[1] = folder[1]
  <2>1. PICK S : folder \in Seq(S)
    BY <1>3 DEF IsSeq
  <2>2. PICK T : path \in Seq(T)
    BY <1>1 DEF IsSeq
  <2>3. 1 <= Len(folder) /\ Len(folder) \in Nat /\ Len(folder) <= Len(path) /\ Len(path) \in Nat
    BY <1>2, <1>3, <2>1, <2>2 DEF IsStrictPrefix, IsPrefix
  <2>4. SubSeq(folder, 1, Len(folder))[1] = folder[1] /\ SubSeq(path, 1, Len(folder))[1] = path[1]
    BY <2>1, <2>2, <2>3
  <2> QED BY <1>2, <2>4 DEF IsStrictPrefix, IsPrefix
<1>5. path \in Entries(v)
  <2> SUFFICES ASSUME path \notin Entries(v)
               PROVE  FALSE
    OBVIOUS
  <2>1. StopsAt(v, path) # {} /\ StopsAt(v, path) \subseteq 1..Len(path) /\ Len(path) \in Nat
    BY <1>1 DEF Entries, StopsAt, IsSeq
  <2>2. k \in StopsAt(v, path)
    <3>1. StopsAt(v, path) \in SUBSET Nat
      BY <2>1
    <3>2. PICK n \in StopsAt(v, path) : \A m \in StopsAt(v, path) : ~(m < n)
      BY <2>1, <3>1, LeastNumber
    <3>3. \A m \in StopsAt(v, path) : n <= m
      BY <2>1, <3>2
    <3> QED BY <3>2, <3>3 DEF Least
  <2>3. k \in 1..Len(path)
    BY <2>1, <2>2
  <2>4. ManagedNamespace(stop)
    BY <1>1, <1>2, <1>3, <2>3, Prefix DEF ManagedNamespace, StopPoint
  <2>5. CASE path[k] \in ExcludedNames
    <3>1. path \in Stopped(v, TRUE)
      BY <1>1, <2>5 DEF Stopped
    <3>2. [path |-> stop, directory |-> IsDirectory(path, stop), ext |-> v[path].ext]
             \in report.excluded
      BY <3>1 DEF Discover
    <3> QED BY <1>1, <2>4, <3>2 DEF CoverageComplete
  <2>6. CASE path[k] \notin ExcludedNames
    <3>1. path \in Stopped(v, FALSE)
      BY <1>1, <2>6 DEF Stopped
    <3>2. stop \in report.issues
      BY <3>1 DEF Discover
    <3> QED BY <2>4, <3>2 DEF CoverageComplete
  <2> QED BY <2>5, <2>6
<1>6. path[1] # "_system" /\ path \notin DerivedPaths /\ v[path].ext \in TextExtensions
  BY <1>1, <1>3, <1>4, ContentAssumption
<1>7. ClassOf(v, path) = "entity"
  BY <1>1, <1>6 DEF ClassOf
<1> QED BY <1>5, <1>7 DEF Eligible

(* With complete coverage, the fingerprint knows every entity by name.     *)
LEMMA CoverageKnows ==
  ASSUME NEW v, FilesOK(v), CoverageComplete(Discover(v)), NEW n, Named(v, n) # {}
  PROVE  n \in KnownNames(SourcesOf(v))
<1> DEFINE report == Discover(v)
           key == Fingerprint(report)
<1>1. PICK path \in Stored(v) : IsEntity(v[path].note) /\ Normalized(v[path].note.name) = n
  BY DEF Named
<1>2. path \in Eligible(v) /\ ClassOf(v, path) = "entity"
  BY StoredIsSeen
<1>3. /\ DOMAIN report.entries = Eligible(v) /\ report.entries[path].class = "entity"
      /\ report.entries[path].note = v[path].note
  BY <1>2 DEF Discover
<1> HIDE DEF report
<1>4. path \in WasRead(report)
  BY <1>2, <1>3 DEF CoverageComplete, WasRead, report
<1>5. path \in DOMAIN key /\ key[path].class = "entity" /\ key[path].content = <<v[path].note>>
  BY <1>2, <1>3, <1>4 DEF Fingerprint
<1> HIDE DEF key
<1>6. key[path].content # <<>> /\ key[path].content[1] = v[path].note
  BY <1>5
<1>7. path \in EntityEntries(key)
  BY <1>1, <1>5, <1>6 DEF EntityEntries
<1>8. n \in KnownNames(key)
  BY <1>1, <1>6, <1>7 DEF KnownNames
<1> QED BY <1>8 DEF key, report, SourcesOf

(* The folds of the mapping, each a chain of steps: what a source is added *)
(* to, what a candidate or a claim becomes.                                *)
PackStep(report, acc, path) == AddSource(report, acc, path)
JoinStep(c, all, s) == all \o s
CreateStep(c, acc, k) ==
  LET outcome == CreateOutcome(c.report, c.x, k) IN
  IF outcome = "create"
  THEN [acc EXCEPT !.ops = Append(@, CreateOp(k))]
  ELSE [acc EXCEPT !.unresolved = @ \union {<<"item", outcome, k.id>>}]
AppendStep(c, acc, k) ==
  LET outcome == AppendOutcome(c.report, c.x, acc.ops, k) IN
  IF outcome = "append"
  THEN [acc EXCEPT !.ops = Append(@, AppendOp(c.report, acc.ops, k))]
  ELSE [acc EXCEPT !.unresolved = @ \union {<<"item", outcome, k.id>>}]

PackKept(c, i, acc) ==
  /\ DOMAIN acc = {"batches", "pending", "chars", "skipped"}
  /\ IsSeq(acc.batches) /\ IsSeq(acc.pending)
JoinKept(S, i, all) == all \in Seq(S)
Planned(acc) == DOMAIN acc = {"ops", "unresolved"} /\ IsSeq(acc.ops)
CreateKept(c, i, acc) ==
  /\ Planned(acc)
  /\ \A m \in DOMAIN acc.ops : \E j \in 1..i :
       /\ acc.ops[m] = CreateOp(c.x.candidates[j])
       /\ CreateOutcome(c.report, c.x, c.x.candidates[j]) = "create"
  /\ \A m, l \in DOMAIN acc.ops :
       Normalized(acc.ops[m].name) = Normalized(acc.ops[l].name) => m = l
AppendKept(c, i, acc) ==
  Planned(acc) /\ \A m \in DOMAIN acc.ops : acc.ops[m].op = "append"

PackFold == INSTANCE Folding WITH Step <- PackStep, Kept <- PackKept
JoinFold == INSTANCE Folding WITH Step <- JoinStep, Kept <- JoinKept
CreateFold == INSTANCE Folding WITH Step <- CreateStep, Kept <- CreateKept
AppendFold == INSTANCE Folding WITH Step <- AppendStep, Kept <- AppendKept

Unpacked == [batches |-> <<>>, pending |-> <<>>, chars |-> 0, skipped |-> <<>>]

LEMMA PackFolds ==
  ASSUME NEW report
  PROVE  LET packed == Flush(PackFold!Fold(report, Unpacked, SourceOrder(report))) IN
         Prepare(report) = [batches |-> packed.batches, skipped |-> packed.skipped]
BY DEF Prepare, PackStep, Unpacked, FoldLeft, MapThenFoldSet, PackFold!Fold, Max, PackFold!Max

LEMMA JoinFolds ==
  ASSUME NEW seqs, NEW S
  PROVE  Joined(seqs) = JoinFold!Fold(S, <<>>, seqs)
BY DEF Joined, JoinStep, FoldLeft, MapThenFoldSet, JoinFold!Fold, Max, JoinFold!Max

Nothing == [ops |-> <<>>, unresolved |-> {}]

LEMMA CreateFolds ==
  ASSUME NEW report, NEW x
  PROVE  Creates(report, x) = CreateFold!Fold([report |-> report, x |-> x], Nothing, x.candidates)
BY DEF Creates, CreateStep, Nothing, FoldLeft, MapThenFoldSet, CreateFold!Fold, Max, CreateFold!Max

LEMMA AppendFolds ==
  ASSUME NEW report, NEW x
  PROVE  Appends(report, x) = AppendFold!Fold([report |-> report, x |-> x], Nothing, x.claims)
BY DEF Appends, AppendStep, Nothing, FoldLeft, MapThenFoldSet, AppendFold!Fold, Max, AppendFold!Max

LEMMA Longer ==
  ASSUME NEW s, NEW e, IsSeq(s)
  PROVE  /\ IsSeq(Append(s, e)) /\ DOMAIN Append(s, e) = 1..(Len(s) + 1)
         /\ DOMAIN s = 1..Len(s) /\ Len(s) \in Nat /\ Append(s, e)[Len(s) + 1] = e
         /\ \A i \in DOMAIN s : Append(s, e)[i] = s[i]
<1>1. PICK S : s \in Seq(S)
  BY DEF IsSeq
<1>2. s \in Seq(S \union {e})
  BY <1>1, SeqMonotonic
<1>3. Append(s, e) \in Seq(S \union {e})
  BY <1>2, AppendProperties
<1> QED BY <1>1, <1>3 DEF IsSeq

LEMMA Long ==
  ASSUME NEW s, IsSeq(s)
  PROVE  Len(s) \in Nat /\ DOMAIN s = 1..Len(s)
BY DEF IsSeq

LEMMA Together ==
  ASSUME NEW s, NEW t, IsSeq(s), IsSeq(t)
  PROVE  /\ IsSeq(s \o t) /\ DOMAIN (s \o t) = 1..(Len(s) + Len(t))
         /\ Len(s) \in Nat /\ Len(t) \in Nat
         /\ DOMAIN s = 1..Len(s) /\ DOMAIN t = 1..Len(t)
         /\ \A i \in DOMAIN s : (s \o t)[i] = s[i]
         /\ \A i \in DOMAIN t : (s \o t)[Len(s) + i] = t[i]
<1>1. PICK S : s \in Seq(S)
  BY DEF IsSeq
<1>2. PICK T : t \in Seq(T)
  BY DEF IsSeq
<1>3. s \in Seq(S \union T) /\ t \in Seq(S \union T)
  BY <1>1, <1>2, SeqMonotonic
<1>4. /\ s \o t \in Seq(S \union T) /\ Len(s \o t) = Len(s) + Len(t)
      /\ \A i \in 1..Len(s) + Len(t) :
           (s \o t)[i] = IF i <= Len(s) THEN s[i] ELSE t[i - Len(s)]
  BY <1>3, ConcatProperties
<1>5. Len(s) \in Nat /\ Len(t) \in Nat /\ DOMAIN s = 1..Len(s) /\ DOMAIN t = 1..Len(t)
  BY <1>3
<1>6. DOMAIN (s \o t) = 1..(Len(s) + Len(t))
  BY <1>4
<1>7. \A i \in 1..Len(s) : i \in 1..Len(s) + Len(t) /\ i <= Len(s)
  BY <1>5
<1>8. \A i \in 1..Len(t) : /\ Len(s) + i \in 1..Len(s) + Len(t) /\ ~(Len(s) + i <= Len(s))
                           /\ (Len(s) + i) - Len(s) = i
  BY <1>5
<1> QED BY <1>4, <1>5, <1>6, <1>7, <1>8 DEF IsSeq

(* The batches are a list.                                                 *)
LEMMA OfClassIs ==
  ASSUME NEW report, NEW class
  PROVE  IsSeq(OfClass(report, class))
<1> DEFINE paths == {path \in DOMAIN report.entries : report.entries[path].class = class}
           at == {i \in DOMAIN PathOrder : PathOrder[i] \in paths}
           n == Cardinality(at)
           Kth(k) == PathOrder[CHOOSE i \in at : Cardinality({j \in at : j < i}) = k - 1]
           s == OfClass(report, class)
<1>1. PICK m \in Nat : DOMAIN PathOrder = 1..m
  BY ContentAssumption, Long DEF IsList, IsSeq
<1>2. n \in Nat
  <2>1. IsFiniteSet(1..m) /\ at \subseteq 1..m
    BY <1>1, FS_Interval
  <2> QED BY <2>1, FS_Subset, FS_CardinalityType
<1>3. s = [k \in 1..n |-> Kth(k)]
  BY DEF OfClass, InPathOrder
<1> HIDE DEF s, n, Kth
<1>4. s \in Seq({s[k] : k \in 1..n})
  <2>1. s \in [1..n -> {s[k] : k \in 1..n}]
    BY <1>3
  <2> QED BY <1>2, <2>1, SeqDef
<1> QED BY <1>4 DEF IsSeq, s

LEMMA FlushIs ==
  ASSUME NEW acc, PackKept(acc, 0, acc)
  PROVE  PackKept(acc, 0, Flush(acc))
<1>1. IsSeq(<<>>)
  <2>1. <<>> \in Seq({})
    OBVIOUS
  <2> QED BY <2>1 DEF IsSeq
<1>2. IsSeq(Append(acc.batches, acc.pending))
  BY Longer DEF PackKept
<1> QED BY <1>1, <1>2 DEF Flush, PackKept

LEMMA SkipIs ==
  ASSUME NEW acc, PackKept(acc, 0, acc), NEW path, NEW reason
  PROVE  PackKept(acc, 0, Skip(acc, path, reason))
BY DEF Skip, PackKept

LEMMA PackIs ==
  ASSUME NEW acc, PackKept(acc, 0, acc), NEW path, NEW size
  PROVE  PackKept(acc, 0, Pack(acc, path, size))
<1> DEFINE apart == acc.pending # <<>> /\ acc.chars + 1 + size > MaxContext
           room  == IF apart THEN Flush(acc) ELSE acc
           sep   == IF room.pending = <<>> THEN 0 ELSE 1
           added == [room EXCEPT !.pending = Append(@, path), !.chars = @ + sep + size]
<1>1. PackKept(acc, 0, room)
  BY FlushIs
<1>2. Pack(acc, path, size) \in {Skip(room, path, "batch_limit"), Flush(added), added}
  BY DEF Pack
<1> HIDE DEF room, sep
<1>3. \A a : PackKept(a, 0, room) 
  BY <1>1 DEF PackKept
<1>4. PackKept(room, 0, Skip(room, path, "batch_limit"))
  BY <1>3, SkipIs
<1>5. \A a : PackKept(a, 0, added)
  <2>1. IsSeq(Append(room.pending, path))
    BY <1>1, Longer DEF PackKept
  <2> QED BY <1>1, <2>1 DEF PackKept
<1> HIDE DEF added
<1>6. PackKept(added, 0, Flush(added))
  BY <1>5, FlushIs
<1> QED BY <1>2, <1>4, <1>5, <1>6 DEF PackKept

LEMMA BatchesAreAList ==
  ASSUME NEW report
  PROVE  IsSeq(Prepare(report).batches)
<1>1. IsSeq(SourceOrder(report)) /\ IsSeq(<<>>)
  <2>1. <<>> \in Seq({})
    OBVIOUS
  <2> QED BY <2>1, OfClassIs, Together DEF SourceOrder, IsSeq
<1>2. PICK n \in Nat : DOMAIN SourceOrder(report) = 1..n
  BY <1>1, Long
<1>3. ASSUME NEW i \in 1..n, NEW acc, PackKept(report, i - 1, acc)
      PROVE  PackKept(report, i, PackStep(report, acc, SourceOrder(report)[i]))
  <2> DEFINE path == SourceOrder(report)[i]
             entry == report.entries[path]
  <2>1. PackStep(report, acc, path) \in
          {Skip(acc, path, entry.status), Skip(acc, path, "too_large"), Pack(acc, path, entry.size)}
    BY DEF PackStep, AddSource
  <2>2. PackKept(acc, 0, acc)
    BY <1>3 DEF PackKept
  <2> HIDE DEF path, entry
  <2>3. \A r \in {Skip(acc, path, entry.status), Skip(acc, path, "too_large"),
                  Pack(acc, path, entry.size)} : PackKept(acc, 0, r)
    BY <2>2, SkipIs, PackIs
  <2>4. PackKept(acc, 0, PackStep(report, acc, path))
    BY <2>1, <2>3
  <2> QED BY <2>4 DEF PackKept, path
<1>4. PackKept(report, 0, Unpacked)
  BY <1>1 DEF PackKept, Unpacked
<1> DEFINE acc == PackFold!Fold(report, Unpacked, SourceOrder(report))
<1>5. PackKept(report, n, acc)
  BY <1>2, <1>3, <1>4, PackFold!Keeps
<1>6. Prepare(report).batches = Flush(acc).batches
  BY PackFolds
<1> HIDE DEF acc
<1>7. PackKept(acc, 0, Flush(acc))
  BY <1>5, FlushIs DEF PackKept
<1> QED BY <1>6, <1>7 DEF PackKept

NameOf(o) == Normalized(o.name)
Made(ops) == {i \in DOMAIN ops : ops[i].op = "create"}
KnownTypes == {EntityFolders[folder] : folder \in DOMAIN EntityFolders}

(* Operations that suit the sources with the fingerprint key: what they    *)
(* create has a folder, and a name nobody has.                             *)
Sound(key, ops) ==
  /\ IsSeq(ops)
  /\ \A i \in DOMAIN ops : ops[i].op \in {"create", "append"}
  /\ \A i \in Made(ops) : ops[i].type \in KnownTypes /\ NameOf(ops[i]) \notin KnownNames(key)
  /\ \A i, j \in Made(ops) : NameOf(ops[i]) = NameOf(ops[j]) => i = j

LEMMA Several ==
  ASSUME NEW n \in Nat, NEW S, S \subseteq 1..n, NEW i \in S, NEW j \in S, i # j
  PROVE  Cardinality(S) > 1
<1>1. IsFiniteSet(1..n)
  BY FS_Interval
<1>2. IsFiniteSet(S)
  BY <1>1, FS_Subset
<1>3. IsFiniteSet({i}) /\ Cardinality({i}) = 1
  BY FS_Singleton
<1>4. {i} \subseteq S /\ {i} # S
  OBVIOUS
<1>5. Cardinality(S) \in Nat /\ Cardinality({i}) <= Cardinality(S)
  BY <1>2, <1>4, FS_Subset, FS_CardinalityType
<1>6. Cardinality({i}) # Cardinality(S)
  BY <1>2, <1>4, FS_Subset
<1> QED BY <1>3, <1>5, <1>6

LEMMA CreateIs ==
  ASSUME NEW report, NEW x, NEW k
  PROVE  CreateOutcome(report, x, k) = "create" =>
           /\ ~(Cardinality(NameGroup(x, k)) > 1)
           /\ AnyTypeMatches(report, k.name) = {}
BY DEF CreateOutcome

\* What becomes of one item.
LEMMA Outcome ==
  ASSUME NEW acc, Planned(acc), NEW o, NEW u
  PROVE  /\ Planned([acc EXCEPT !.ops = Append(@, o)])
         /\ [acc EXCEPT !.ops = Append(@, o)].ops = Append(acc.ops, o)
         /\ [acc EXCEPT !.ops = Append(@, o)].unresolved = acc.unresolved
         /\ Planned([acc EXCEPT !.unresolved = @ \union {u}])
         /\ [acc EXCEPT !.unresolved = @ \union {u}].ops = acc.ops
         /\ [acc EXCEPT !.unresolved = @ \union {u}].unresolved = acc.unresolved \union {u}
BY Longer DEF Planned

(* The creates: of candidates nobody known has the name of, each name once.*)
LEMMA CreatesAre ==
  ASSUME NEW report, NEW x, IsSeq(x.candidates)
  PROVE  CreateKept([report |-> report, x |-> x], Len(x.candidates), Creates(report, x))
<1> DEFINE c == [report |-> report, x |-> x]
           n == Len(x.candidates)
<1>1. n \in Nat /\ DOMAIN x.candidates = 1..n
  BY Long
<1>2. ASSUME NEW i \in 1..n, NEW acc, CreateKept(c, i - 1, acc)
      PROVE  CreateKept(c, i, CreateStep(c, acc, x.candidates[i]))
  <2> DEFINE k == x.candidates[i]
             outcome == CreateOutcome(report, x, k)
             more == [acc EXCEPT !.ops = Append(@, CreateOp(k))]
             less == [acc EXCEPT !.unresolved = @ \union {<<"item", outcome, k.id>>}]
  <2>1. CreateStep(c, acc, k) = IF outcome = "create" THEN more ELSE less
    BY DEF CreateStep
  <2>2. /\ Planned(acc)
        /\ \A m \in DOMAIN acc.ops : \E j \in 1..i - 1 :
             /\ acc.ops[m] = CreateOp(x.candidates[j])
             /\ CreateOutcome(report, x, x.candidates[j]) = "create"
        /\ \A m, l \in DOMAIN acc.ops :
             Normalized(acc.ops[m].name) = Normalized(acc.ops[l].name) => m = l
    BY <1>2 DEF CreateKept
  <2>3. \A j \in 1..i - 1 : j \in 1..i /\ j \in 1..n /\ j # i
    BY <1>1
  <2>4. CASE outcome # "create"
    <3>1. Planned(less) /\ less.ops = acc.ops
      BY <2>2, Outcome
    <3> HIDE DEF less
    <3>2. CreateKept(c, i, less)
      BY <2>2, <2>3, <3>1 DEF CreateKept
    <3> QED BY <2>1, <2>4, <3>2
  <2>5. CASE outcome = "create"
    <3> DEFINE o == CreateOp(k)
               ops == Append(acc.ops, o)
               e == Len(acc.ops) + 1
    <3>1. Planned(more) /\ more.ops = ops
      BY <2>2, Outcome
    <3>2. /\ DOMAIN acc.ops = 1..Len(acc.ops) /\ Len(acc.ops) \in Nat
          /\ DOMAIN ops = 1..e /\ ops[e] = o /\ \A m \in DOMAIN acc.ops : ops[m] = acc.ops[m]
      BY <2>2, Longer DEF Planned
    <3>3. \A m \in DOMAIN ops : m = e \/ m \in DOMAIN acc.ops
      BY <3>2
    <3>4. o.name = k.name /\ i \in 1..i /\ \A j : CreateOp(x.candidates[j]).name = x.candidates[j].name
      BY <1>1 DEF CreateOp
    <3>5. ~(Cardinality(NameGroup(x, k)) > 1)
      BY <2>5, CreateIs
    <3>6. ASSUME NEW m \in DOMAIN acc.ops
          PROVE  Normalized(acc.ops[m].name) # Normalized(o.name)
      <4> SUFFICES ASSUME Normalized(acc.ops[m].name) = Normalized(o.name)
                   PROVE  FALSE
        OBVIOUS
      <4>1. PICK j \in 1..i - 1 : acc.ops[m] = CreateOp(x.candidates[j])
        BY <2>2
      <4>2. i \in NameGroup(x, k) /\ j \in NameGroup(x, k) /\ NameGroup(x, k) \subseteq 1..n
        BY <1>1, <2>3, <3>4, <4>1 DEF NameGroup
      <4> QED BY <1>1, <2>3, <3>5, <4>2, Several
    <3> HIDE DEF more, o, ops, e
    <3>7. ASSUME NEW m \in DOMAIN ops
          PROVE  \E j \in 1..i : /\ ops[m] = CreateOp(x.candidates[j])
                                 /\ CreateOutcome(report, x, x.candidates[j]) = "create"
      BY <2>2, <2>3, <2>5, <3>2, <3>3, <3>4 DEF o
    <3>8. ASSUME NEW m \in DOMAIN ops, NEW l \in DOMAIN ops,
                 Normalized(ops[m].name) = Normalized(ops[l].name)
          PROVE  m = l
      BY <2>2, <3>2, <3>3, <3>6, <3>8
    <3>9. CreateKept(c, i, more)
      BY <3>1, <3>7, <3>8 DEF CreateKept
    <3> QED BY <2>1, <2>5, <3>9
  <2> QED BY <2>4, <2>5
<1>3. CreateKept(c, 0, Nothing)
  <2>1. <<>> \in Seq({})
    OBVIOUS
  <2> QED BY <2>1 DEF CreateKept, Planned, Nothing, IsSeq
<1> HIDE DEF c, n
<1>4. CreateKept(c, n, CreateFold!Fold(c, Nothing, x.candidates))
  BY <1>1, <1>2, <1>3, CreateFold!Keeps
<1> QED BY <1>4, CreateFolds DEF c, n

LEMMA AppendsAre ==
  ASSUME NEW report, NEW x, IsSeq(x.claims)
  PROVE  /\ IsSeq(Appends(report, x).ops)
         /\ \A m \in DOMAIN Appends(report, x).ops : Appends(report, x).ops[m].op = "append"
<1> DEFINE c == [report |-> report, x |-> x]
<1>1. PICK n \in Nat : DOMAIN x.claims = 1..n
  BY Long
<1>2. ASSUME NEW i \in 1..n, NEW acc, AppendKept(c, i - 1, acc)
      PROVE  AppendKept(c, i, AppendStep(c, acc, x.claims[i]))
  <2> DEFINE k == x.claims[i]
             outcome == AppendOutcome(report, x, acc.ops, k)
             o == AppendOp(report, acc.ops, k)
             more == [acc EXCEPT !.ops = Append(@, o)]
             less == [acc EXCEPT !.unresolved = @ \union {<<"item", outcome, k.id>>}]
  <2>1. AppendStep(c, acc, k) \in {more, less}
    BY DEF AppendStep
  <2>2. Planned(acc) /\ \A m \in DOMAIN acc.ops : acc.ops[m].op = "append"
    BY <1>2 DEF AppendKept
  <2>3. o.op = "append"
    BY DEF AppendOp
  <2> HIDE DEF o, outcome
  <2>4. Planned(less) /\ less.ops = acc.ops /\ Planned(more) /\ more.ops = Append(acc.ops, o)
    BY <2>2, Outcome
  <2> HIDE DEF more, less, k
  <2>5. AppendKept(c, i, less)
    BY <2>2, <2>4 DEF AppendKept
  <2>6. AppendKept(c, i, more)
    BY <2>2, <2>3, <2>4, Longer DEF AppendKept, Planned
  <2>7. AppendKept(c, i, AppendStep(c, acc, k))
    BY <2>1, <2>5, <2>6
  <2> QED BY <2>7 DEF k
<1>3. AppendKept(c, 0, Nothing)
  <2>1. <<>> \in Seq({})
    OBVIOUS
  <2> QED BY <2>1 DEF AppendKept, Planned, Nothing, IsSeq
<1> HIDE DEF c
<1>4. AppendKept(c, n, AppendFold!Fold(c, Nothing, x.claims))
  BY <1>1, <1>2, <1>3, AppendFold!Keeps
<1>5. AppendKept(c, n, Appends(report, x))
  BY <1>4, AppendFolds DEF c
<1> QED BY <1>5 DEF AppendKept, Planned

LEMMA JoinedIs ==
  ASSUME NEW S, NEW seqs, NEW n \in Nat, DOMAIN seqs = 1..n, \A i \in 1..n : seqs[i] \in Seq(S)
  PROVE  Joined(seqs) \in Seq(S)
<1>1. ASSUME NEW i \in 1..n, NEW all, JoinKept(S, i - 1, all)
      PROVE  JoinKept(S, i, JoinStep(S, all, seqs[i]))
  BY <1>1, ConcatProperties DEF JoinKept, JoinStep
<1>2. JoinKept(S, 0, <<>>)
  <2>1. <<>> \in Seq(S)
    OBVIOUS
  <2> QED BY <2>1 DEF JoinKept
<1>3. JoinKept(S, n, JoinFold!Fold(S, <<>>, seqs))
  BY <1>1, <1>2, JoinFold!Keeps
<1> QED BY <1>3, JoinFolds DEF JoinKept

(* The merged answer: lists, of candidates of known types.                 *)
LEMMA MergeIs ==
  ASSUME NEW n \in Nat, NEW answers \in [1..n -> Answers]
  PROVE  /\ IsSeq(Merge(answers).candidates) /\ IsSeq(Merge(answers).claims)
         /\ \A i \in DOMAIN Merge(answers).candidates :
              Merge(answers).candidates[i].type \in KnownTypes
<1> DEFINE ks(b) == answers[b].candidates
           Own(b, k) == [k EXCEPT !.id = <<b, @>>]
           seqs == [b \in 1..n |-> [i \in DOMAIN ks(b) |-> Own(b, ks(b)[i])]]
           Mine(b, r) == [r EXCEPT !.id = <<b, @>>]
           Claim(b, c) ==
             [Mine(b, c) EXCEPT !.group = IF @ = NoGroup THEN @ ELSE <<b, @>>,
                                !.mentions = [m \in DOMAIN @ |-> Mine(b, c.mentions[m])]]
           cs == [b \in 1..n |-> [i \in DOMAIN answers[b].claims |-> Claim(b, answers[b].claims[i])]]
           S == UNION {{Own(b, ks(b)[i]) : i \in DOMAIN ks(b)} : b \in 1..n}
           T == UNION {{Claim(b, answers[b].claims[i]) : i \in DOMAIN answers[b].claims} : b \in 1..n}
<1>1. DOMAIN answers = 1..n /\ \A b \in 1..n : answers[b] \in Answers
  OBVIOUS
<1>2. Merge(answers).candidates = Joined(seqs) /\ Merge(answers).claims = Joined(cs)
  BY <1>1 DEF Merge, Scoped
<1>3. \A b \in 1..n : IsAnswer(answers[b])
  BY <1>1, BootstrapAssumption
<1>4. ASSUME NEW b \in 1..n
      PROVE  seqs[b] \in Seq(S) /\ cs[b] \in Seq(T)
  <2>1. IsSeq(ks(b)) /\ IsSeq(answers[b].claims)
    BY <1>3 DEF IsAnswer, IsList, IsSeq
  <2>2. PICK m \in Nat : DOMAIN ks(b) = 1..m
    BY <2>1, Long
  <2>3. PICK l \in Nat : DOMAIN answers[b].claims = 1..l
    BY <2>1, Long
  <2> HIDE DEF Claim, Mine
  <2>4. \A i \in 1..m : Own(b, ks(b)[i]) \in S
    BY <2>2
  <2>5. seqs[b] = [i \in 1..m |-> Own(b, ks(b)[i])]
    BY <2>2
  <2>7. cs[b] = [i \in 1..l |-> Claim(b, answers[b].claims[i])]
    BY <2>3
  <2>8. \A i \in 1..l : Claim(b, answers[b].claims[i]) \in T
    BY <2>3
  <2> HIDE DEF S, T, seqs, cs, Own, ks
  <2>9. seqs[b] \in Seq(S)
    BY <2>4, <2>5
  <2>10. cs[b] \in Seq(T)
    BY <2>7, <2>8
  <2> QED BY <2>9, <2>10
<1>5. \A k \in S : k.type \in KnownTypes
  <2> SUFFICES ASSUME NEW b \in 1..n, NEW i \in DOMAIN ks(b)
               PROVE  Own(b, ks(b)[i]).type \in KnownTypes
    OBVIOUS
  <2>1. ks(b)[i] \in ToSet(answers[b].candidates)
    BY DEF ToSet
  <2>2. /\ DOMAIN ks(b)[i] = {"id", "type", "name", "refs"}
        /\ \E folder \in DOMAIN EntityFolders : EntityFolders[folder] = ks(b)[i].type
    BY <1>3, <2>1 DEF IsAnswer
  <2> QED BY <2>2 DEF KnownTypes
<1> DEFINE js == Joined(seqs)
<1>6. DOMAIN seqs = 1..n /\ DOMAIN cs = 1..n
  OBVIOUS
<1> HIDE DEF S, T, seqs, cs
<1>7. js \in Seq(S) /\ Joined(cs) \in Seq(T)
  BY <1>4, <1>6, JoinedIs
<1> HIDE DEF js
<1>8. \A i \in DOMAIN js : js[i] \in S
  BY <1>7
<1> QED BY <1>2, <1>5, <1>7, <1>8 DEF IsSeq, js

(* A name the fingerprint knows is one some readable entity goes by.       *)
LEMMA KnownMatches ==
  ASSUME NEW report, NEW name, Normalized(name) \in KnownNames(Fingerprint(report))
  PROVE  AnyTypeMatches(report, name) # {}
<1> DEFINE key == Fingerprint(report)
<1>1. PICK path \in EntityEntries(key) :
        Normalized(name) = Normalized(key[path].content[1].name)
  BY DEF KnownNames
<1>2. /\ DOMAIN key = DOMAIN report.entries
      /\ \A q \in DOMAIN report.entries :
           /\ key[q].class = report.entries[q].class
           /\ key[q].content = IF q \in WasRead(report) THEN <<report.entries[q].note>> ELSE <<>>
  BY DEF Fingerprint
<1> HIDE DEF key
<1>3. /\ path \in DOMAIN key /\ key[path].class = "entity" /\ key[path].content # <<>>
      /\ IsEntity(key[path].content[1])
  BY <1>1 DEF EntityEntries
<1>4. path \in WasRead(report) /\ key[path].content[1] = report.entries[path].note
  <2>1. path \in DOMAIN report.entries /\ path \in WasRead(report)
    BY <1>2, <1>3
  <2>2. key[path].content = <<report.entries[path].note>>
    BY <1>2, <2>1
  <2> QED BY <2>1, <2>2
<1>5. path \in Parsed(report) /\ NoteAt(report, path) = report.entries[path].note
  BY <1>2, <1>3, <1>4 DEF Parsed, Candidates, NoteAt
<1>6. Normalized(name) \in NamesOf(NoteAt(report, path))
  BY <1>1, <1>4, <1>5 DEF NamesOf
<1> QED BY <1>5, <1>6 DEF AnyTypeMatches

(* A proposal suits the sources it is named by.                            *)
LEMMA MappingIsSound ==
  ASSUME NEW report, NEW answers \in [DOMAIN Prepare(report).batches -> Answers],
         Mapping(report, answers).status = "proposal"
  PROVE  Sound(Fingerprint(report), Mapping(report, answers).ops)
<1> DEFINE x == Merge(answers)
           c == Creates(report, x)
           a == Appends(report, x)
           made == c.ops
           added == a.ops
           ops == made \o added
           key == Fingerprint(report)
<1>1. Mapping(report, answers).ops = ops
  BY DEF Mapping
<1>2. PICK n \in Nat : DOMAIN Prepare(report).batches = 1..n
  BY BatchesAreAList, Long
<1>3. /\ IsSeq(x.candidates) /\ IsSeq(x.claims)
      /\ \A i \in DOMAIN x.candidates : x.candidates[i].type \in KnownTypes
  BY <1>2, MergeIs
<1> HIDE DEF x
<1>4. CreateKept([report |-> report, x |-> x], Len(x.candidates), c)
  BY <1>3, CreatesAre
<1>5. /\ IsSeq(made)
      /\ \A m \in DOMAIN made : \E j \in 1..Len(x.candidates) :
           /\ made[m] = CreateOp(x.candidates[j])
           /\ CreateOutcome(report, x, x.candidates[j]) = "create"
      /\ \A m, l \in DOMAIN made : NameOf(made[m]) = NameOf(made[l]) => m = l
  BY <1>4 DEF CreateKept, Planned, NameOf
<1>6. IsSeq(added) /\ \A m \in DOMAIN added : added[m].op = "append"
  BY <1>3, AppendsAre
<1>7. ASSUME NEW m \in DOMAIN made
      PROVE  /\ made[m].op = "create" /\ made[m].type \in KnownTypes
             /\ NameOf(made[m]) \notin KnownNames(key)
  <2>1. PICK j \in 1..Len(x.candidates) :
          /\ made[m] = CreateOp(x.candidates[j])
          /\ CreateOutcome(report, x, x.candidates[j]) = "create"
    BY <1>5
  <2>2. j \in DOMAIN x.candidates
    BY <1>3, Long
  <2>3. AnyTypeMatches(report, x.candidates[j].name) = {}
    BY <2>1, CreateIs
  <2>4. Normalized(x.candidates[j].name) \notin KnownNames(key)
    BY <2>3, KnownMatches
  <2> QED BY <1>3, <2>1, <2>2, <2>4 DEF CreateOp, NameOf
<1> HIDE DEF made, added, key
<1>8. /\ IsSeq(ops) /\ DOMAIN ops = 1..(Len(made) + Len(added))
      /\ Len(made) \in Nat /\ Len(added) \in Nat
      /\ DOMAIN made = 1..Len(made) /\ DOMAIN added = 1..Len(added)
      /\ \A i \in DOMAIN made : ops[i] = made[i]
      /\ \A i \in DOMAIN added : ops[Len(made) + i] = added[i]
  BY <1>5, <1>6, Together
<1> HIDE DEF ops
<1>9. \A i \in DOMAIN ops : \/ i \in DOMAIN made /\ ops[i] = made[i]
                            \/ ops[i].op = "append"
  <2> TAKE i \in DOMAIN ops
  <2>1. CASE i <= Len(made)
    BY <1>8, <2>1
  <2>2. CASE ~(i <= Len(made))
    <3>1. i - Len(made) \in DOMAIN added /\ Len(made) + (i - Len(made)) = i
      BY <1>8, <2>2
    <3>2. ops[Len(made) + (i - Len(made))] = added[i - Len(made)]
      BY <1>8, <3>1
    <3> QED BY <1>6, <3>1, <3>2
  <2> QED BY <2>1, <2>2
<1>10. \A i \in Made(ops) : i \in DOMAIN made /\ ops[i] = made[i]
  BY <1>9 DEF Made
<1>11. \A i \in DOMAIN ops : ops[i].op \in {"create", "append"}
  BY <1>7, <1>9
<1>12. Sound(key, ops)
  BY <1>5, <1>7, <1>8, <1>10, <1>11 DEF Sound
<1> QED BY <1>1, <1>12 DEF key

(* What an operation leaves of the vault.  An append changes no name and   *)
(* no place; a create adds one entity, of the operation's name.            *)
LEMMA SameName ==
  ASSUME NEW v, NEW w, DOMAIN w = DOMAIN v,
         \A q \in DOMAIN v :
           /\ w[q].ext = v[q].ext /\ w[q].form = v[q].form
           /\ IsEntity(w[q].note) <=> IsEntity(v[q].note)
           /\ IsEntity(v[q].note) => w[q].note.name = v[q].note.name,
         NEW n
  PROVE  Named(w, n) = Named(v, n)
BY DEF Named, Stored

LEMMA AppendKeepsNames ==
  ASSUME FilesOK(vault), NEW o, o.op # "create", Possible(o)
  PROVE  FilesOK(Effect(o)) /\ \A n : Named(Effect(o), n) = Named(vault, n)
<1> DEFINE path == CHOOSE q \in Stored(vault) : vault[q].note.id = o.id
           note == [vault[path].note EXCEPT !.facts = Append(@, o.fact), !.rev = @ + 1]
           w == Effect(o)
<1>1. path \in Stored(vault) /\ vault[path].note.id = o.id
  <2>1. o.id \in {vault[q].note.id : q \in Stored(vault)}
    BY DEF Possible, Listed
  <2> QED BY <2>1
<1>2. ~Malformed(vault)
  BY DEF Possible, ListOutcome
<1>3. path \in DOMAIN vault /\ IsEntity(vault[path].note)
  BY <1>1, <1>2 DEF Malformed, Stored
<1>4. IsFile(path, vault[path])
  BY <1>3 DEF FilesOK
<1>5. w = [vault EXCEPT ![path].note.facts = Append(@, o.fact), ![path].note.rev = @ + 1]
  BY DEF Effect
<1> HIDE DEF path
<1>6. w = [vault EXCEPT ![path] = [vault[path] EXCEPT !.note = note]]
  BY <1>3, <1>4, <1>5 DEF IsFile
<1>7. DOMAIN note = DOMAIN vault[path].note /\ note.name = vault[path].note.name
  BY <1>3, <1>4 DEF IsFile
<1> HIDE DEF note
<1>8. /\ DOMAIN w = DOMAIN vault /\ \A q \in DOMAIN vault : q # path => w[q] = vault[q]
      /\ w[path] = [vault[path] EXCEPT !.note = note]
  BY <1>3, <1>6
<1>9. /\ DOMAIN w[path] = DOMAIN vault[path] /\ w[path].note = note
      /\ w[path].ext = vault[path].ext /\ w[path].form = vault[path].form
  BY <1>4, <1>8 DEF IsFile
<1> HIDE DEF w
<1>10. IsFile(path, w[path])
  BY <1>4, <1>7, <1>9 DEF IsFile, IsEntity
<1>11. FilesOK(w)
  BY <1>8, <1>10 DEF FilesOK
<1>12. \A q \in DOMAIN vault :
         /\ w[q].ext = vault[q].ext /\ w[q].form = vault[q].form
         /\ IsEntity(w[q].note) <=> IsEntity(vault[q].note)
         /\ IsEntity(vault[q].note) => w[q].note.name = vault[q].note.name
  BY <1>7, <1>8, <1>9 DEF IsEntity
<1>13. \A n : Named(w, n) = Named(vault, n)
  BY <1>8, <1>12, SameName
<1> QED BY <1>11, <1>13 DEF w

LEMMA NewPathIs ==
  ASSUME NEW o, o.type \in KnownTypes
  PROVE  IsList(NewPath(o)) /\ UnderEntityFolder(NewPath(o)) /\ IsFile(NewPath(o), NewFile(o))
<1> DEFINE folder == FolderOf(o.type)
           path == NewPath(o)
<1>1. folder \in DOMAIN EntityFolders
  BY DEF FolderOf, KnownTypes
<1>2. PICK S : folder \in Seq(S)
  BY <1>1, ContentAssumption DEF IsList
<1> HIDE DEF folder
<1>3. path = Append(folder, o.id[2])
  BY DEF NewPath, folder
<1>4. folder \in Seq(S \union {o.id[2]})
  BY <1>2, SeqMonotonic
<1>5. /\ path \in Seq(S \union {o.id[2]}) /\ Len(path) = Len(folder) + 1
      /\ \A i \in 1..Len(folder) : path[i] = folder[i]
  BY <1>3, <1>4, AppendProperties
<1> HIDE DEF path
<1>6. IsList(path)
  <2>1. Len(path) \in Nat /\ DOMAIN path = 1..Len(path)
    BY <1>5
  <2>2. path = [i \in 1..Len(path) |-> path[i]]
    BY <1>5
  <2>3. \A i \in 1..Len(path) : path[i] \in ToSet(path)
    BY <2>1 DEF ToSet
  <2> QED BY <2>1, <2>2, <2>3 DEF IsList
<1>7. Len(folder) \in Nat /\ Len(folder) <= Len(path)
  BY <1>2, <1>5
<1>8. SubSeq(folder, 1, Len(folder)) = SubSeq(path, 1, Len(folder))
  <2>1. SubSeq(folder, 1, Len(folder)) = [i \in 1..Len(folder) |-> folder[i]]
    BY <1>2, <1>7
  <2>2. SubSeq(path, 1, Len(folder)) = [i \in 1..Len(folder) |-> path[i]]
    BY <1>5, <1>7
  <2> QED BY <1>5, <2>1, <2>2
<1>9. folder # path
  BY <1>2, <1>5
<1>10. UnderEntityFolder(path)
  BY <1>1, <1>7, <1>8, <1>9 DEF UnderEntityFolder, IsStrictPrefix, IsPrefix
<1>11. IsFile(path, NewFile(o))
  BY <1>6 DEF IsFile, NewFile, IsEntity
<1> QED BY <1>6, <1>10, <1>11 DEF path

LEMMA CreateAddsName ==
  ASSUME FilesOK(vault), NEW o, o.op = "create", o.type \in KnownTypes, Possible(o)
  PROVE  /\ FilesOK(Effect(o))
         /\ Named(Effect(o), NameOf(o)) = Named(vault, NameOf(o)) \union {NewPath(o)}
         /\ \A n : n # NameOf(o) => Named(Effect(o), n) = Named(vault, n)
<1> DEFINE path == NewPath(o)
           file == NewFile(o)
           w == Effect(o)
<1>1. path \notin DOMAIN vault
  BY DEF Possible
<1>2. w = Over([q \in {path} |-> file], vault)
  BY DEF Effect
<1>3. UnderEntityFolder(path) /\ IsFile(path, file)
  BY NewPathIs
<1>4. file.ext = "md" /\ file.form = "regular" /\ IsEntity(file.note) /\ file.note.name = o.name
  BY DEF NewFile, IsEntity
<1> HIDE DEF path, file
<1>5. /\ DOMAIN w = DOMAIN vault \union {path} /\ w[path] = file
      /\ \A q \in DOMAIN vault : w[q] = vault[q]
  BY <1>1, <1>2 DEF Over
<1> HIDE DEF w
<1>6. FilesOK(w)
  BY <1>3, <1>5 DEF FilesOK
<1>7. Stored(w) = Stored(vault) \union {path} /\ path \notin Stored(vault)
  BY <1>1, <1>3, <1>4, <1>5 DEF Stored
<1>8. \A q \in Stored(vault) : w[q] = vault[q]
  BY <1>5 DEF Stored
<1>9. Named(w, NameOf(o)) = Named(vault, NameOf(o)) \union {path}
  BY <1>4, <1>5, <1>7, <1>8 DEF Named, NameOf
<1>10. \A n : n # NameOf(o) => Named(w, n) = Named(vault, n)
  BY <1>4, <1>5, <1>7, <1>8 DEF Named, NameOf
<1> QED BY <1>6, <1>9, <1>10 DEF w, path

(* An edit outside the entity folders.                                     *)
LEMMA EditElsewhere ==
  ASSUME FilesOK(vault), NEW e \in Edits, EditNote(e)
  PROVE  /\ FilesOK(vault') /\ edited' = edited \union {e[1]}
         /\ ~UnderEntityFolder(e[1]) => \A n : Named(vault', n) = Named(vault, n)
<1>1. /\ edited' = edited \union {e[1]}
      /\ \/ e[2] = NoValue /\ vault' = [path \in DOMAIN vault \ {e[1]} |-> vault[path]]
         \/ e[2] # NoValue /\ vault' = Over([path \in {e[1]} |-> e[2]], vault)
  BY DEF EditNote
<1>2. /\ DOMAIN vault \ {e[1]} \subseteq DOMAIN vault'
      /\ DOMAIN vault' \subseteq DOMAIN vault \union {e[1]}
      /\ \A q \in DOMAIN vault \ {e[1]} : vault'[q] = vault[q]
      /\ e[1] \in DOMAIN vault' => e[2] # NoValue /\ vault'[e[1]] = e[2]
  BY <1>1 DEF Over
<1>3. e[2] # NoValue => IsFile(e[1], e[2])
  BY CampaignAssumption
<1>4. FilesOK(vault')
  BY <1>2, <1>3 DEF FilesOK
<1>5. ASSUME ~UnderEntityFolder(e[1])
      PROVE  Stored(vault') = Stored(vault) /\ \A q \in Stored(vault) : vault'[q] = vault[q]
  BY <1>2, <1>5 DEF Stored
<1>6. ~UnderEntityFolder(e[1]) => \A n : Named(vault', n) = Named(vault, n)
  BY <1>5 DEF Named
<1> QED BY <1>1, <1>4, <1>6

-----------------------------------------------------------------------------
(* What a run knows where it stands (r, remembering f), given the files.   *)
Applying == {"gate", "preflight", "perform"}

CallOK(r, f) ==
  /\ r.pc = "idle" => f = NoFlow
  /\ \/ r.pc \in {"discover", "ask"}
     \/ r.pc \in Storage /\ f.kind # "approval"
     => r.call \in {"map", "finalize"}
  /\ r.pc \in {"ready", "recheck"} => r.call = "finalize"
  /\ r.pc \in Applying => r.call = "apply"
  /\ r.pc \in {"load", "gate", "preflight"} => f.next = 1
  /\ f.stage # NoValue => r.call = "finalize"

PlanOK(r, f, fs) ==
  /\ r.pc \in Storage /\ f.kind # "approval" => Sound(f.key, f.mapped.ops)
  /\ r.pc \in Applying => Written(fs, "proposal", f.key)
  /\ r.pc = "perform" => f.next \in DOMAIN fs[<<"proposal", f.key>>]

\* Every proposal suits its sources, every evidence is of those it is named by.
StoredOK(fs) ==
  /\ \A key : Written(fs, "proposal", key) => Sound(key, fs[<<"proposal", key>>])
  /\ \A key : Written(fs, "evidence", key) => fs[<<"evidence", key>>].input = key

DoneOK(ds, fs) ==
  \A d \in ds : Written(fs, "proposal", d[1]) /\ d[2] \in DOMAIN fs[<<"proposal", d[1]>>]

WorkOK ==
  /\ StoredOK(files) /\ DoneOK(done, files)
  /\ \A p \in Procs : CallOK(run[p], flow[p]) /\ PlanOK(run[p], flow[p], files)

\* Where none of this is claimed.
Claimed == {"idle", "discover", "ask", "ready", "recheck", "load"} \union Storage \union Applying

\* A step of p to where nothing is being applied.
Tame(p) ==
  /\ run'[p].pc \notin Applying /\ CallOK(run'[p], flow'[p])
  /\ \A fs : PlanOK(run'[p], flow'[p], fs)

LEMMA Unclaimed ==
  ASSUME NEW r, NEW f, r.pc \notin Claimed, f.stage # NoValue => r.call = "finalize"
  PROVE  CallOK(r, f) /\ (\A fs : PlanOK(r, f, fs)) /\ r.pc \notin Applying
BY DEF CallOK, PlanOK, Claimed, Applying

LEMMA PlanStays ==
  ASSUME NEW fs, NEW gs, Stays(fs, gs), NEW r, NEW f, PlanOK(r, f, fs)
  PROVE  PlanOK(r, f, gs)
<1>1. r.pc \in Applying =>
        Written(gs, "proposal", f.key) /\ gs[<<"proposal", f.key>>] = fs[<<"proposal", f.key>>]
  BY DEF PlanOK, Stays, Written
<1>2. r.pc = "perform" => r.pc \in Applying
  BY DEF Applying
<1> QED BY <1>1, <1>2 DEF PlanOK

LEMMA DoneStays ==
  ASSUME NEW fs, NEW gs, Stays(fs, gs), NEW ds, DoneOK(ds, fs)
  PROVE  DoneOK(ds, gs)
BY DEF DoneOK, Stays, Written

LEMMA WorkTame ==
  ASSUME WorkOK, NEW p \in Procs, Others(p), Tame(p), UNCHANGED done,
         Stays(files, files'), StoredOK(files')
  PROVE  WorkOK'
<1>1. DoneOK(done', files')
  BY DoneStays DEF WorkOK
<1>2. \A q \in Procs : q # p => CallOK(run'[q], flow'[q]) /\ PlanOK(run'[q], flow'[q], files')
  BY PlanStays DEF WorkOK, Others
<1>3. CallOK(run'[p], flow'[p]) /\ PlanOK(run'[p], flow'[p], files')
  BY DEF Tame
<1> QED BY <1>1, <1>2, <1>3 DEF WorkOK

(* Where a run goes.                                                       *)
LEMMA Change1 ==
  ASSUME Shape, NEW p \in Procs, NEW r, Change(p, r)
  PROVE  /\ \A f \in DOMAIN r : run'[p][f] = r[f]
         /\ \A f \in DOMAIN Idle \ DOMAIN r : run'[p][f] = run[p][f]
BY DEF Shape, Change, Over

LEMMA Goes ==
  ASSUME Shape, NEW p \in Procs
  PROVE  /\ \A pc : Goto(p, pc) => run'[p].pc = pc /\ run'[p].call = run[p].call
         /\ \A o : Finish(p, o) => run'[p].pc = "returned" /\ run'[p].call = run[p].call
         /\ \A o : Return(p, o) => run'[p].pc = "returned" /\ run'[p].call = run[p].call
         /\ \A start \in {RebuildStart, InspectStart, IndexStart, VerifyStart} :
              Change(p, start) =>
                run'[p].pc \in {"world", "manifest", "index_list"} /\ run'[p].call = run[p].call
<1>1. ASSUME NEW pc, Goto(p, pc)
      PROVE  run'[p].pc = pc /\ run'[p].call = run[p].call
  BY <1>1 DEF Shape, Goto, Change, Over, Idle
<1>2. ASSUME NEW o, Finish(p, o)
      PROVE  run'[p].pc = "returned" /\ run'[p].call = run[p].call
  BY <1>2 DEF Shape, Finish, Change, Over, Idle
<1>3. ASSUME NEW o, Return(p, o)
      PROVE  run'[p].pc = "returned" /\ run'[p].call = run[p].call
  BY <1>3, ReturnIs DEF Moves
<1>4. ASSUME NEW start \in {RebuildStart, InspectStart, IndexStart, VerifyStart}, Change(p, start)
      PROVE  run'[p].pc \in {"world", "manifest", "index_list"} /\ run'[p].call = run[p].call
  <2>1. DOMAIN start = {"pc", "phase"} /\ start.pc \in {"world", "manifest", "index_list"}
    BY DEF RebuildStart, InspectStart, IndexStart, VerifyStart
  <2> QED BY <1>4, <2>1, Change1 DEF Idle
<1> QED BY <1>1, <1>2, <1>3, <1>4

(* The steps of a rebuild, an inspection, an indexing.                     *)
LEMMA DerivationTame ==
  ASSUME Inv, WorkOK, NEW p \in Procs, Derivation(p) \/ Indexing(p), UNCHANGED <<own, flow, todo>>
  PROVE  Tame(p)
<1>1. Shape /\ RunReal(run[p], past[p], clock, sessions) /\ CallOK(run[p], flow[p])
  BY DEF Inv, WorkOK
<1>2. run'[p].pc \notin Claimed /\ run'[p].call = run[p].call
  <2> DEFINE To(pcs) == run'[p].pc \in pcs /\ run'[p].call = run[p].call
  <2>1. \A o : Return(p, o) => To({"returned"})
    BY <1>1, Goes
  <2>2. \A o : Failed(p, o) => To({"returned"})
    BY <2>1 DEF Failed
  <2>3. \A pc : Goto(p, pc) => To({pc})
    BY <1>1, Goes
  <2>4. ReadWorld(p) => To({"returned", "sessions"})
    <3>1. Change(p, [pc |-> "sessions", world |-> clock]) => To({"sessions"})
      BY <1>1, Change1 DEF Idle
    <3> HIDE DEF To
    <3> QED BY <2>2, <3>1 DEF ReadWorld, To
  <2>5. ReadSessions(p) => To({"returned", "entities"})
    <3>1. Change(p, [pc |-> "entities", sessions |-> sessions]) => To({"entities"})
      BY <1>1, Change1 DEF Idle
    <3> QED BY <2>2, <3>1 DEF ReadSessions
  <2>6. ReadEntities(p) => To({"returned", "world", "manifest"})
    <3>1. \A i : Change(p, [pc |-> "world", phase |-> "fresh", first |-> i]) => To({"world"})
      BY <1>1, Change1 DEF Idle
    <3>2. \A i : Change(p, [pc |-> "manifest", identity |-> i]) => To({"manifest"})
      BY <1>1, Change1 DEF Idle
    <3>3. ASSUME NEW i, Derived(p, i), run[p].phase \in {"initial", "fresh", "inspect"}
          PROVE  To({"returned", "world", "manifest"})
      BY <2>1, <3>1, <3>2, <3>3 DEF Derived
    <3>4. ASSUME ReadEntities(p)
          PROVE  To({"returned", "world", "manifest"})
      <4>1. run[p].phase \in {"initial", "fresh", "inspect"}
        BY <1>1, <3>4 DEF ReadEntities, At, RunReal, Reading
      <4>2. (\E o : Failed(p, o)) \/ (\E i : Derived(p, i))
        BY <3>4 DEF ReadEntities
      <4> QED BY <2>2, <3>3, <4>1, <4>2
    <3> QED BY <3>4
  <2>7. ReadManifest(p) => To({"texts"})
    <3>1. Change(p, [pc |-> "texts", manifest |-> state["manifest"]]) => To({"texts"})
      BY <1>1, Change1 DEF Idle
    <3> QED BY <3>1 DEF ReadManifest
  <2>8. ReadTexts(p) => To({"returned", "world", "world_state"})
    <3>1. Change(p, [pc |-> "world", texts |-> Texts]) => To({"world"})
      BY <1>1, Change1 DEF Idle
    <3>2. ReadTexts(p) => \/ Change(p, [pc |-> "world", texts |-> Texts])
                          \/ (\E o : Return(p, o)) \/ Goto(p, "world_state")
      BY DEF ReadTexts
    <3> QED BY <2>1, <2>3, <3>1, <3>2
  <2>9. (\E i \in DOMAIN Artifacts : PublishText(p, i)) => To({"recently_touched", "commit"})
    <3>1. ASSUME NEW i \in DOMAIN Artifacts, PublishText(p, i)
          PROVE  Goto(p, "recently_touched") \/ Goto(p, "commit")
      <4>1. Goto(p, IF i < Len(Artifacts) THEN Artifacts[i + 1] ELSE "commit")
        BY <3>1 DEF PublishText
      <4>2. i \in {1, 2} /\ Len(Artifacts) = 2 /\ Artifacts[2] = "recently_touched"
        BY DEF Artifacts
      <4> QED BY <4>1, <4>2
    <3> QED BY <2>3, <3>1
  <2>10. PublishManifest(p) => To({"returned"})
    BY <2>1 DEF PublishManifest
  <2>11. Indexing(p) => To({"returned", "index_replace", "index_verify"})
    <3>1. ASSUME NEW pc, Change(p, [pc |-> pc, listed |-> PlayerNotes(vault)])
          PROVE  To({pc})
      BY <1>1, <3>1, Change1 DEF Idle
    <3>2. ListForIndex(p) => \/ \E o : Return(p, o)
                             \/ Change(p, [pc |-> run[p].phase, listed |-> PlayerNotes(vault)])
      BY DEF ListForIndex
    <3>3. ListForIndex(p) => run[p].phase \in {"index_replace", "index_verify"}
      BY <1>1 DEF ListForIndex, At, RunReal
    <3>4. ReplaceIndex(p) \/ VerifyIndex(p) => \E o : Return(p, o)
      BY DEF ReplaceIndex, VerifyIndex
    <3> QED BY <2>1, <3>1, <3>2, <3>3, <3>4 DEF Indexing
  <2>12. To({"returned", "sessions", "entities", "world", "manifest", "texts", "world_state",
              "recently_touched", "commit", "index_replace", "index_verify"})
    BY <2>4, <2>5, <2>6, <2>7, <2>8, <2>9, <2>10, <2>11 DEF Derivation
  <2> QED BY <2>12 DEF Claimed, Storage, Applying
<1>3. flow'[p] = flow[p] /\ (flow'[p].stage # NoValue => run'[p].call = "finalize")
  BY <1>1, <1>2 DEF CallOK
<1> QED BY <1>2, <1>3, Unclaimed DEF Tame

(* The other commands, one step after another.                             *)
LEMMA NowOK ==
  ASSUME WorkOK, NEW p \in Procs
  PROVE  CallOK(run[p], flow[p]) /\ PlanOK(run[p], flow[p], files)
BY DEF WorkOK

LEMMA BeginTame ==
  ASSUME Shape, WorkOK, NEW p \in Procs, Begin(p)
  PROVE  Tame(p)
<1>1. run[p].pc = "idle" /\ UNCHANGED flow
  BY DEF Begin, At
<1>2. flow'[p] = NoFlow
  BY <1>1, NowOK DEF CallOK
<1>3. NoFlow.stage = NoValue /\ NoFlow.next = 1
  BY DEF NoFlow
<1>4. \/ run'[p].pc = "discover" /\ run'[p].call \in {"map", "finalize"}
      \/ run'[p].pc = "load"
      \/ run'[p].pc \notin Claimed
  BY BeginIs DEF Claimed, Storage, Applying
<1> QED BY <1>2, <1>3, <1>4, Unclaimed DEF Tame, CallOK, PlanOK, Applying, Storage

LEMMA IdleTame ==
  ASSUME Shape, NEW p \in Procs, run' = [run EXCEPT ![p] = Idle],
         flow' = [flow EXCEPT ![p] = NoFlow]
  PROVE  Tame(p)
<1>1. run'[p].pc = "idle" /\ flow'[p] = NoFlow /\ NoFlow.stage = NoValue
  BY DEF Shape, Idle, NoFlow
<1> QED BY <1>1 DEF Tame, CallOK, PlanOK, Applying, Storage

\* What a note leaves.
LEMMA NoteLeaves ==
  ASSUME Shape, NEW p \in Procs, NEW r, Note(p, r), DOMAIN r \subseteq DOMAIN NoFlow
  PROVE  /\ \A f \in DOMAIN r : flow'[p][f] = r[f]
         /\ "stage" \notin DOMAIN r => flow'[p].stage = flow[p].stage
         /\ "next" \notin DOMAIN r => flow'[p].next = flow[p].next
         /\ "key" \notin DOMAIN r => flow'[p].key = flow[p].key
         /\ "mapped" \notin DOMAIN r => flow'[p].mapped = flow[p].mapped
BY NoteIs DEF NoFlow

\* A command ends, or finalize goes on with its next stage.
LEMMA FinishTame ==
  ASSUME Shape, WorkOK, NEW p \in Procs, NEW o, Finish(p, o), flow'[p].stage \in {flow[p].stage, NoValue}
  PROVE  Tame(p)
<1>1. run'[p].pc = "returned" /\ run'[p].call = run[p].call
  BY Goes
<1> QED BY <1>1, NowOK, Unclaimed DEF CallOK, Tame, Claimed, Storage, Applying

LEMMA StartTame ==
  ASSUME Shape, NEW p \in Procs, run[p].call = "finalize",
         NEW start \in {RebuildStart, InspectStart, IndexStart, VerifyStart}, Change(p, start)
  PROVE  Tame(p)
<1>1. run'[p].pc \in {"world", "manifest", "index_list"} /\ run'[p].call = "finalize"
  BY Goes
<1> QED BY <1>1, Unclaimed DEF Tame, Claimed, Storage, Applying

LEMMA DiscoveredTame ==
  ASSUME Shape, WorkOK, NEW p \in Procs, Discovered(p)
  PROVE  Tame(p)
<1> DEFINE note == [report |-> Discover(vault)]
<1>1. run[p].call \in {"map", "finalize"}
  BY NowOK DEF CallOK, Discovered, At
<1>2. Note(p, note) /\ Goto(p, IF run[p].call = "map" THEN "ask" ELSE "ready")
  BY DEF Discovered
<1>3. DOMAIN note = {"report"}
  OBVIOUS
<1> HIDE DEF note
<1>4. flow'[p].stage = flow[p].stage
  BY <1>2, <1>3, NoteLeaves DEF NoFlow
<1>5. run'[p].call = run[p].call /\ run'[p].pc = IF run[p].call = "map" THEN "ask" ELSE "ready"
  BY <1>2, Goes
<1> QED BY <1>1, <1>4, <1>5, NowOK DEF Tame, CallOK, PlanOK, Applying, Storage

LEMMA CheckReadyTame ==
  ASSUME Shape, WorkOK, NEW p \in Procs, CheckReady(p)
  PROVE  Tame(p)
<1>1. run[p].call = "finalize" /\ UNCHANGED flow
  BY NowOK DEF CallOK, CheckReady, At
<1>2. \/ Finish(p, "canonical_not_ready") \/ Finish(p, "world_time_uninitialized")
      \/ Finish(p, "active_session_present") \/ Goto(p, "ask")
  BY DEF CheckReady
<1>3. CASE Goto(p, "ask")
  <2>1. run'[p].pc = "ask" /\ run'[p].call = "finalize"
    BY <1>1, <1>3, Goes
  <2> QED BY <1>1, <2>1 DEF Tame, CallOK, PlanOK, Applying, Storage
<1> QED BY <1>1, <1>2, <1>3, FinishTame

LEMMA AskTame ==
  ASSUME Shape, WorkOK, NEW p \in Procs, Ask(p)
  PROVE  Tame(p)
<1> DEFINE report == flow[p].report
<1>1. run[p].call \in {"map", "finalize"}
  BY NowOK DEF CallOK, Ask, At
<1>2. PICK answers \in [DOMAIN Prepare(report).batches -> Answers] :
        Mapped(p, Mapping(report, answers))
  BY DEF Ask
<1> DEFINE m == Mapping(report, answers)
           kind == IF m.ops = <<>> THEN NoValue ELSE "proposal"
           key == Fingerprint(report)
           note == [mapped |-> m, key |-> key, report |-> NoValue, kind |-> kind]
<1>3. /\ m.status \in {"failed", "no_changes", "proposal"}
      /\ m.status = "proposal" => Sound(key, m.ops)
  BY <1>2, MappingIs, MappingIsSound
<1>4. Mapped(p, m)
  BY <1>2
<1> HIDE DEF m, key
<1>5. /\ Note(p, note)
      /\ \/ Finish(p, "mapping_failed") \/ Finish(p, "no_changes")
         \/ Goto(p, "recheck") /\ run[p].call # "map"
         \/ Goto(p, "probe") /\ m.status = "proposal"
  BY <1>3, <1>4 DEF Mapped, key
<1>6. DOMAIN note = {"mapped", "key", "report", "kind"} /\ note.mapped = m /\ note.key = key
  OBVIOUS
<1> HIDE DEF note
<1>7. flow'[p].stage = flow[p].stage /\ flow'[p].mapped = m /\ flow'[p].key = key
  BY <1>5, <1>6, NoteLeaves DEF NoFlow
<1>8. CASE Goto(p, "recheck") /\ run[p].call # "map"
  <2>1. run'[p].pc = "recheck" /\ run'[p].call = "finalize"
    BY <1>1, <1>8, Goes
  <2> QED BY <2>1 DEF Tame, CallOK, PlanOK, Applying, Storage
<1>9. CASE Goto(p, "probe") /\ m.status = "proposal"
  <2>1. run'[p].pc = "probe" /\ run'[p].call = run[p].call
    BY <1>9, Goes
  <2>2. CallOK(run'[p], flow'[p]) /\ run'[p].pc \notin Applying
    BY <1>1, <1>7, <2>1, NowOK DEF CallOK, Applying
  <2>3. \A fs : PlanOK(run'[p], flow'[p], fs)
    BY <1>3, <1>7, <1>9, <2>1 DEF PlanOK, Applying
  <2> QED BY <2>2, <2>3 DEF Tame
<1> QED BY <1>5, <1>7, <1>8, <1>9, FinishTame

LEMMA AfterStoredTame ==
  ASSUME Shape, WorkOK, NEW p \in Procs, run[p].pc \in Storage, AfterStored(p)
  PROVE  Tame(p)
<1>1. /\ flow[p].kind \in Kinds
      /\ flow[p].kind # "approval" =>
           run[p].call \in {"map", "finalize"} /\ Sound(flow[p].key, flow[p].mapped.ops)
      /\ flow[p].stage # NoValue => run[p].call = "finalize"
  BY NowOK DEF Shape, FlowOK, CallOK, PlanOK
<1>2. CASE flow[p].kind = "proposal"
  <2> DEFINE note == [kind |-> "evidence"]
  <2>1. Note(p, note) /\ Goto(p, "probe")
    BY <1>2 DEF AfterStored
  <2>2. DOMAIN note = {"kind"}
    OBVIOUS
  <2> HIDE DEF note
  <2>3. run'[p].pc = "probe" /\ run'[p].call = run[p].call
    BY <2>1, Goes
  <2>4. /\ flow'[p].key = flow[p].key /\ flow'[p].mapped = flow[p].mapped
        /\ flow'[p].stage = flow[p].stage
    BY <2>1, <2>2, NoteLeaves DEF NoFlow
  <2> QED BY <1>1, <1>2, <2>3, <2>4 DEF Tame, CallOK, PlanOK, Applying
<1>3. CASE flow[p].kind = "evidence"
  <2>1. \/ Finish(p, "proposal")
        \/ Goto(p, "recheck") /\ run[p].call # "map"
    BY <1>3 DEF AfterStored
  <2>2. UNCHANGED flow
    BY <1>3 DEF AfterStored
  <2>3. ASSUME Goto(p, "recheck") /\ run[p].call # "map"
        PROVE  Tame(p)
    <3>1. run'[p].pc = "recheck" /\ run'[p].call = "finalize"
      BY <1>1, <1>3, <2>3, Goes
    <3> QED BY <3>1 DEF Tame, CallOK, PlanOK, Applying, Storage
  <2> QED BY <2>1, <2>2, <2>3, FinishTame
<1>4. CASE flow[p].kind = "approval"
  BY <1>4, FinishTame DEF AfterStored
<1> QED BY <1>1, <1>2, <1>3, <1>4 DEF Kinds

LEMMA AfterFailureTame ==
  ASSUME Shape, WorkOK, NEW p \in Procs, run[p].pc \in Storage, AfterFailure(p)
  PROVE  Tame(p)
<1>1. /\ flow[p].kind \in Kinds
      /\ flow[p].kind # "approval" => run[p].call \in {"map", "finalize"}
  BY NowOK DEF Shape, FlowOK, CallOK
<1>2. \/ /\ UNCHANGED flow
         /\ \/ Finish(p, "persistence_failed") \/ Finish(p, "partial") \/ Finish(p, "not_recorded")
      \/ /\ flow[p].kind # "approval" /\ run[p].call # "map" /\ Goto(p, "recheck")
  BY <1>1 DEF Kinds, AfterFailure
<1>3. CASE flow[p].kind # "approval" /\ run[p].call # "map" /\ Goto(p, "recheck")
  <2>1. run'[p].pc = "recheck" /\ run'[p].call = "finalize"
    BY <1>1, <1>3, Goes
  <2> QED BY <2>1 DEF Tame, CallOK, PlanOK, Applying, Storage
<1> QED BY <1>2, <1>3, FinishTame

LEMMA StoringTame ==
  ASSUME Shape, WorkOK, NEW p \in Procs, Storing(p)
  PROVE  Tame(p)
<1>1. run[p].pc \in Storage
  BY DEF Storing, Probe, Create, Write, At, Storage
<1>2. \/ AfterStored(p) \/ AfterFailure(p)
      \/ (Goto(p, "create") \/ Goto(p, "write")) /\ UNCHANGED flow
  BY DEF Storing, Probe, Create, Write
<1>3. CASE (Goto(p, "create") \/ Goto(p, "write")) /\ UNCHANGED flow
  <2>1. run'[p].pc \in {"create", "write"} /\ run'[p].call = run[p].call
    BY <1>3, Goes
  <2> QED BY <1>1, <1>3, <2>1, NowOK DEF Tame, CallOK, PlanOK, Applying, Storage
<1> QED BY <1>1, <1>2, <1>3, AfterStoredTame, AfterFailureTame

LEMMA LoadReviewTame ==
  ASSUME Shape, WorkOK, NEW p \in Procs, LoadReview(p)
  PROVE  Tame(p)
<1> DEFINE decision == IF run[p].call = "approve" THEN "approved" ELSE "rejected"
<1>1. PICK key : Decide(p, key, decision) \/ (Finish(p, "not_ready") /\ UNCHANGED flow)
  BY DEF LoadReview
<1> HIDE DEF decision
<1>2. CASE Decide(p, key, decision)
  <2> DEFINE note == [key |-> key, kind |-> "approval", decision |-> decision]
  <2>1. Note(p, note) /\ Goto(p, "probe")
    BY <1>2 DEF Decide
  <2>2. DOMAIN note = {"key", "kind", "decision"} /\ note.kind = "approval"
    OBVIOUS
  <2> HIDE DEF note
  <2>3. flow'[p].kind = "approval" /\ flow'[p].stage = flow[p].stage
    BY <2>1, <2>2, NoteLeaves DEF NoFlow
  <2>4. run'[p].pc = "probe" /\ run'[p].call = run[p].call
    BY <2>1, Goes
  <2> QED BY <2>3, <2>4, NowOK DEF Tame, CallOK, PlanOK, Applying
<1> QED BY <1>1, <1>2, FinishTame

LEMMA RecheckTame ==
  ASSUME Shape, WorkOK, NEW p \in Procs, Recheck(p)
  PROVE  Tame(p)
<1>1. run[p].call = "finalize"
  BY NowOK DEF CallOK, Recheck, At
<1>2. PICK ack \in BOOLEAN :
        \/ Finish(p, "source_changed") /\ UNCHANGED flow
        \/ Finish(p, Closure(p, ack)) /\ UNCHANGED flow
        \/ Change(p, RebuildStart)
  BY DEF Recheck
<1> QED BY <1>1, <1>2, FinishTame, StartTame

LEMMA ContinueTame ==
  ASSUME Shape, WorkOK, NEW p \in Procs, Continue(p)
  PROVE  Tame(p)
<1>1. run[p].call = "finalize"
  BY NowOK DEF CallOK, Continue
<1>2. \/ Finish(p, "source_changed") /\ Note(p, [stage |-> NoValue])
      \/ Change(p, IndexStart) \/ Change(p, InspectStart) \/ Change(p, VerifyStart)
      \/ Goto(p, "final")
  BY DEF Continue
<1>3. CASE Finish(p, "source_changed") /\ Note(p, [stage |-> NoValue])
  <2> DEFINE note == [stage |-> NoValue]
  <2>1. DOMAIN note = {"stage"} /\ note.stage = NoValue /\ Note(p, note)
    BY <1>3
  <2> HIDE DEF note
  <2>2. flow'[p].stage = NoValue
    BY <2>1, NoteLeaves DEF NoFlow
  <2> QED BY <1>3, <2>2, FinishTame
<1>4. CASE Goto(p, "final")
  <2>1. run'[p].pc = "final" /\ run'[p].call = "finalize"
    BY <1>1, <1>4, Goes
  <2> QED BY <2>1, Unclaimed DEF Tame, Claimed, Storage, Applying
<1> QED BY <1>1, <1>2, <1>3, <1>4, StartTame

LEMMA FinalTame ==
  ASSUME Shape, WorkOK, NEW p \in Procs, Final(p)
  PROVE  Tame(p)
<1>1. UNCHANGED flow /\ \E o : Finish(p, o)
  BY DEF Final
<1> QED BY <1>1, FinishTame

LEMMA NothingTame ==
  ASSUME Shape, WorkOK, NEW p \in Procs, NothingToLoad(p)
  PROVE  Tame(p)
BY FinishTame DEF NothingToLoad

Applies(p) == LoadApply(p) \/ Gate(p) \/ Preflight(p) \/ Perform(p)

LEMMA CommandTame ==
  ASSUME Inv, WorkOK, NEW p \in Procs, Command(p), ~Applies(p)
  PROVE  Tame(p)
<1>1. Shape
  BY DEF Inv
<1>2. CASE Leave(p)
  BY <1>1, <1>2, IdleTame DEF Leave
<1> QED BY <1>1, <1>2, BeginTame, DiscoveredTame, CheckReadyTame, AskTame, StoringTame,
           LoadReviewTame, NothingTame, RecheckTame, ContinueTame, FinalTame, DerivationTame
        DEF Command, Reviewing, Applies

(* What is stored by a command suits its sources.                          *)
LEMMA StoredNext ==
  ASSUME Inv, FilesInv, WorkOK, NEW p \in Procs, Command(p)
  PROVE  StoredOK(files')
<1>1. Shape /\ StoredOK(files)
  BY DEF Inv, WorkOK
<1>2. CASE UNCHANGED files
  BY <1>1, <1>2
<1>3. CASE Create(p) /\ files' = Over([f \in {File(p)} |-> Torn], files)
  <2>1. \A kind, key : Written(files', kind, key) =>
          Written(files, kind, key) /\ files'[<<kind, key>>] = files[<<kind, key>>]
    BY <1>3 DEF Over, Written
  <2> QED BY <1>1, <2>1 DEF StoredOK
<1>4. CASE Write(p)
  <2>1. /\ run[p].pc \in Storage /\ flow[p].kind \in Kinds
        /\ flow[p].kind # "approval" => Sound(flow[p].key, flow[p].mapped.ops)
    BY <1>1, <1>4, NowOK DEF Write, At, Storage, Shape, FlowOK, PlanOK
  <2>2. /\ DOMAIN files' = DOMAIN files
        /\ \A f \in DOMAIN files : f # Place(flow[p]) => files'[f] = files[f]
        /\ Place(flow[p]) \in DOMAIN files => files'[Place(flow[p])] = Content(p)
    <3>1. files' = [files EXCEPT ![Place(flow[p])] = Content(p)]
      BY <1>4 DEF Write, File, Place
    <3> HIDE DEF Content, Place
    <3> QED BY <3>1
  <2>3. /\ flow[p].kind = "proposal" => Content(p) = flow[p].mapped.ops
        /\ flow[p].kind = "evidence" => Content(p).input = flow[p].key
    BY DEF Content
  <2>4. ASSUME NEW kind, NEW key, <<kind, key>> # Place(flow[p]), Written(files', kind, key)
        PROVE  Written(files, kind, key) /\ files'[<<kind, key>>] = files[<<kind, key>>]
    BY <2>2, <2>4 DEF Written
  <2>5. ASSUME NEW key, Written(files', "proposal", key)
        PROVE  Sound(key, files'[<<"proposal", key>>])
    <3>1. CASE <<"proposal", key>> = Place(flow[p])
      <4>1. flow[p].kind = "proposal" /\ flow[p].key = key
        BY <3>1 DEF Place
      <4>2. files'[<<"proposal", key>>] = flow[p].mapped.ops
        BY <2>2, <2>3, <2>5, <3>1, <4>1 DEF Written
      <4> QED BY <2>1, <4>1, <4>2
    <3>2. CASE <<"proposal", key>> # Place(flow[p])
      BY <1>1, <2>4, <2>5, <3>2 DEF StoredOK
    <3> QED BY <3>1, <3>2
  <2>6. ASSUME NEW key, Written(files', "evidence", key)
        PROVE  files'[<<"evidence", key>>].input = key
    <3>1. CASE <<"evidence", key>> = Place(flow[p])
      <4>1. flow[p].kind = "evidence" /\ flow[p].key = key
        BY <3>1 DEF Place
      <4> QED BY <2>2, <2>3, <2>6, <3>1, <4>1 DEF Written
    <3>2. CASE <<"evidence", key>> # Place(flow[p])
      BY <1>1, <2>4, <2>6, <3>2 DEF StoredOK
    <3> QED BY <3>1, <3>2
  <2> QED BY <2>5, <2>6 DEF StoredOK
<1>5. UNCHANGED files \/ (Create(p) /\ files' = Over([f \in {File(p)} |-> Torn], files)) \/ Write(p)
  BY DEF Command, Storing, Probe, Create, Begin, Leave, Discovered, CheckReady, Ask, Reviewing,
         LoadReview, LoadApply, NothingToLoad, Gate, Preflight, Perform, Recheck, Continue, Final, own
<1> QED BY <1>2, <1>3, <1>4, <1>5

(* The steps of apply.                                                     *)
LEMMA WorkKept ==
  ASSUME WorkOK, NEW p \in Procs, Others(p), UNCHANGED files, DoneOK(done', files),
         CallOK(run'[p], flow'[p]), PlanOK(run'[p], flow'[p], files)
  PROVE  WorkOK'
BY DEF WorkOK, Others

\* The operations at hand.
Work(f) == files[<<"proposal", f.key>>]

LEMMA ApplyAt ==
  ASSUME WorkOK, NEW p \in Procs, run[p].pc \in Applying
  PROVE  /\ run[p].call = "apply" /\ flow[p].stage = NoValue
         /\ Written(files, "proposal", flow[p].key) /\ Sound(flow[p].key, Work(flow[p]))
         /\ run[p].pc \in {"gate", "preflight"} => flow[p].next = 1
         /\ run[p].pc = "perform" => flow[p].next \in DOMAIN Work(flow[p])
BY NowOK DEF CallOK, PlanOK, WorkOK, StoredOK, Work

LEMMA LoadApplyWork ==
  ASSUME Shape, WorkOK, NEW p \in Procs, LoadApply(p), Others(p)
  PROVE  /\ WorkOK'
         /\ \/ Tame(p)
            \/ /\ run'[p].pc = "gate" /\ flow'[p].report = Discover(vault)
<1>1. /\ run[p].pc = "load" /\ run[p].call = "apply" /\ flow[p].next = 1
      /\ UNCHANGED <<files, done>> /\ DoneOK(done, files)
  BY NowOK DEF LoadApply, At, CallOK, own, WorkOK
<1>2. PICK key, ack :
        \/ /\ Readable("proposal", key) /\ Goto(p, "gate")
           /\ Note(p, [key |-> key, ack |-> ack, report |-> Discover(vault)])
        \/ Finish(p, "not_ready") /\ UNCHANGED flow
  BY DEF LoadApply
<1>3. CASE Finish(p, "not_ready") /\ UNCHANGED flow
  <2>1. Tame(p)
    BY <1>3, FinishTame
  <2> QED BY <1>1, <2>1, WorkKept DEF Tame
<1>4. CASE /\ Readable("proposal", key) /\ Goto(p, "gate")
           /\ Note(p, [key |-> key, ack |-> ack, report |-> Discover(vault)])
  <2> DEFINE note == [key |-> key, ack |-> ack, report |-> Discover(vault)]
  <2>1. /\ DOMAIN note = {"key", "ack", "report"} /\ note.key = key
        /\ note.report = Discover(vault) /\ Note(p, note)
    BY <1>4
  <2> HIDE DEF note
  <2>2. /\ flow'[p].key = key /\ flow'[p].stage = flow[p].stage /\ flow'[p].next = 1
        /\ flow'[p].report = Discover(vault)
    BY <1>1, <2>1, NoteLeaves DEF NoFlow
  <2>3. run'[p].pc = "gate" /\ run'[p].call = "apply"
    BY <1>1, <1>4, Goes
  <2>4. Written(files, "proposal", key)
    BY <1>4 DEF Written, Readable
  <2>5. CallOK(run'[p], flow'[p])
    BY <1>1, <2>2, <2>3, NowOK DEF CallOK, Storage, Applying
  <2>6. PlanOK(run'[p], flow'[p], files)
    BY <2>2, <2>3, <2>4 DEF PlanOK, Applying, Storage
  <2> QED BY <1>1, <2>2, <2>3, <2>5, <2>6, WorkKept
<1> QED BY <1>2, <1>3, <1>4

LEMMA GateWork ==
  ASSUME Shape, WorkOK, NEW p \in Procs, Gate(p), Others(p)
  PROVE  /\ WorkOK'
         /\ \/ Tame(p)
            \/ /\ run'[p].pc = "preflight" /\ flow'[p].key = flow[p].key /\ flow'[p].next = 1
               /\ Ready(flow[p].key, flow[p].report, flow[p].ack)
<1>1. /\ run[p].pc = "gate" /\ run[p].pc \in Applying
      /\ UNCHANGED <<files, done>> /\ DoneOK(done, files)
  BY DEF Gate, At, Applying, own, WorkOK
<1> DEFINE note == [report |-> NoValue]
<1>2. Note(p, note) /\ DOMAIN note = {"report"}
  BY DEF Gate
<1> HIDE DEF note
<1>3. /\ flow'[p].key = flow[p].key /\ flow'[p].stage = flow[p].stage
      /\ flow'[p].next = flow[p].next
  BY <1>2, NoteLeaves DEF NoFlow
<1>4. \/ Finish(p, "not_ready")
      \/ Goto(p, "preflight") /\ Ready(flow[p].key, flow[p].report, flow[p].ack)
  BY DEF Gate
<1>5. CASE Finish(p, "not_ready")
  <2>1. Tame(p)
    BY <1>3, <1>5, FinishTame
  <2> QED BY <1>1, <2>1, WorkKept DEF Tame
<1>6. CASE Goto(p, "preflight") /\ Ready(flow[p].key, flow[p].report, flow[p].ack)
  <2>1. run'[p].pc = "preflight" /\ run'[p].call = run[p].call
    BY <1>6, Goes
  <2>2. CallOK(run'[p], flow'[p]) /\ PlanOK(run'[p], flow'[p], files)
    BY <1>1, <1>3, <2>1, ApplyAt DEF CallOK, PlanOK, Applying, Storage
  <2> QED BY <1>1, <1>3, <1>6, <2>1, <2>2, WorkKept, ApplyAt
<1> QED BY <1>4, <1>5, <1>6

LEMMA PreflightWork ==
  ASSUME Shape, WorkOK, NEW p \in Procs, Preflight(p), Others(p)
  PROVE  WorkOK' /\ (Tame(p) \/ (run'[p].pc = "perform" /\ flow' = flow))
<1>1. /\ run[p].pc = "preflight" /\ run[p].pc \in Applying
      /\ UNCHANGED <<files, done, flow>> /\ DoneOK(done, files)
  BY DEF Preflight, At, Applying, own, WorkOK
<1>2. Finish(p, "failed") \/ Goto(p, "perform")
  BY DEF Preflight
<1>3. CASE Finish(p, "failed")
  <2>1. Tame(p)
    BY <1>1, <1>3, FinishTame
  <2> QED BY <1>1, <2>1, WorkKept DEF Tame
<1>4. CASE Goto(p, "perform")
  <2>1. run'[p].pc = "perform" /\ run'[p].call = run[p].call
    BY <1>4, Goes
  <2> DEFINE ops == Work(flow[p])
  <2>2. IsSeq(ops) /\ ops # <<>> /\ flow[p].next = 1
    BY <1>1, ApplyAt DEF Sound, Written, Work, Torn
  <2> HIDE DEF ops
  <2>3. 1 \in DOMAIN ops
    BY <2>2 DEF IsSeq
  <2>4. CallOK(run'[p], flow'[p])
    BY <1>1, <2>1, ApplyAt DEF CallOK, Applying, Storage
  <2>5. PlanOK(run'[p], flow'[p], files)
    BY <1>1, <2>1, <2>2, <2>3, ApplyAt DEF PlanOK, Applying, Storage, ops, Work
  <2> QED BY <1>1, <2>1, <2>4, <2>5, WorkKept
<1> QED BY <1>2, <1>3, <1>4

\* One operation is performed, and noted as done.
Performed(p) ==
  LET op == Work(flow[p])[flow[p].next] IN
  /\ Possible(op) /\ vault' = Effect(op)
  /\ done' = done \union {<<flow[p].key, flow[p].next>>}
  /\ flow'[p].key = flow[p].key /\ flow'[p].next = flow[p].next + 1

LEMMA PerformWork ==
  ASSUME Shape, WorkOK, NEW p \in Procs, Perform(p), Others(p)
  PROVE  /\ WorkOK'
         /\ \/ Tame(p) /\ UNCHANGED <<vault, done>>
            \/ Performed(p) /\ (Tame(p) \/ run'[p].pc = "perform")
<1>1. /\ run[p].pc = "perform" /\ run[p].pc \in Applying /\ UNCHANGED files /\ DoneOK(done, files)
  BY DEF Perform, At, Applying, own, WorkOK
<1> DEFINE key == flow[p].key
           i == flow[p].next
           ops == Work(flow[p])
<1>2. /\ run[p].call = "apply" /\ flow[p].stage = NoValue
      /\ Written(files, "proposal", key) /\ IsSeq(ops) /\ i \in DOMAIN ops
  BY <1>1, ApplyAt DEF Sound
<1>3. Ops(key) = ops
  BY DEF Ops, Work
<1> HIDE DEF ops
<1>4. \/ Finish(p, "failed") /\ UNCHANGED <<vault, done, flow>>
      \/ /\ Possible(ops[i]) /\ vault' = Effect(ops[i]) /\ done' = done \union {<<key, i>>}
         /\ Note(p, [next |-> i + 1])
         /\ (i = Len(ops) /\ Finish(p, "applied")) \/ (i # Len(ops) /\ Goto(p, "perform"))
  BY <1>3 DEF Perform
<1>5. CASE Finish(p, "failed") /\ UNCHANGED <<vault, done, flow>>
  <2>1. Tame(p)
    BY <1>5, FinishTame
  <2> QED BY <1>1, <1>5, <2>1, WorkKept DEF Tame
<1>6. CASE /\ Possible(ops[i]) /\ vault' = Effect(ops[i]) /\ done' = done \union {<<key, i>>}
           /\ Note(p, [next |-> i + 1])
           /\ (i = Len(ops) /\ Finish(p, "applied")) \/ (i # Len(ops) /\ Goto(p, "perform"))
  <2> DEFINE note == [next |-> i + 1]
  <2>1. Note(p, note) /\ DOMAIN note = {"next"} /\ note.next = i + 1
    BY <1>6
  <2> HIDE DEF note
  <2>2. /\ flow'[p].key = key /\ flow'[p].stage = flow[p].stage /\ flow'[p].next = i + 1
    BY <2>1, NoteLeaves DEF NoFlow
  <2>3. Performed(p)
    <3>1. /\ Possible(ops[i]) /\ vault' = Effect(ops[i])
          /\ done' = done \union {<<key, i>>}
      BY <1>6
    <3> QED BY <2>2, <3>1 DEF Performed, ops
  <2>4. DoneOK(done', files)
    <3>1. done' = done \union {<<key, i>>} /\ <<key, i>>[1] = key /\ <<key, i>>[2] = i
      BY <1>6
    <3>2. i \in DOMAIN files[<<"proposal", key>>]
      BY <1>2 DEF ops, Work
    <3> QED BY <1>1, <1>2, <3>1, <3>2 DEF DoneOK
  <2>5. CASE Finish(p, "applied")
    <3>1. Tame(p)
      BY <2>2, <2>5, FinishTame
    <3> QED BY <1>1, <2>3, <2>4, <3>1, WorkKept DEF Tame
  <2>6. CASE i # Len(ops) /\ Goto(p, "perform")
    <3>1. run'[p].pc = "perform" /\ run'[p].call = "apply"
      BY <1>2, <2>6, Goes
    <3>2. i + 1 \in DOMAIN ops
      BY <1>2, <2>6 DEF IsSeq
    <3>3. CallOK(run'[p], flow'[p])
      BY <1>2, <2>2, <3>1 DEF CallOK, Applying, Storage
    <3>4. PlanOK(run'[p], flow'[p], files)
      BY <1>2, <2>2, <3>1, <3>2 DEF PlanOK, Applying, Storage, ops, Work
    <3> QED BY <1>1, <2>3, <2>4, <3>1, <3>3, <3>4, WorkKept
  <2> QED BY <1>6, <2>5, <2>6
<1> QED BY <1>4, <1>5, <1>6

LEMMA CommandWork ==
  ASSUME Inv, FilesInv, WorkOK, NEW p \in Procs, Command(p)
  PROVE  WorkOK'
<1>1. Shape /\ Others(p) /\ Stays(files, files')
  BY CommandCarried, CarriedOthers, CommandFiles DEF Inv
<1>2. CASE Applies(p)
  BY <1>1, <1>2, LoadApplyWork, GateWork, PreflightWork, PerformWork DEF Applies
<1>3. CASE ~Applies(p)
  <2>1. Tame(p) /\ StoredOK(files')
    BY <1>3, CommandTame, StoredNext
  <2>2. UNCHANGED done
    BY <1>3 DEF Command, Applies, Storing, Probe, Create, Write, Begin, Leave, Discovered, CheckReady,
                Ask, Reviewing, LoadReview, NothingToLoad, Recheck, Continue, Final, own
  <2> QED BY <1>1, <2>1, <2>2, WorkTame
<1> QED BY <1>2, <1>3

LEMMA WorkStep ==
  ASSUME Inv, FilesInv, WorkOK, [Next]_vars
  PROVE  WorkOK'
<1>1. CASE UNCHANGED <<own, run, flow>>
  BY <1>1 DEF WorkOK, own
<1>2. CASE \E p \in Procs : Crash(p)
  <2>1. PICK p \in Procs : Crash(p)
    BY <1>2
  <2>2. Shape /\ Others(p) /\ UNCHANGED own
    BY <2>1 DEF Inv, Shape, Crash, Die, Others
  <2>3. Tame(p)
    BY <2>1, <2>2, IdleTame DEF Crash, Die
  <2> QED BY <2>2, <2>3, WorkTame DEF own, Stays, WorkOK
<1>3. Surroundings => UNCHANGED run
  BY DEF Surroundings, EditNote, AdvanceClock, FinishSession, DamageState
<1> QED BY <1>1, <1>2, <1>3, CommandWork DEF Next, vars, own

(* What else the types need.                                               *)
Stock ==
  /\ left \in Nat /\ DOMAIN state = ToSet(Artifacts) \union {"manifest"}
  /\ \A p \in Procs : whole[p] \in BOOLEAN

LEMMA StockStep ==
  ASSUME Stock, [Next]_vars
  PROVE  Stock'
<1>1. CASE UNCHANGED vars
  BY <1>1 DEF Stock, vars, derived
<1>2. CASE Next
  <2>1. \/ \E p \in Procs : Command(p) /\ UNCHANGED outside
        \/ \E p \in Procs : Crash(p)
        \/ Surroundings
    BY <1>2 DEF Next
  <2>2. \A p \in Procs : whole'[p] \in BOOLEAN
    BY <1>2 DEF Next, ObserveWhole
  <2>3. left' \in Nat
    <3>1. left' = left \/ Disturb
      BY <2>1 DEF Crash, Die, Surroundings, EditNote, AdvanceClock, FinishSession, DamageState, outside
    <3> QED BY <3>1 DEF Disturb, Stock
  <2>4. DOMAIN state' = DOMAIN state
    <3>1. UNCHANGED state \/ \E a, c : state' = [state EXCEPT ![a] = c]
      <4>1. CASE Surroundings
        <5>1. DamageState => \E a, c : state' = [state EXCEPT ![a] = c]
          BY DEF DamageState
        <5> QED BY <4>1, <5>1 DEF Surroundings, EditNote, AdvanceClock, FinishSession, derived
      <4>2. ASSUME NEW p \in Procs, Derivation(p) \/ Indexing(p)
            PROVE  UNCHANGED state \/ \E a, c : state' = [state EXCEPT ![a] = c]
        <5>1. (\E i \in DOMAIN Artifacts : PublishText(p, i)) =>
                \E a, c : state' = [state EXCEPT ![a] = c]
          BY DEF PublishText
        <5>2. PublishManifest(p) => \E a, c : state' = [state EXCEPT ![a] = c]
          BY DEF PublishManifest
        <5> QED BY <4>2, <5>1, <5>2
               DEF Derivation, Indexing, ReadWorld, ReadSessions, ReadEntities, ReadManifest,
                   ReadTexts, ListForIndex, ReplaceIndex, VerifyIndex, derived
      <4>3. ASSUME NEW p \in Procs, Command(p), ~(Derivation(p) \/ Indexing(p))
            PROVE  UNCHANGED state
        BY <4>3 DEF Command, Storing, Probe, Create, Write, Begin, Leave, Discovered, CheckReady,
                    Ask, Reviewing, LoadReview, LoadApply, NothingToLoad, Gate, Preflight, Perform,
                    Recheck, Continue, Final, derived
      <4> QED BY <2>1, <4>1, <4>2, <4>3 DEF Crash, Die, derived
    <3> QED BY <3>1
  <2> QED BY <2>2, <2>3, <2>4 DEF Stock
<1> QED BY <1>1, <1>2

LEMMA TypesInit ==
  ASSUME Init
  PROVE  WorkOK /\ Stock
<1>1. /\ files = <<>> /\ done = {} /\ run = [p \in Procs |-> Idle] /\ flow = [p \in Procs |-> NoFlow]
      /\ whole = [p \in Procs |-> FALSE]
  BY DEF Init, InitCampaign
<1>2. PICK s \in Scenarios :
        /\ left = s.budget
        /\ state = [a \in ToSet(Artifacts) \union {"manifest"} |->
                      IF a = "manifest" \/ s.manifest = NoValue THEN s.manifest ELSE <<"old">>]
  BY DEF Init, InitCampaign
<1>3. Stock
  BY <1>1, <1>2, CampaignAssumption DEF Stock
<1>4. StoredOK(files) /\ DoneOK(done, files)
  BY <1>1 DEF StoredOK, DoneOK, Written
<1>5. Idle.pc = "idle" /\ NoFlow.stage = NoValue
  BY DEF Idle, NoFlow
<1>6. \A p \in Procs : CallOK(run[p], flow[p]) /\ PlanOK(run[p], flow[p], files)
  BY <1>1, <1>5 DEF CallOK, PlanOK, Applying, Storage
<1> QED BY <1>3, <1>4, <1>6 DEF WorkOK

LEMMA TypesAlways == Spec => [](Inv /\ FilesInv /\ WorkOK /\ Stock)
<1>1. Init => WorkOK /\ Stock
  BY TypesInit
<1>2. Inv /\ FilesInv /\ WorkOK /\ Stock /\ [Next]_vars => WorkOK' /\ Stock'
  BY WorkStep, StockStep
<1> QED BY <1>1, <1>2, InvAlways, PTL DEF Spec

(* Every variable of the workflow keeps its shape: what is performed is    *)
(* an operation of a proposal written whole, and only finalize has stages. *)
THEOREM WorkflowTypes == Spec => []TypeOK
<1>1. Inv /\ FilesInv /\ WorkOK /\ Stock => TypeOK
  <2> SUFFICES ASSUME Inv, FilesInv, WorkOK, Stock
               PROVE  TypeOK
    OBVIOUS
  <2>1. ArtifactsInOrder
    BY DEF FilesInv, InOrder, Written, ArtifactsInOrder, Readable
  <2>2. \A d \in done : Readable("proposal", d[1]) /\ d[2] \in DOMAIN Ops(d[1])
    BY DEF WorkOK, DoneOK, Written, Readable, Ops
  <2>3. \A p \in Procs : /\ DOMAIN run[p] = DOMAIN Idle /\ DOMAIN flow[p] = DOMAIN NoFlow
                         /\ flow[p].stage # NoValue => run[p].call = "finalize"
    BY DEF Inv, Shape, FlowOK, WorkOK, CallOK
  <2> QED BY <2>1, <2>2, <2>3 DEF TypeOK, Stock
<1> QED BY <1>1, TypesAlways, PTL

-----------------------------------------------------------------------------
(* Names.                                                                  *)
(* A run that is at the gate knows every name of the vault, if its report  *)
(* covered it; past the gate, what it has yet to create has a name nobody  *)
(* goes by.  What was created has a name nobody else goes by.              *)
GateOK(r, f, v) ==
  r.pc = "gate" /\ CoverageComplete(f.report) =>
    \A n : Named(v, n) # {} => n \in KnownNames(Fingerprint(f.report))

TodoOK(r, f, fs, v) ==
  r.pc \in {"preflight", "perform"} =>
    \A j \in Made(fs[<<"proposal", f.key>>]) :
      j >= f.next => Named(v, NameOf(fs[<<"proposal", f.key>>][j])) = {}

Single(ds, fs, v) ==
  \A d \in ds : fs[<<"proposal", d[1]>>][d[2]].op = "create" =>
    \E path : Named(v, NameOf(fs[<<"proposal", d[1]>>][d[2]])) = {path}

NamesOK ==
  /\ Single(done, files, vault)
  /\ \A p \in Procs : GateOK(run[p], flow[p], vault) /\ TodoOK(run[p], flow[p], files, vault)

ByHand == \E path \in edited : UnderEntityFolder(path)

NamesInv == FilesOK(vault) /\ (ByHand \/ NamesOK)

\* One process at a time applies a proposal.
OneApplies == \A p, q \in Procs : run[p].call = "apply" /\ run[q].call = "apply" => p = q

LEMMA SameNames ==
  ASSUME NEW v, NEW w, \A n : Named(w, n) = Named(v, n)
  PROVE  /\ \A r, f : GateOK(r, f, v) => GateOK(r, f, w)
         /\ \A r, f, fs : TodoOK(r, f, fs, v) => TodoOK(r, f, fs, w)
         /\ \A ds, fs : Single(ds, fs, v) => Single(ds, fs, w)
BY DEF GateOK, TodoOK, Single

\* What a run or an operation done reads of the files stays.
LEMMA NamesStay ==
  ASSUME WorkOK, Stays(files, files')
  PROVE  /\ \A v : Single(done, files, v) => Single(done, files', v)
         /\ \A p \in Procs : \A v :
              TodoOK(run[p], flow[p], files, v) => TodoOK(run[p], flow[p], files', v)
<1>1. ASSUME NEW key, Written(files, "proposal", key)
      PROVE  files'[<<"proposal", key>>] = files[<<"proposal", key>>]
  BY <1>1 DEF Stays, Written
<1>2. \A d \in done : files'[<<"proposal", d[1]>>] = files[<<"proposal", d[1]>>]
  BY <1>1 DEF WorkOK, DoneOK
<1>3. \A p \in Procs : run[p].pc \in {"preflight", "perform"} =>
        files'[<<"proposal", flow[p].key>>] = files[<<"proposal", flow[p].key>>]
  BY <1>1 DEF WorkOK, PlanOK, Applying
<1> QED BY <1>2, <1>3 DEF Single, TodoOK

(* A step of p that performs nothing.                                      *)
LEMMA NamesKept ==
  ASSUME WorkOK, NamesOK, NEW p \in Procs, Others(p), Stays(files, files'), UNCHANGED done,
         \A n : Named(vault', n) = Named(vault, n),
         GateOK(run'[p], flow'[p], vault), TodoOK(run'[p], flow'[p], files', vault)
  PROVE  NamesOK'
<1>1. Single(done', files', vault')
  BY NamesStay, SameNames DEF NamesOK
<1>2. ASSUME NEW q \in Procs, q # p
      PROVE  GateOK(run'[q], flow'[q], vault') /\ TodoOK(run'[q], flow'[q], files', vault')
  BY <1>2, NamesStay, SameNames DEF NamesOK, Others
<1>3. GateOK(run'[p], flow'[p], vault') /\ TodoOK(run'[p], flow'[p], files', vault')
  BY SameNames
<1> QED BY <1>1, <1>2, <1>3 DEF NamesOK

LEMMA TameNames ==
  ASSUME NEW p \in Procs, Tame(p)
  PROVE  /\ \A v : GateOK(run'[p], flow'[p], v)
         /\ \A v, fs : TodoOK(run'[p], flow'[p], fs, v)
BY DEF Tame, Applying, GateOK, TodoOK

LEMMA LoadApplyNames ==
  ASSUME Shape, WorkOK, FilesOK(vault), NamesOK, NEW p \in Procs, LoadApply(p), Others(p)
  PROVE  NamesOK'
<1>1. UNCHANGED <<vault, files, done>> /\ Stays(files, files')
  BY DEF LoadApply, sources, own, Stays
<1>2. CASE run'[p].pc = "gate" /\ flow'[p].report = Discover(vault)
  <2>1. GateOK(run'[p], flow'[p], vault)
    BY <1>2, CoverageKnows DEF GateOK, SourcesOf
  <2>2. TodoOK(run'[p], flow'[p], files', vault)
    BY <1>2 DEF TodoOK
  <2> QED BY <1>1, <2>1, <2>2, NamesKept
<1> QED BY <1>1, <1>2, LoadApplyWork, TameNames, NamesKept

LEMMA GateNames ==
  ASSUME Shape, WorkOK, NamesOK, NEW p \in Procs, Gate(p), Others(p)
  PROVE  NamesOK'
<1>1. UNCHANGED <<vault, files, done>> /\ Stays(files, files') /\ run[p].pc = "gate"
  BY DEF Gate, At, sources, own, Stays
<1> DEFINE key == flow[p].key
           report == flow[p].report
<1>2. CASE /\ run'[p].pc = "preflight" /\ flow'[p].key = key /\ flow'[p].next = 1
           /\ Ready(key, report, flow[p].ack)
  <2>1. /\ Written(files, "evidence", key)
        /\ files[<<"evidence", key>>].input = Fingerprint(report) /\ CoverageComplete(report)
    BY <1>2 DEF Ready, Readable, Written
  <2>2. Fingerprint(report) = key
    BY <2>1 DEF WorkOK, StoredOK
  <2>3. \A n : Named(vault, n) # {} => n \in KnownNames(key)
    BY <1>1, <2>1, <2>2 DEF NamesOK, GateOK
  <2>4. Sound(key, files[<<"proposal", key>>])
    BY <1>1, ApplyAt DEF Applying, Work
  <2>5. TodoOK(run'[p], flow'[p], files', vault)
    BY <1>1, <1>2, <2>3, <2>4 DEF TodoOK, Sound
  <2>6. GateOK(run'[p], flow'[p], vault)
    BY <1>2 DEF GateOK
  <2> QED BY <1>1, <2>5, <2>6, NamesKept
<1> QED BY <1>1, <1>2, GateWork, TameNames, NamesKept

LEMMA PreflightNames ==
  ASSUME Shape, WorkOK, NamesOK, NEW p \in Procs, Preflight(p), Others(p)
  PROVE  NamesOK'
<1>1. UNCHANGED <<vault, files, done>> /\ Stays(files, files') /\ run[p].pc = "preflight"
  BY DEF Preflight, At, sources, own, Stays
<1>2. CASE run'[p].pc = "perform" /\ flow' = flow
  <2>1. GateOK(run'[p], flow'[p], vault) /\ TodoOK(run'[p], flow'[p], files', vault)
    BY <1>1, <1>2 DEF NamesOK, GateOK, TodoOK
  <2> QED BY <1>1, <2>1, NamesKept
<1> QED BY <1>1, <1>2, PreflightWork, TameNames, NamesKept

LEMMA PerformNames ==
  ASSUME Shape, WorkOK, FilesOK(vault), NamesOK, OneApplies, NEW p \in Procs, Perform(p), Others(p)
  PROVE  NamesOK'
<1>1. UNCHANGED files /\ Stays(files, files') /\ run[p].pc = "perform"
  BY DEF Perform, At, Stays
<1> DEFINE key == flow[p].key
           i == flow[p].next
           ops == Work(flow[p])
           op == ops[i]
<1>2. CASE Tame(p) /\ UNCHANGED <<vault, done>>
  BY <1>1, <1>2, TameNames, NamesKept
<1>3. CASE Performed(p) /\ (Tame(p) \/ run'[p].pc = "perform")
  <2>1. /\ run[p].call = "apply" /\ Sound(key, ops) /\ i \in DOMAIN ops
        /\ op.op \in {"create", "append"} /\ ops = files[<<"proposal", key>>]
    BY <1>1, ApplyAt DEF Applying, Sound, Work
  <2>2. i \in Nat /\ DOMAIN ops \subseteq Nat
    BY <2>1 DEF Sound, IsSeq
  <2> HIDE DEF ops
  <2>3. /\ Possible(op) /\ vault' = Effect(op) /\ done' = done \union {<<key, i>>}
        /\ flow'[p].key = key /\ flow'[p].next = i + 1
    BY <1>3 DEF Performed, ops
  <2>4. \A q \in Procs : q # p =>
          /\ run'[q] = run[q] /\ flow'[q] = flow[q]
          /\ run[q].pc \notin {"gate", "preflight", "perform"}
    BY <2>1, ApplyAt DEF OneApplies, Others, Applying
  <2>5. \A q \in Procs : q # p => GateOK(run'[q], flow'[q], vault')
                                    /\ TodoOK(run'[q], flow'[q], files', vault')
    BY <2>4 DEF GateOK, TodoOK
  <2>6. GateOK(run'[p], flow'[p], vault')
    BY <1>3, TameNames DEF GateOK
  <2>7. run[p].pc \in {"preflight", "perform"} /\ TodoOK(run[p], flow[p], files, vault)
    BY <1>1 DEF NamesOK
  <2>8. \A j \in Made(ops) : j >= i => Named(vault, NameOf(ops[j])) = {}
    BY <2>1, <2>7 DEF TodoOK
  <2>9. Tame(p) => TodoOK(run'[p], flow'[p], files', vault')
    BY TameNames
  <2>10. \A d \in done : files[<<"proposal", d[1]>>][d[2]].op = "create" =>
           \E path : Named(vault, NameOf(files[<<"proposal", d[1]>>][d[2]])) = {path}
    BY DEF NamesOK, Single
  <2>11. CASE op.op = "append"
    <3>1. \A n : Named(vault', n) = Named(vault, n)
      BY <2>3, <2>11, AppendKeepsNames
    <3>2. TodoOK(run'[p], flow'[p], files', vault')
      <4>1. \A j \in Made(ops) : j >= i + 1 => Named(vault', NameOf(ops[j])) = {}
        BY <2>2, <2>8, <3>1 DEF Made
      <4> QED BY <1>1, <2>1, <2>3, <4>1 DEF TodoOK
    <3>3. Single(done', files', vault')
      <4>1. ASSUME NEW d \in done', files[<<"proposal", d[1]>>][d[2]].op = "create"
            PROVE  d \in done
        <5>1. d = <<key, i>> => files[<<"proposal", d[1]>>][d[2]] = op
          BY <2>1
        <5> QED BY <2>3, <2>11, <4>1, <5>1
      <4> QED BY <1>1, <2>10, <3>1, <4>1 DEF Single
    <3> QED BY <2>5, <2>6, <3>1, <3>2, <3>3 DEF NamesOK
  <2>12. CASE op.op = "create"
    <3> DEFINE n == NameOf(op)
    <3>1. i \in Made(ops) /\ op.type \in KnownTypes
      BY <2>1, <2>12 DEF Made, Sound
    <3>2. /\ Named(vault', n) = Named(vault, n) \union {NewPath(op)}
          /\ \A m : m # n => Named(vault', m) = Named(vault, m)
      BY <2>3, <2>12, <3>1, CreateAddsName
    <3>3. Named(vault, n) = {}
      BY <2>2, <2>8, <3>1
    <3>4. TodoOK(run'[p], flow'[p], files', vault')
      <4>1. ASSUME NEW j \in Made(ops), j >= i + 1
            PROVE  Named(vault', NameOf(ops[j])) = {}
        <5>1. j # i /\ j >= i
          BY <2>2, <4>1 DEF Made
        <5>2. NameOf(ops[j]) # n
          BY <2>1, <3>1, <5>1 DEF Sound
        <5> QED BY <2>8, <3>2, <5>1, <5>2
      <4> QED BY <1>1, <2>1, <2>3, <4>1 DEF TodoOK
    <3>5. Single(done', files', vault')
      <4>1. ASSUME NEW d \in done', files[<<"proposal", d[1]>>][d[2]].op = "create"
            PROVE  \E path : Named(vault', NameOf(files[<<"proposal", d[1]>>][d[2]])) = {path}
        <5>1. CASE d = <<key, i>>
          <6>1. files[<<"proposal", d[1]>>][d[2]] = op
            BY <2>1, <5>1
          <6> QED BY <3>2, <3>3, <6>1
        <5>2. CASE d \in done
          <6> DEFINE m == NameOf(files[<<"proposal", d[1]>>][d[2]])
          <6>1. PICK path : Named(vault, m) = {path}
            BY <2>10, <4>1, <5>2
          <6>2. m # n
            BY <3>3, <6>1
          <6> QED BY <3>2, <6>1, <6>2
        <5> QED BY <2>3, <5>1, <5>2
      <4> QED BY <1>1, <4>1 DEF Single
    <3> QED BY <2>5, <2>6, <3>2, <3>4, <3>5 DEF NamesOK
  <2> QED BY <2>1, <2>11, <2>12
<1> QED BY <1>2, <1>3, PerformWork

LEMMA OnlyPerform ==
  ASSUME NEW p \in Procs, Command(p), ~Perform(p)
  PROVE  UNCHANGED <<vault, done>>
<1>1. (\E i \in DOMAIN Artifacts : PublishText(p, i)) => UNCHANGED vault
  BY DEF PublishText, sources
<1>2. Derivation(p) \/ Indexing(p) => UNCHANGED vault
  BY <1>1 DEF Derivation, Indexing, ReadWorld, ReadSessions, ReadEntities, ReadManifest, ReadTexts,
              PublishManifest, ListForIndex, ReplaceIndex, VerifyIndex, sources
<1> QED BY <1>2
       DEF Command, Storing, Probe, Create, Write, Begin, Leave, Discovered, CheckReady, Ask,
           Reviewing, LoadReview, LoadApply, NothingToLoad, Gate, Preflight, Recheck, Continue,
           Final, own, sources

LEMMA CommandNames ==
  ASSUME Inv, FilesInv, WorkOK, FilesOK(vault), NamesOK, OneApplies, NEW p \in Procs, Command(p)
  PROVE  NamesOK'
<1>1. Shape /\ Others(p) /\ Stays(files, files')
  BY CommandCarried, CarriedOthers, CommandFiles DEF Inv
<1>2. CASE Applies(p)
  BY <1>1, <1>2, LoadApplyNames, GateNames, PreflightNames, PerformNames DEF Applies
<1>3. CASE ~Applies(p)
  BY <1>1, <1>3, OnlyPerform, CommandTame, TameNames, NamesKept DEF Applies
<1> QED BY <1>2, <1>3

LEMMA FilesAreFiles ==
  ASSUME Inv, WorkOK, FilesOK(vault), NEW p \in Procs, Command(p)
  PROVE  FilesOK(vault')
<1>1. Shape /\ Others(p)
  BY CommandCarried, CarriedOthers DEF Inv
<1>2. CASE Perform(p) /\ Performed(p)
  <2> DEFINE op == Work(flow[p])[flow[p].next]
  <2>1. op.op \in {"create", "append"} /\ (op.op = "create" => op.type \in KnownTypes)
    BY <1>2, ApplyAt DEF Perform, At, Applying, Sound, Made
  <2>2. Possible(op) /\ vault' = Effect(op)
    BY <1>2 DEF Performed
  <2> QED BY <2>1, <2>2, AppendKeepsNames, CreateAddsName
<1> QED BY <1>1, <1>2, PerformWork, OnlyPerform

LEMMA NamesStep ==
  ASSUME Inv, FilesInv, WorkOK, NamesInv, OneApplies, [Next]_vars
  PROVE  NamesInv'
<1>1. CASE UNCHANGED vars
  BY <1>1 DEF vars, sources, NamesInv, NamesOK, ByHand
<1>2. CASE \E p \in Procs : Command(p) /\ UNCHANGED outside
  BY <1>2, CommandNames, FilesAreFiles DEF NamesInv, ByHand, outside
<1>3. CASE \E p \in Procs : Crash(p)
  <2>1. PICK p \in Procs : Crash(p)
    BY <1>3
  <2>2. /\ Shape /\ Others(p) /\ UNCHANGED <<own, vault, edited>>
    BY <2>1 DEF Inv, Shape, Crash, Die, Others, sources
  <2>3. Tame(p)
    BY <2>1, <2>2, IdleTame DEF Crash, Die
  <2> QED BY <2>2, <2>3, TameNames, NamesKept DEF NamesInv, ByHand, own, Stays
<1>4. CASE Surroundings /\ UNCHANGED <<own, flow, todo>>
  <2>1. UNCHANGED <<run, flow, files, done>>
    BY <1>4 DEF Surroundings, EditNote, AdvanceClock, FinishSession, DamageState, own
  <2>2. edited \subseteq edited'
    BY <1>4 DEF Surroundings, EditNote, AdvanceClock, FinishSession, DamageState
  <2>3. FilesOK(vault') /\ (ByHand' \/ \A n : Named(vault', n) = Named(vault, n))
    <3>1. CASE \E e \in Edits : EditNote(e)
      <4>1. PICK e \in Edits : EditNote(e)
        BY <3>1
      <4>2. /\ FilesOK(vault') /\ e[1] \in edited'
            /\ ~UnderEntityFolder(e[1]) => \A n : Named(vault', n) = Named(vault, n)
        BY <4>1, EditElsewhere DEF NamesInv
      <4> QED BY <4>2 DEF ByHand
    <3> QED BY <1>4, <3>1 DEF Surroundings, AdvanceClock, FinishSession, DamageState, sources, NamesInv
  <2>4. ByHand => ByHand'
    BY <2>2 DEF ByHand
  <2>5. NamesOK /\ (\A n : Named(vault', n) = Named(vault, n)) => NamesOK'
    BY <2>1, SameNames DEF NamesOK
  <2> QED BY <2>3, <2>4, <2>5 DEF NamesInv
<1> QED BY <1>1, <1>2, <1>3, <1>4 DEF Next

(* However often the vault is mapped, by whichever answers, and whatever   *)
(* is approved, no entity a proposal created shares its name with another  *)
(* one, as long as the owner edits no entity by hand and proposals are     *)
(* applied one at a time: the evidence of a proposal is of the sources as  *)
(* they are when the gate is passed, and knows every name there is.        *)
THEOREM NamesStayApart == Spec /\ []OneApplies => []NoNameTwice
<1>1. Init => NamesInv
  <2> SUFFICES ASSUME Init
               PROVE  NamesInv
    OBVIOUS
  <2>1. PICK s \in Scenarios : vault = s.vault
    BY DEF Init, InitCampaign
  <2>2. FilesOK(vault)
    BY <2>1, CampaignAssumption DEF FilesOK
  <2>3. done = {} /\ run = [p \in Procs |-> Idle] /\ Idle.pc = "idle"
    BY DEF Init, InitCampaign, Idle
  <2>4. NamesOK
    BY <2>3 DEF NamesOK, Single, GateOK, TodoOK
  <2> QED BY <2>2, <2>4 DEF NamesInv
<1>2. Inv /\ FilesInv /\ WorkOK /\ NamesInv /\ OneApplies /\ [Next]_vars => NamesInv'
  BY NamesStep
<1>3. NamesInv => NoNameTwice
  <2> SUFFICES ASSUME NamesInv, ~ByHand,
                      NEW d \in done, Ops(d[1])[d[2]].op = "create"
               PROVE  Cardinality({path \in Stored(vault) :
                        /\ IsEntity(vault[path].note)
                        /\ Normalized(vault[path].note.name) = Normalized(Ops(d[1])[d[2]].name)}) = 1
    BY DEF NoNameTwice, ByHand
  <2>1. PICK path : Named(vault, NameOf(Ops(d[1])[d[2]])) = {path}
    BY DEF NamesInv, NamesOK, Single, Ops
  <2> QED BY <2>1, FS_Singleton DEF Named, NameOf
<1> QED BY <1>1, <1>2, <1>3, TypesAlways, PTL DEF Spec

-----------------------------------------------------------------------------
(* What becomes of the items of an answer.                                 *)

One(S) == \E e : S = {e}

ItemsOf(ops, id) == {i \in DOMAIN ops : ops[i].of = id}
ReasonsOf(unresolved, id) == {u \in unresolved : u[1] = "item" /\ u[3] = id}

\* An item is an operation or has a reason, not both; or it is neither yet.
Settled(ops, unresolved, id) ==
  \/ One(ItemsOf(ops, id)) /\ ReasonsOf(unresolved, id) = {}
  \/ ItemsOf(ops, id) = {} /\ One(ReasonsOf(unresolved, id))
Untold(ops, unresolved, id) == ItemsOf(ops, id) = {} /\ ReasonsOf(unresolved, id) = {}

\* What the first i items of a list have become.
Accounts(items, i, acc) ==
  /\ Planned(acc)
  /\ \A j \in 1..i : Settled(acc.ops, acc.unresolved, items[j].id)
  /\ \A id : (\A j \in 1..i : items[j].id # id) => Untold(acc.ops, acc.unresolved, id)

CreateAccounts(c, i, acc) == Accounts(c.x.candidates, i, acc)
AppendAccounts(c, i, acc) == Accounts(c.x.claims, i, acc)

CreateCount == INSTANCE Folding WITH Step <- CreateStep, Kept <- CreateAccounts
AppendCount == INSTANCE Folding WITH Step <- AppendStep, Kept <- AppendAccounts

\* The plan of the creations is a fold that settles one candidate a step.
LEMMA CreateCounts ==
  ASSUME NEW report, NEW x
  PROVE  Creates(report, x) = CreateCount!Fold([report |-> report, x |-> x], Nothing, x.candidates)
BY DEF Creates, CreateStep, Nothing, FoldLeft, MapThenFoldSet, CreateCount!Fold, Max, CreateCount!Max

\* So is that of the appends, of the claims.
LEMMA AppendCounts ==
  ASSUME NEW report, NEW x
  PROVE  Appends(report, x) = AppendCount!Fold([report |-> report, x |-> x], Nothing, x.claims)
BY DEF Appends, AppendStep, Nothing, FoldLeft, MapThenFoldSet, AppendCount!Fold, Max, AppendCount!Max

\* An operation more, or a reason more.
LEMMA AnOperationMore ==
  ASSUME NEW ops, IsSeq(ops), NEW o
  PROVE  /\ \A id : id # o.of => ItemsOf(Append(ops, o), id) = ItemsOf(ops, id)
         /\ ItemsOf(ops, o.of) = {} => One(ItemsOf(Append(ops, o), o.of))
<1> DEFINE more == Append(ops, o)
           e == Len(ops) + 1
<1>1. /\ DOMAIN more = 1..e /\ DOMAIN ops = 1..Len(ops) /\ Len(ops) \in Nat
      /\ more[e] = o /\ \A i \in DOMAIN ops : more[i] = ops[i]
  BY Longer
<1>2. /\ DOMAIN ops \subseteq DOMAIN more /\ e \in DOMAIN more /\ e \notin DOMAIN ops
      /\ \A i \in DOMAIN more : i = e \/ i \in DOMAIN ops
  BY <1>1
<1> HIDE DEF more, e
<1>3. \A id : id # o.of => ItemsOf(more, id) = ItemsOf(ops, id)
  BY <1>1, <1>2 DEF ItemsOf
<1>4. ItemsOf(ops, o.of) = {} => ItemsOf(more, o.of) = {e}
  BY <1>1, <1>2 DEF ItemsOf
<1> QED BY <1>3, <1>4 DEF One, more

\* A reason more: it is that of its own item and of no other.
LEMMA AReasonMore ==
  ASSUME NEW unresolved, NEW u, u[1] = "item"
  PROVE  /\ \A id : id # u[3] =>
              ReasonsOf(unresolved \union {u}, id) = ReasonsOf(unresolved, id)
         /\ ReasonsOf(unresolved, u[3]) = {} => One(ReasonsOf(unresolved \union {u}, u[3]))
<1>1. ReasonsOf(unresolved, u[3]) = {} => ReasonsOf(unresolved \union {u}, u[3]) = {u}
  BY DEF ReasonsOf
<1> QED BY <1>1 DEF One, ReasonsOf

\* The next item: none before it has its id.
LEMMA NextItem ==
  ASSUME NEW items, NEW i \in Nat \ {0}, NEW acc, Accounts(items, i - 1, acc),
         \A j \in 1..i - 1 : items[j].id # items[i].id,
         NEW o, o.of = items[i].id, NEW reason
  PROVE  /\ Accounts(items, i, [acc EXCEPT !.ops = Append(@, o)])
         /\ Accounts(items, i, [acc EXCEPT !.unresolved = @ \union {<<"item", reason, items[i].id>>}])
<1> DEFINE mine == items[i].id
           u == <<"item", reason, mine>>
           more == [acc EXCEPT !.ops = Append(@, o)]
           less == [acc EXCEPT !.unresolved = @ \union {u}]
<1>1. /\ Planned(acc)
      /\ \A j \in 1..i - 1 : Settled(acc.ops, acc.unresolved, items[j].id)
      /\ \A id : (\A j \in 1..i - 1 : items[j].id # id) => Untold(acc.ops, acc.unresolved, id)
  BY DEF Accounts
<1>2. /\ Planned(more) /\ more.ops = Append(acc.ops, o) /\ more.unresolved = acc.unresolved
      /\ Planned(less) /\ less.ops = acc.ops /\ less.unresolved = acc.unresolved \union {u}
  BY <1>1, Outcome
<1>3. Untold(acc.ops, acc.unresolved, mine)
  BY <1>1
<1>4. /\ 1..i - 1 \subseteq 1..i /\ i \in 1..i
      /\ \A j \in 1..i : j = i \/ j \in 1..i - 1
  OBVIOUS
<1> HIDE DEF more, less
<1>5. /\ \A id : id # mine => ItemsOf(more.ops, id) = ItemsOf(acc.ops, id)
      /\ One(ItemsOf(more.ops, mine))
  BY <1>1, <1>2, <1>3, AnOperationMore DEF Planned, Untold
<1>6. /\ \A id : id # mine => ReasonsOf(less.unresolved, id) = ReasonsOf(acc.unresolved, id)
      /\ One(ReasonsOf(less.unresolved, mine))
  <2>1. ReasonsOf(acc.unresolved, mine) = {}
    BY <1>3 DEF Untold
  <2>2. /\ \A id : id # mine =>
             ReasonsOf(acc.unresolved \union {u}, id) = ReasonsOf(acc.unresolved, id)
        /\ One(ReasonsOf(acc.unresolved \union {u}, mine))
    <3>1. u[1] = "item" /\ u[3] = mine
      OBVIOUS
    <3> HIDE DEF u, mine
    <3> QED BY <2>1, <3>1, AReasonMore
  <2> QED BY <1>2, <2>2
<1> HIDE DEF u
<1>7. /\ Settled(more.ops, more.unresolved, mine) /\ Settled(less.ops, less.unresolved, mine)
  BY <1>2, <1>3, <1>5, <1>6 DEF Settled, Untold
<1>8. \A id : id # mine =>
        /\ Settled(acc.ops, acc.unresolved, id) =>
             Settled(more.ops, more.unresolved, id) /\ Settled(less.ops, less.unresolved, id)
        /\ Untold(acc.ops, acc.unresolved, id) =>
             Untold(more.ops, more.unresolved, id) /\ Untold(less.ops, less.unresolved, id)
  BY <1>2, <1>5, <1>6 DEF Settled, Untold
<1>9. \A j \in 1..i : /\ Settled(more.ops, more.unresolved, items[j].id)
                      /\ Settled(less.ops, less.unresolved, items[j].id)
  BY <1>1, <1>4, <1>7, <1>8
<1>10. ASSUME NEW id, \A j \in 1..i : items[j].id # id
       PROVE  Untold(more.ops, more.unresolved, id) /\ Untold(less.ops, less.unresolved, id)
  BY <1>1, <1>4, <1>8, <1>10
<1>11. Accounts(items, i, more) /\ Accounts(items, i, less)
  BY <1>2, <1>9, <1>10 DEF Accounts
<1> QED BY <1>11 DEF more, less, u

Apart(items) == \A i, j \in DOMAIN items : items[i].id = items[j].id => i = j

LEMMA NothingYet ==
  ASSUME NEW items
  PROVE  Accounts(items, 0, Nothing)
<1>1. <<>> \in Seq({}) /\ DOMAIN <<>> = {}
  OBVIOUS
<1> QED BY <1>1 DEF Accounts, Planned, Nothing, IsSeq, Untold, ItemsOf, ReasonsOf

\* What the creations make of an answer's candidates.
LEMMA CandidatesAccounted ==
  ASSUME NEW report, NEW x, IsSeq(x.candidates), Apart(x.candidates)
  PROVE  Accounts(x.candidates, Len(x.candidates), Creates(report, x))
<1> DEFINE c == [report |-> report, x |-> x]
           n == Len(x.candidates)
<1>1. n \in Nat /\ DOMAIN x.candidates = 1..n
  BY Long
<1>2. ASSUME NEW i \in 1..n, NEW acc, CreateAccounts(c, i - 1, acc)
      PROVE  CreateAccounts(c, i, CreateStep(c, acc, x.candidates[i]))
  <2> DEFINE k == x.candidates[i]
             outcome == CreateOutcome(report, x, k)
             more == [acc EXCEPT !.ops = Append(@, CreateOp(k))]
             less == [acc EXCEPT !.unresolved = @ \union {<<"item", outcome, k.id>>}]
  <2>1. CreateStep(c, acc, k) \in {more, less}
    BY DEF CreateStep
  <2>2. CreateOp(k).of = k.id
    BY DEF CreateOp
  <2>3. i \in Nat \ {0} /\ \A j \in 1..i - 1 : x.candidates[j].id # k.id
    BY <1>1 DEF Apart
  <2>4. Accounts(x.candidates, i - 1, acc)
    BY <1>2 DEF CreateAccounts
  <2>5. Accounts(x.candidates, i, more) /\ Accounts(x.candidates, i, less)
    BY <2>2, <2>3, <2>4, NextItem
  <2> HIDE DEF more, less
  <2>6. Accounts(x.candidates, i, CreateStep(c, acc, k))
    BY <2>1, <2>5
  <2> QED BY <2>6 DEF CreateAccounts
<1>3. CreateAccounts(c, 0, Nothing)
  BY NothingYet DEF CreateAccounts
<1> HIDE DEF c, n
<1>4. CreateAccounts(c, n, CreateCount!Fold(c, Nothing, x.candidates))
  BY <1>1, <1>2, <1>3, CreateCount!Keeps
<1> QED BY <1>4, CreateCounts DEF CreateAccounts, c, n

\* What the appends make of its claims.
LEMMA ClaimsAccounted ==
  ASSUME NEW report, NEW x, IsSeq(x.claims), Apart(x.claims)
  PROVE  Accounts(x.claims, Len(x.claims), Appends(report, x))
<1> DEFINE c == [report |-> report, x |-> x]
           n == Len(x.claims)
<1>1. n \in Nat /\ DOMAIN x.claims = 1..n
  BY Long
<1>2. ASSUME NEW i \in 1..n, NEW acc, AppendAccounts(c, i - 1, acc)
      PROVE  AppendAccounts(c, i, AppendStep(c, acc, x.claims[i]))
  <2> DEFINE k == x.claims[i]
             outcome == AppendOutcome(report, x, acc.ops, k)
             o == AppendOp(report, acc.ops, k)
             more == [acc EXCEPT !.ops = Append(@, o)]
             less == [acc EXCEPT !.unresolved = @ \union {<<"item", outcome, k.id>>}]
  <2>1. AppendStep(c, acc, k) \in {more, less}
    BY DEF AppendStep
  <2>2. o.of = k.id
    BY DEF AppendOp
  <2>3. i \in Nat \ {0} /\ \A j \in 1..i - 1 : x.claims[j].id # k.id
    BY <1>1 DEF Apart
  <2>4. Accounts(x.claims, i - 1, acc)
    BY <1>2 DEF AppendAccounts
  <2> HIDE DEF o, outcome
  <2>5. Accounts(x.claims, i, more) /\ Accounts(x.claims, i, less)
    BY <2>2, <2>3, <2>4, NextItem
  <2> HIDE DEF more, less
  <2>6. Accounts(x.claims, i, AppendStep(c, acc, k))
    BY <2>1, <2>5
  <2> QED BY <2>6 DEF AppendAccounts
<1>3. AppendAccounts(c, 0, Nothing)
  BY NothingYet DEF AppendAccounts
<1> HIDE DEF c, n
<1>4. AppendAccounts(c, n, AppendCount!Fold(c, Nothing, x.claims))
  BY <1>1, <1>2, <1>3, AppendCount!Keeps
<1> QED BY <1>4, AppendCounts DEF AppendAccounts, c, n

(* Merging keeps the items of an answer apart: each id is scoped by its    *)
(* batch.                                                                  *)
JoinApart(c, i, all) ==
  /\ IsSeq(all) /\ Apart(all)
  /\ \A j \in DOMAIN all : \E b \in 1..i : \E l \in DOMAIN c[b] : all[j] = c[b][l]

JoinCount == INSTANCE Folding WITH Step <- JoinStep, Kept <- JoinApart

LEMMA JoinCounts ==
  ASSUME NEW seqs, NEW c
  PROVE  Joined(seqs) = JoinCount!Fold(c, <<>>, seqs)
BY DEF Joined, JoinStep, FoldLeft, MapThenFoldSet, JoinCount!Fold, Max, JoinCount!Max

\* Answers joined: apart in a batch, and across by the scope.
LEMMA JoinedApart ==
  ASSUME NEW n \in Nat, NEW seqs, DOMAIN seqs = 1..n,
         \A b \in 1..n : IsSeq(seqs[b]) /\ Apart(seqs[b]),
         \A b \in 1..n : \A l \in DOMAIN seqs[b] : seqs[b][l].id[1] = b
  PROVE  JoinApart(seqs, n, Joined(seqs))
<1>1. ASSUME NEW i \in 1..n, NEW all, JoinApart(seqs, i - 1, all)
      PROVE  JoinApart(seqs, i, JoinStep(seqs, all, seqs[i]))
  <2> DEFINE s == seqs[i]
             both == all \o s
  <2>1. /\ IsSeq(all) /\ Apart(all)
        /\ \A j \in DOMAIN all : \E b \in 1..i - 1 : \E l \in DOMAIN seqs[b] : all[j] = seqs[b][l]
    BY <1>1 DEF JoinApart
  <2>2. /\ IsSeq(both) /\ DOMAIN both = 1..(Len(all) + Len(s))
        /\ Len(all) \in Nat /\ Len(s) \in Nat
        /\ DOMAIN all = 1..Len(all) /\ DOMAIN s = 1..Len(s)
        /\ \A j \in DOMAIN all : both[j] = all[j]
        /\ \A j \in DOMAIN s : both[Len(all) + j] = s[j]
    BY <2>1, Together
  <2>3. i \in 1..i /\ 1..i - 1 \subseteq 1..i /\ 1..i - 1 \subseteq 1..n /\ i \notin 1..i - 1
    OBVIOUS
  <2>4. Apart(s) /\ \A l \in DOMAIN s : s[l].id[1] = i
    OBVIOUS
  <2> HIDE DEF both, s
  <2>5. \A j \in DOMAIN both : \/ j \in DOMAIN all /\ both[j] = all[j]
                               \/ j - Len(all) \in DOMAIN s /\ both[j] = s[j - Len(all)]
    <3> TAKE j \in DOMAIN both
    <3>1. CASE j <= Len(all)
      BY <2>2, <3>1
    <3>2. CASE ~(j <= Len(all))
      <4>1. j - Len(all) \in DOMAIN s /\ Len(all) + (j - Len(all)) = j
        BY <2>2, <3>2
      <4> QED BY <2>2, <4>1
    <3> QED BY <3>1, <3>2
  <2>6. \A j \in DOMAIN all : all[j].id[1] \in 1..i - 1
    <3> TAKE j \in DOMAIN all
    <3>1. PICK b \in 1..i - 1 : \E l \in DOMAIN seqs[b] : all[j] = seqs[b][l]
      BY <2>1
    <3> QED BY <2>3, <3>1
  <2>7. ASSUME NEW j \in DOMAIN both, NEW l \in DOMAIN both, both[j].id = both[l].id
        PROVE  j = l
    <3>1. CASE j \in DOMAIN all /\ both[j] = all[j] /\ l \in DOMAIN all /\ both[l] = all[l]
      BY <2>1, <2>7, <3>1 DEF Apart
    <3>2. CASE /\ j - Len(all) \in DOMAIN s /\ both[j] = s[j - Len(all)]
               /\ l - Len(all) \in DOMAIN s /\ both[l] = s[l - Len(all)]
      <4>1. j - Len(all) = l - Len(all)
        BY <2>4, <2>7, <3>2 DEF Apart
      <4>2. j \in Int /\ l \in Int /\ Len(all) \in Int
        BY <2>2
      <4> QED BY <4>1, <4>2
    <3>3. CASE /\ j \in DOMAIN all /\ both[j] = all[j]
               /\ l - Len(all) \in DOMAIN s /\ both[l] = s[l - Len(all)]
      BY <2>3, <2>4, <2>6, <2>7, <3>3
    <3>4. CASE /\ j - Len(all) \in DOMAIN s /\ both[j] = s[j - Len(all)]
               /\ l \in DOMAIN all /\ both[l] = all[l]
      BY <2>3, <2>4, <2>6, <2>7, <3>4
    <3> QED BY <2>5, <3>1, <3>2, <3>3, <3>4
  <2>8. \A j \in DOMAIN both : \E b \in 1..i : \E l \in DOMAIN seqs[b] : both[j] = seqs[b][l]
    BY <2>1, <2>3, <2>5 DEF s
  <2>9. JoinApart(seqs, i, both)
    BY <2>2, <2>7, <2>8 DEF JoinApart, Apart
  <2> QED BY <2>9 DEF JoinStep, both, s
<1>2. JoinApart(seqs, 0, <<>>)
  <2>1. <<>> \in Seq({}) /\ DOMAIN <<>> = {}
    OBVIOUS
  <2> QED BY <2>1 DEF JoinApart, Apart, IsSeq
<1>3. JoinApart(seqs, n, JoinCount!Fold(seqs, <<>>, seqs))
  BY <1>1, <1>2, JoinCount!Keeps
<1> QED BY <1>3, JoinCounts

\* Scoping an answer keeps its items, each under its scoped id.
LEMMA ScopedIs ==
  ASSUME NEW x, IsAnswer(x), NEW b
  PROVE  /\ IsSeq(Scoped(x, b).candidates) /\ DOMAIN Scoped(x, b).candidates = DOMAIN x.candidates
         /\ \A i \in DOMAIN x.candidates :
              Scoped(x, b).candidates[i].id = <<b, x.candidates[i].id>>
         /\ IsSeq(Scoped(x, b).claims) /\ DOMAIN Scoped(x, b).claims = DOMAIN x.claims
         /\ \A i \in DOMAIN x.claims : Scoped(x, b).claims[i].id = <<b, x.claims[i].id>>
<1> DEFINE Own(r) == [r EXCEPT !.id = <<b, @>>]
           Claim(c) ==
             [Own(c) EXCEPT !.group = IF @ = NoGroup THEN @ ELSE <<b, @>>,
                            !.mentions = [m \in DOMAIN @ |-> Own(c.mentions[m])]]
           ks == Scoped(x, b).candidates
           cs == Scoped(x, b).claims
<1>1. PICK n \in Nat : DOMAIN x.candidates = 1..n
  BY Long DEF IsAnswer, IsList, IsSeq
<1>2. PICK m \in Nat : DOMAIN x.claims = 1..m
  BY Long DEF IsAnswer, IsList, IsSeq
<1>3. /\ ks = [i \in 1..n |-> Own(x.candidates[i])]
      /\ cs = [i \in 1..m |-> Claim(x.claims[i])]
  BY <1>1, <1>2 DEF Scoped
<1>4. \A i \in 1..n : Own(x.candidates[i]).id = <<b, x.candidates[i].id>>
  <2> TAKE i \in 1..n
  <2>1. x.candidates[i] \in ToSet(x.candidates)
    BY <1>1 DEF ToSet
  <2>2. "id" \in DOMAIN x.candidates[i]
    BY <2>1 DEF IsAnswer
  <2> QED BY <2>2
<1>5. \A i \in 1..m : Claim(x.claims[i]).id = <<b, x.claims[i].id>>
  <2> TAKE i \in 1..m
  <2>1. x.claims[i] \in ToSet(x.claims)
    BY <1>2 DEF ToSet
  <2>2. DOMAIN x.claims[i] = {"id", "kind", "text", "group", "refs", "mentions"}
    BY <2>1 DEF IsAnswer
  <2>3. "id" \in DOMAIN Own(x.claims[i]) /\ Own(x.claims[i]).id = <<b, x.claims[i].id>>
    BY <2>2
  <2>4. Claim(x.claims[i]).id = Own(x.claims[i]).id
    <3> HIDE DEF Own
    <3> QED BY <2>3
  <2> QED BY <2>3, <2>4
<1> HIDE DEF Own, Claim, ks, cs
<1>6. ks \in Seq({ks[i] : i \in 1..n}) /\ cs \in Seq({cs[i] : i \in 1..m})
  <2>1. ks \in [1..n -> {ks[i] : i \in 1..n}] /\ cs \in [1..m -> {cs[i] : i \in 1..m}]
    BY <1>3
  <2> QED BY <2>1, SeqDef
<1>7. IsSeq(ks) /\ IsSeq(cs)
  BY <1>6 DEF IsSeq
<1> QED BY <1>1, <1>2, <1>3, <1>4, <1>5, <1>7 DEF ks, cs

\* No two items of the merged answers have one id.
LEMMA MergedApart ==
  ASSUME NEW n \in Nat, NEW answers \in [1..n -> Answers],
         \A b \in 1..n : DistinctIds(answers[b].candidates) /\ DistinctIds(answers[b].claims)
  PROVE  /\ Apart(Merge(answers).candidates) /\ Apart(Merge(answers).claims)
         /\ \A i \in DOMAIN Merge(answers).candidates : \A j \in DOMAIN Merge(answers).claims :
              Merge(answers).candidates[i].id # Merge(answers).claims[j].id
<1> DEFINE ks == [b \in 1..n |-> Scoped(answers[b], b).candidates]
           cs == [b \in 1..n |-> Scoped(answers[b], b).claims]
<1>1. \A b \in 1..n : answers[b] \in Answers /\ IsAnswer(answers[b])
  BY BootstrapAssumption
<1>2. Merge(answers).candidates = Joined(ks) /\ Merge(answers).claims = Joined(cs)
  BY DEF Merge
<1>3. ASSUME NEW b \in 1..n
      PROVE  /\ IsSeq(ks[b]) /\ DOMAIN ks[b] = DOMAIN answers[b].candidates
             /\ \A i \in DOMAIN ks[b] : ks[b][i].id = <<b, answers[b].candidates[i].id>>
             /\ IsSeq(cs[b]) /\ DOMAIN cs[b] = DOMAIN answers[b].claims
             /\ \A i \in DOMAIN cs[b] : cs[b][i].id = <<b, answers[b].claims[i].id>>
  BY <1>1, ScopedIs
<1>4. DOMAIN ks = 1..n /\ DOMAIN cs = 1..n
  OBVIOUS
<1> HIDE DEF ks, cs
<1>5. \A b \in 1..n : Apart(ks[b]) /\ Apart(cs[b])
  BY <1>3 DEF Apart, DistinctIds
<1>6. \A b \in 1..n : /\ \A i \in DOMAIN ks[b] : ks[b][i].id[1] = b
                      /\ \A i \in DOMAIN cs[b] : cs[b][i].id[1] = b
  BY <1>3
<1>7. JoinApart(ks, n, Joined(ks))
  BY <1>3, <1>4, <1>5, <1>6, JoinedApart
<1>8. JoinApart(cs, n, Joined(cs))
  BY <1>3, <1>4, <1>5, <1>6, JoinedApart
<1>9. ASSUME NEW i \in DOMAIN Joined(ks), NEW j \in DOMAIN Joined(cs)
      PROVE  Joined(ks)[i].id # Joined(cs)[j].id
  <2>1. PICK b \in 1..n : \E l \in DOMAIN ks[b] : Joined(ks)[i] = ks[b][l]
    BY <1>7 DEF JoinApart
  <2>2. PICK l \in DOMAIN ks[b] : Joined(ks)[i] = ks[b][l]
    BY <2>1
  <2>3. PICK d \in 1..n : \E m \in DOMAIN cs[d] : Joined(cs)[j] = cs[d][m]
    BY <1>8 DEF JoinApart
  <2>4. PICK m \in DOMAIN cs[d] : Joined(cs)[j] = cs[d][m]
    BY <2>3
  <2>5. /\ answers[b].candidates[l] \in ToSet(answers[b].candidates)
        /\ answers[d].claims[m] \in ToSet(answers[d].claims)
    BY <1>3, <2>2, <2>4 DEF ToSet
  <2>6. answers[b].candidates[l].id # answers[d].claims[m].id
    BY <1>1, <2>5, BootstrapAssumption
  <2> QED BY <1>3, <2>2, <2>4, <2>6
<1> QED BY <1>2, <1>7, <1>8, <1>9 DEF JoinApart

\* The operations of a mapping: the creations, then the appends.
LEMMA ItemsTogether ==
  ASSUME NEW s, IsSeq(s), NEW t, IsSeq(t), NEW id
  PROVE  /\ ItemsOf(t, id) = {} => ItemsOf(s \o t, id) = ItemsOf(s, id)
         /\ ItemsOf(s, id) = {} /\ One(ItemsOf(t, id)) => One(ItemsOf(s \o t, id))
<1> DEFINE both == s \o t
<1>1. /\ DOMAIN both = 1..(Len(s) + Len(t)) /\ Len(s) \in Nat /\ Len(t) \in Nat
      /\ DOMAIN s = 1..Len(s) /\ DOMAIN t = 1..Len(t)
      /\ \A i \in DOMAIN s : both[i] = s[i]
      /\ \A i \in DOMAIN t : both[Len(s) + i] = t[i]
  BY Together
<1> HIDE DEF both
<1>2. /\ \A i \in DOMAIN s : i \in DOMAIN both
      /\ \A i \in DOMAIN t : Len(s) + i \in DOMAIN both /\ i \in Int
  BY <1>1
<1>3. \A i \in DOMAIN both : i \in DOMAIN s \/ \E j \in DOMAIN t : i = Len(s) + j
  <2> TAKE i \in DOMAIN both
  <2>1. CASE i <= Len(s)
    BY <1>1, <2>1
  <2>2. CASE ~(i <= Len(s))
    <3>1. i - Len(s) \in DOMAIN t /\ i = Len(s) + (i - Len(s))
      BY <1>1, <2>2
    <3> QED BY <3>1
  <2> QED BY <2>1, <2>2
<1>4. ItemsOf(t, id) = {} => ItemsOf(both, id) = ItemsOf(s, id)
  BY <1>1, <1>2, <1>3 DEF ItemsOf
<1>5. ASSUME ItemsOf(s, id) = {}, One(ItemsOf(t, id))
      PROVE  One(ItemsOf(both, id))
  <2>1. PICK e : ItemsOf(t, id) = {e}
    BY <1>5 DEF One
  <2>2. e \in DOMAIN t /\ t[e].of = id /\ \A j \in DOMAIN t : t[j].of = id => j = e
    BY <2>1 DEF ItemsOf
  <2>3. \A i \in DOMAIN s : s[i].of # id
    BY <1>5 DEF ItemsOf
  <2>4. ItemsOf(both, id) = {Len(s) + e}
    BY <1>1, <1>2, <1>3, <2>2, <2>3 DEF ItemsOf
  <2> QED BY <2>4 DEF One
<1> QED BY <1>4, <1>5 DEF both

\* A mapping that was neither refused nor stopped for want of coverage has
\* accounted for each candidate and each claim.
LEMMA EachItemSettled ==
  ASSUME NEW report, NEW answers \in [DOMAIN Prepare(report).batches -> Answers],
         Mapping(report, answers).status # "failed",
         Uncovered \notin Mapping(report, answers).unresolved,
         NEW r \in ToSet(Merge(answers).candidates) \union ToSet(Merge(answers).claims)
  PROVE  Settled(Mapping(report, answers).ops, Mapping(report, answers).unresolved, r.id)
<1> DEFINE batches == Prepare(report).batches
           x == Merge(answers)
           c == Creates(report, x)
           a == Appends(report, x)
           m == Mapping(report, answers)
           level == RunLevelUnresolved(report)
<1>1. /\ m.ops = c.ops \o a.ops
      /\ m.unresolved = c.unresolved \union a.unresolved \union level
      /\ \A b \in DOMAIN batches : ValidAnswer(answers[b], batches[b])
  <2>1. CoverageComplete(report)
    BY DEF Mapping
  <2>2. WithinBounds(x) /\ \A b \in DOMAIN batches : ValidAnswer(answers[b], batches[b])
    BY <2>1 DEF Mapping
  <2>3. Valid(c.ops \o a.ops, Revisions(report))
    BY <2>1, <2>2 DEF Mapping
  <2> QED BY <2>1, <2>2, <2>3 DEF Mapping
<1>2. PICK n \in Nat : DOMAIN batches = 1..n
  BY BatchesAreAList, Long
<1>3. IsSeq(x.candidates) /\ IsSeq(x.claims)
  BY <1>2, MergeIs
<1>4. /\ Apart(x.candidates) /\ Apart(x.claims)
      /\ \A i \in DOMAIN x.candidates : \A j \in DOMAIN x.claims :
           x.candidates[i].id # x.claims[j].id
  BY <1>1, <1>2, MergedApart DEF ValidAnswer
<1> HIDE DEF x, m, batches
<1>5. /\ Accounts(x.candidates, Len(x.candidates), c)
      /\ Accounts(x.claims, Len(x.claims), a)
      /\ DOMAIN x.candidates = 1..Len(x.candidates) /\ DOMAIN x.claims = 1..Len(x.claims)
  BY <1>3, <1>4, CandidatesAccounted, ClaimsAccounted, Long
<1>6. \A u \in level : u[1] # "item"
  BY DEF RunLevelUnresolved
<1> HIDE DEF c, a, level
<1>7. IsSeq(c.ops) /\ IsSeq(a.ops)
  BY <1>5 DEF Accounts, Planned
<1>8. ReasonsOf(m.unresolved, r.id) = ReasonsOf(c.unresolved, r.id) \union ReasonsOf(a.unresolved, r.id)
  BY <1>1, <1>6 DEF ReasonsOf
<1>9. CASE r \in ToSet(x.candidates)
  <2>1. PICK i \in DOMAIN x.candidates : r = x.candidates[i]
    BY <1>9 DEF ToSet
  <2>2. Settled(c.ops, c.unresolved, r.id) /\ Untold(a.ops, a.unresolved, r.id)
    BY <1>4, <1>5, <2>1 DEF Accounts
  <2>3. ItemsOf(m.ops, r.id) = ItemsOf(c.ops, r.id)
    BY <1>1, <1>7, <2>2, ItemsTogether DEF Untold
  <2>4. ReasonsOf(m.unresolved, r.id) = ReasonsOf(c.unresolved, r.id)
    BY <1>8, <2>2 DEF Untold
  <2> QED BY <2>2, <2>3, <2>4 DEF Settled, m
<1>10. CASE r \in ToSet(x.claims)
  <2>1. PICK i \in DOMAIN x.claims : r = x.claims[i]
    BY <1>10 DEF ToSet
  <2>2. Settled(a.ops, a.unresolved, r.id) /\ Untold(c.ops, c.unresolved, r.id)
    BY <1>4, <1>5, <2>1 DEF Accounts
  <2>3. /\ ItemsOf(a.ops, r.id) = {} => ItemsOf(m.ops, r.id) = {}
        /\ One(ItemsOf(a.ops, r.id)) => One(ItemsOf(m.ops, r.id))
    BY <1>1, <1>7, <2>2, ItemsTogether DEF Untold
  <2>4. ReasonsOf(m.unresolved, r.id) = ReasonsOf(a.unresolved, r.id)
    BY <1>8, <2>2 DEF Untold
  <2> QED BY <2>2, <2>3, <2>4 DEF Settled, m
<1> QED BY <1>9, <1>10 DEF x

-----------------------------------------------------------------------------
(* What becomes of the sources: each is at one place of one batch, or      *)
(* skipped.                                                                *)

\* A list of a set: each element once.
Lists(s, S) ==
  /\ IsSeq(s) /\ \A i \in DOMAIN s : s[i] \in S
  /\ \A e \in S : \E i \in DOMAIN s : s[i] = e
  /\ \A i, j \in DOMAIN s : s[i] = s[j] => i = j

\* Two lists with nothing in common make one list.
LEMMA ListsTogether ==
  ASSUME NEW s, NEW S, NEW t, NEW T, Lists(s, S), Lists(t, T), S \cap T = {}
  PROVE  Lists(s \o t, S \union T)
<1> DEFINE both == s \o t
<1>1. /\ IsSeq(both) /\ DOMAIN both = 1..(Len(s) + Len(t)) /\ Len(s) \in Nat /\ Len(t) \in Nat
      /\ DOMAIN s = 1..Len(s) /\ DOMAIN t = 1..Len(t)
      /\ \A i \in DOMAIN s : both[i] = s[i]
      /\ \A i \in DOMAIN t : both[Len(s) + i] = t[i]
  BY Together DEF Lists
<1> HIDE DEF both
<1>2. /\ \A i \in DOMAIN s : i \in DOMAIN both
      /\ \A i \in DOMAIN t : Len(s) + i \in DOMAIN both
  BY <1>1
<1>3. \A i \in DOMAIN both :
        \/ i \in DOMAIN s /\ both[i] = s[i]
        \/ i - Len(s) \in DOMAIN t /\ both[i] = t[i - Len(s)]
  <2> TAKE i \in DOMAIN both
  <2>1. CASE i <= Len(s)
    BY <1>1, <2>1
  <2>2. CASE ~(i <= Len(s))
    <3>1. i - Len(s) \in DOMAIN t /\ Len(s) + (i - Len(s)) = i
      BY <1>1, <2>2
    <3> QED BY <1>1, <3>1
  <2> QED BY <2>1, <2>2
<1>4. \A i \in DOMAIN both : both[i] \in S \union T
  BY <1>3 DEF Lists
<1>5. \A e \in S \union T : \E i \in DOMAIN both : both[i] = e
  <2> TAKE e \in S \union T
  <2>1. CASE e \in S
    BY <1>1, <1>2, <2>1 DEF Lists
  <2>2. CASE e \in T
    <3>1. PICK i \in DOMAIN t : t[i] = e
      BY <2>2 DEF Lists
    <3> QED BY <1>1, <1>2, <3>1
  <2> QED BY <2>1, <2>2
<1>6. ASSUME NEW i \in DOMAIN both, NEW j \in DOMAIN both, both[i] = both[j]
      PROVE  i = j
  <2>1. CASE i \in DOMAIN s /\ both[i] = s[i] /\ j \in DOMAIN s /\ both[j] = s[j]
    BY <1>6, <2>1 DEF Lists
  <2>2. CASE /\ i - Len(s) \in DOMAIN t /\ both[i] = t[i - Len(s)]
             /\ j - Len(s) \in DOMAIN t /\ both[j] = t[j - Len(s)]
    <3>1. i - Len(s) = j - Len(s)
      BY <1>6, <2>2 DEF Lists
    <3>2. i \in Int /\ j \in Int /\ Len(s) \in Int
      BY <1>1
    <3> QED BY <3>1, <3>2
  <2>3. CASE /\ i \in DOMAIN s /\ both[i] = s[i]
             /\ j - Len(s) \in DOMAIN t /\ both[j] = t[j - Len(s)]
    BY <1>6, <2>3 DEF Lists
  <2>4. CASE /\ i - Len(s) \in DOMAIN t /\ both[i] = t[i - Len(s)]
             /\ j \in DOMAIN s /\ both[j] = s[j]
    BY <1>6, <2>4 DEF Lists
  <2> QED BY <1>3, <2>1, <2>2, <2>3, <2>4
<1>7. Lists(both, S \union T)
  BY <1>1, <1>4, <1>5, <1>6 DEF Lists
<1> QED BY <1>7 DEF both

\* The k-th of a set of numbers is the one with k - 1 below it.
Below(at, i) == {j \in at : j < i}

\* Counting how many come before it, each element has a rank of its own.
LEMMA Ranks ==
  ASSUME NEW m \in Nat, NEW at, at \subseteq 1..m
  PROVE  /\ Cardinality(at) \in Nat
         /\ \A i \in at : Cardinality(Below(at, i)) \in 0..Cardinality(at) - 1
         /\ \A i, j \in at : Cardinality(Below(at, i)) = Cardinality(Below(at, j)) => i = j
         /\ \A k \in 1..Cardinality(at) : \E i \in at : Cardinality(Below(at, i)) = k - 1
<1> DEFINE n == Cardinality(at)
           rank == [i \in at |-> Cardinality(Below(at, i))]
<1>1. IsFiniteSet(at) /\ n \in Nat
  <2>1. IsFiniteSet(1..m)
    BY FS_Interval
  <2> QED BY <2>1, FS_Subset, FS_CardinalityType
<1>2. \A i \in at : i \in Int
  OBVIOUS
<1>3. ASSUME NEW i \in at
      PROVE  /\ IsFiniteSet(Below(at, i)) /\ Cardinality(Below(at, i)) \in Nat
             /\ Cardinality(Below(at, i)) < n
  <2>1. Below(at, i) \subseteq at /\ i \notin Below(at, i)
    BY <1>2 DEF Below
  <2>2. /\ IsFiniteSet(Below(at, i)) /\ Cardinality(Below(at, i)) <= n
        /\ Cardinality(Below(at, i)) # n
    BY <1>1, <2>1, FS_Subset
  <2> QED BY <1>1, <2>2, FS_CardinalityType
<1>4. ASSUME NEW i \in at, NEW j \in at, i < j
      PROVE  Cardinality(Below(at, i)) < Cardinality(Below(at, j))
  <2>1. Below(at, i) \subseteq Below(at, j) /\ i \in Below(at, j) /\ i \notin Below(at, i)
    <3>1. \A k \in at : k < i => k < j
      BY <1>2, <1>4
    <3>2. ~(i < i)
      BY <1>2
    <3> QED BY <1>4, <3>1, <3>2 DEF Below
  <2>2. /\ Cardinality(Below(at, i)) <= Cardinality(Below(at, j))
        /\ Cardinality(Below(at, i)) # Cardinality(Below(at, j))
    BY <1>3, <2>1, FS_Subset
  <2> QED BY <1>3, <2>2
<1>5. ASSUME NEW i \in at, NEW j \in at, Cardinality(Below(at, i)) = Cardinality(Below(at, j))
      PROVE  i = j
  <2>1. i < j \/ j < i \/ i = j
    BY <1>2
  <2> QED BY <1>3, <1>4, <1>5, <2>1
<1>6. \A i \in at : Cardinality(Below(at, i)) \in 0..n - 1
  BY <1>1, <1>3
<1> HIDE DEF n
<1>7. rank \in Injection(at, 0..n - 1)
  <2>1. rank \in [at -> 0..n - 1]
    BY <1>6
  <2>2. \A i, j \in at : rank[i] = rank[j] => i = j
    BY <1>5
  <2> QED BY <2>1, <2>2 DEF Injection, IsInjective
<1>8. IsFiniteSet(0..n - 1) /\ Cardinality(0..n - 1) = n
  BY <1>1, FS_Interval
<1> HIDE DEF rank
<1>9. rank \in Surjection(at, 0..n - 1)
  BY <1>7, <1>8, FS_Injection DEF n
<1>10. ASSUME NEW k \in 1..n
       PROVE  \E i \in at : Cardinality(Below(at, i)) = k - 1
  <2>1. k - 1 \in 0..n - 1
    BY <1>1
  <2>2. PICK i \in at : rank[i] = k - 1
    BY <1>9, <2>1 DEF Surjection
  <2> QED BY <2>2 DEF rank
<1> QED BY <1>1, <1>5, <1>6, <1>10 DEF n

\* A set of paths in their order is a list of it.
LEMMA InPathOrderIs ==
  ASSUME NEW paths, paths \subseteq ToSet(PathOrder)
  PROVE  Lists(InPathOrder(paths), paths)
<1> DEFINE at == {i \in DOMAIN PathOrder : PathOrder[i] \in paths}
           n == Cardinality(at)
           Rank(i) == Cardinality(Below(at, i))
           Kth(k) == CHOOSE i \in at : Rank(i) = k - 1
           s == InPathOrder(paths)
<1>1. PICK m \in Nat : DOMAIN PathOrder = 1..m
  BY ContentAssumption, Long DEF IsList, IsSeq
<1>2. s = [k \in 1..n |-> PathOrder[Kth(k)]]
  BY DEF InPathOrder, Below
<1>3. /\ n \in Nat
      /\ \A i \in at : Rank(i) \in 0..n - 1
      /\ \A i, j \in at : Rank(i) = Rank(j) => i = j
      /\ \A k \in 1..n : \E i \in at : Rank(i) = k - 1
  <2>1. at \subseteq 1..m
    BY <1>1
  <2> HIDE DEF at
  <2> QED BY <2>1, Ranks
<1> HIDE DEF s, Rank, n
<1>4. \A k \in 1..n : Kth(k) \in at /\ Rank(Kth(k)) = k - 1
  BY <1>3
<1> HIDE DEF Kth
<1>5. \A k \in 1..n : s[k] = PathOrder[Kth(k)] /\ Kth(k) \in DOMAIN PathOrder /\ s[k] \in paths
  BY <1>2, <1>4
<1>6. DOMAIN s = 1..n /\ IsSeq(s)
  <2>1. s \in [1..n -> paths]
    BY <1>2, <1>5
  <2>2. s \in Seq(paths)
    BY <1>3, <2>1, SeqDef
  <2> QED BY <2>1, <2>2 DEF IsSeq
<1>7. ASSUME NEW k \in 1..n, NEW l \in 1..n, s[k] = s[l]
      PROVE  k = l
  <2>1. Kth(k) = Kth(l)
    BY <1>5, <1>7, ContentAssumption
  <2>2. k - 1 = l - 1
    BY <1>4, <2>1
  <2> QED BY <1>3, <2>2
<1>8. ASSUME NEW path \in paths
      PROVE  \E k \in 1..n : s[k] = path
  <2>1. PICK i \in DOMAIN PathOrder : PathOrder[i] = path
    BY DEF ToSet
  <2>2. i \in at
    BY <2>1
  <2> DEFINE k == Rank(i) + 1
  <2>3. k \in 1..n /\ k - 1 = Rank(i)
    BY <1>3, <2>2
  <2> HIDE DEF k
  <2>4. Kth(k) = i
    BY <1>3, <1>4, <2>2, <2>3
  <2> QED BY <1>5, <2>1, <2>3, <2>4
<1> QED BY <1>5, <1>6, <1>7, <1>8 DEF Lists, s

\* The sources in order: the eligible files.
LEMMA SourceOrderIs ==
  ASSUME NEW v, DOMAIN v \subseteq ToSet(PathOrder)
  PROVE  Lists(SourceOrder(Discover(v)), Eligible(v))
<1> DEFINE report == Discover(v)
           Class(class) == {path \in DOMAIN report.entries : report.entries[path].class = class}
<1>1. /\ DOMAIN report.entries = Eligible(v)
      /\ \A path \in Eligible(v) : report.entries[path].class \in {"entity", "session", "user"}
  BY DEF Discover, Eligible
<1>2. Eligible(v) \subseteq ToSet(PathOrder)
  BY DEF Eligible, Entries
<1>3. \A class : OfClass(report, class) = InPathOrder(Class(class))
  BY DEF OfClass
<1> HIDE DEF report
<1>4. \A class : Class(class) \subseteq ToSet(PathOrder)
  BY <1>1, <1>2
<1>5. \A class : Lists(OfClass(report, class), Class(class))
  <2> HIDE DEF Class
  <2> QED BY <1>3, <1>4, InPathOrderIs
<1>6. /\ Class("entity") \cap Class("session") = {}
      /\ (Class("entity") \union Class("session")) \cap Class("user") = {}
      /\ (Class("entity") \union Class("session")) \union Class("user") = Eligible(v)
  BY <1>1
<1> HIDE DEF Class
<1>7. Lists(OfClass(report, "entity") \o OfClass(report, "session"),
            Class("entity") \union Class("session"))
  BY <1>5, <1>6, ListsTogether
<1>8. Lists((OfClass(report, "entity") \o OfClass(report, "session")) \o OfClass(report, "user"),
            Eligible(v))
  BY <1>5, <1>6, <1>7, ListsTogether
<1> QED BY <1>8 DEF SourceOrder, report

\* Where a path is: at a place of a batch, in the batch being filled, or skipped.
Spots(batches, path) ==
  {q \in (DOMAIN batches) \X Nat : q[2] \in DOMAIN batches[q[1]] /\ batches[q[1]][q[2]] = path}
Turns(pending, path) == {k \in DOMAIN pending : pending[k] = path}

Sent(acc, path) ==
  One(Spots(acc.batches, path)) /\ Turns(acc.pending, path) = {} /\ path \notin DOMAIN acc.skipped
Waiting(acc, path) ==
  Spots(acc.batches, path) = {} /\ One(Turns(acc.pending, path)) /\ path \notin DOMAIN acc.skipped
Skipped(acc, path) ==
  Spots(acc.batches, path) = {} /\ Turns(acc.pending, path) = {} /\ path \in DOMAIN acc.skipped
Placed(acc, path) == Sent(acc, path) \/ Waiting(acc, path) \/ Skipped(acc, path)
Unseen(acc, path) ==
  /\ Spots(acc.batches, path) = {} /\ Turns(acc.pending, path) = {}
  /\ path \notin DOMAIN acc.skipped

Tidy(acc) == PackKept(acc, 0, acc) /\ \A b \in DOMAIN acc.batches : IsSeq(acc.batches[b])

\* From one accumulator to the next: what was placed stays so, and only the paths
\* of a set are seen for the first time.
Onwards(acc, next, paths) ==
  /\ Tidy(next)
  /\ \A q : Placed(acc, q) => Placed(next, q)
  /\ \A q : Unseen(acc, q) => IF q \in paths THEN Placed(next, q) ELSE Unseen(next, q)

\* Closing a batch moves nothing from its place.
LEMMA FlushPlaces ==
  ASSUME NEW acc, Tidy(acc)
  PROVE  Onwards(acc, Flush(acc), {}) /\ Flush(acc).pending = <<>>
<1>1. PackKept(acc, 0, Flush(acc))
  BY FlushIs DEF Tidy
<1>2. CASE acc.pending = <<>>
  BY <1>2 DEF Flush, Onwards
<1>3. CASE acc.pending # <<>>
  <2> DEFINE next == Flush(acc)
             more == Append(acc.batches, acc.pending)
             e == Len(acc.batches) + 1
  <2>1. /\ next.batches = more /\ next.pending = <<>> /\ next.skipped = acc.skipped
    BY <1>3 DEF Flush, Tidy, PackKept
  <2>2. /\ IsSeq(acc.pending) /\ DOMAIN more = 1..e
        /\ DOMAIN acc.batches = 1..Len(acc.batches) /\ Len(acc.batches) \in Nat
        /\ more[e] = acc.pending /\ \A b \in DOMAIN acc.batches : more[b] = acc.batches[b]
    BY Longer DEF Tidy, PackKept
  <2>3. /\ \A b \in DOMAIN more : b = e \/ b \in DOMAIN acc.batches
        /\ \A b \in DOMAIN acc.batches : b \in DOMAIN more /\ b # e
        /\ e \in DOMAIN more
    BY <2>2
  <2>4. \A k \in DOMAIN acc.pending : k \in Nat
    BY <2>2, Long
  <2> HIDE DEF next, more, e
  <2>5. Tidy(next)
    BY <1>1, <2>1, <2>2, <2>3 DEF Tidy, PackKept, next
  <2>6. \A q : Turns(next.pending, q) = {}
    <3>1. DOMAIN <<>> = {}
      OBVIOUS
    <3> QED BY <2>1, <3>1 DEF Turns
  <2>7. \A q : Turns(acc.pending, q) = {} => Spots(next.batches, q) = Spots(acc.batches, q)
    <3> TAKE q
    <3> SUFFICES ASSUME Turns(acc.pending, q) = {}
                 PROVE  Spots(more, q) = Spots(acc.batches, q)
      BY <2>1
    <3>1. \A k \in DOMAIN acc.pending : acc.pending[k] # q
      BY DEF Turns
    <3> QED BY <2>2, <2>3, <3>1 DEF Spots
  <2>8. \A q : Spots(acc.batches, q) = {} /\ One(Turns(acc.pending, q)) => One(Spots(next.batches, q))
    <3> SUFFICES ASSUME NEW q, NEW k, Spots(acc.batches, q) = {}, Turns(acc.pending, q) = {k}
                 PROVE  One(Spots(more, q))
      BY <2>1 DEF One
    <3>1. k \in DOMAIN acc.pending /\ acc.pending[k] = q
      BY DEF Turns
    <3>2. \A l \in DOMAIN acc.pending : acc.pending[l] = q => l = k
      BY DEF Turns
    <3>3. <<e, k>> \in Spots(more, q)
      BY <2>2, <2>3, <2>4, <3>1 DEF Spots
    <3>4. ASSUME NEW s \in Spots(more, q)
          PROVE  s = <<e, k>>
      <4>1. /\ s \in (DOMAIN more) \X Nat /\ s[2] \in DOMAIN more[s[1]] /\ more[s[1]][s[2]] = q
        BY DEF Spots
      <4>2. s[1] \notin DOMAIN acc.batches
        <5> SUFFICES ASSUME s[1] \in DOMAIN acc.batches
                     PROVE  FALSE
          OBVIOUS
        <5>1. s \in Spots(acc.batches, q)
          BY <2>2, <4>1 DEF Spots
        <5> QED BY <5>1
      <4>3. s[1] = e /\ s[2] = k
        BY <2>2, <2>3, <3>2, <4>1, <4>2
      <4> QED BY <4>1, <4>3
    <3>5. Spots(more, q) = {<<e, k>>}
      BY <3>3, <3>4
    <3> QED BY <3>5 DEF One
  <2>9. \A q : Placed(acc, q) => Placed(next, q)
    BY <2>1, <2>6, <2>7, <2>8 DEF Placed, Sent, Waiting, Skipped
  <2>10. \A q : Unseen(acc, q) => Unseen(next, q)
    BY <2>1, <2>6, <2>7 DEF Unseen
  <2> QED BY <2>1, <2>5, <2>9, <2>10 DEF Onwards, next
<1> QED BY <1>2, <1>3

\* Skipping a path gives it no place.
LEMMA SkipPlaces ==
  ASSUME NEW acc, Tidy(acc), NEW path, Unseen(acc, path), NEW reason
  PROVE  Onwards(acc, Skip(acc, path, reason), {path})
<1> DEFINE next == Skip(acc, path, reason)
<1>1. /\ next.batches = acc.batches /\ next.pending = acc.pending
      /\ DOMAIN next.skipped = DOMAIN acc.skipped \union {path}
  BY DEF Skip, Over, Tidy, PackKept
<1>2. Tidy(next)
  <2>1. PackKept(acc, 0, next)
    BY SkipIs DEF Tidy
  <2> QED BY <1>1, <2>1 DEF Tidy, PackKept
<1> HIDE DEF next
<1>3. Skipped(next, path)
  BY <1>1 DEF Unseen, Skipped
<1>4. \A q : q # path => (Placed(acc, q) => Placed(next, q)) /\ (Unseen(acc, q) => Unseen(next, q))
  BY <1>1 DEF Placed, Sent, Waiting, Skipped, Unseen
<1> QED BY <1>2, <1>3, <1>4 DEF Onwards, Placed, next

\* A path added to the batch in the making gets one place.
LEMMA TurnPlaces ==
  ASSUME NEW acc, Tidy(acc), NEW path, Unseen(acc, path), NEW chars
  PROVE  Onwards(acc, [acc EXCEPT !.pending = Append(@, path), !.chars = chars], {path})
<1> DEFINE next == [acc EXCEPT !.pending = Append(@, path), !.chars = chars]
           more == Append(acc.pending, path)
           e == Len(acc.pending) + 1
<1>1. /\ next.batches = acc.batches /\ next.pending = more /\ next.skipped = acc.skipped
      /\ DOMAIN next = DOMAIN acc
  BY DEF Tidy, PackKept
<1>2. /\ IsSeq(more) /\ DOMAIN more = 1..e /\ DOMAIN acc.pending = 1..Len(acc.pending)
      /\ Len(acc.pending) \in Nat /\ more[e] = path
      /\ \A k \in DOMAIN acc.pending : more[k] = acc.pending[k]
  BY Longer DEF Tidy, PackKept
<1>3. /\ \A k \in DOMAIN more : k = e \/ k \in DOMAIN acc.pending
      /\ \A k \in DOMAIN acc.pending : k \in DOMAIN more
      /\ e \in DOMAIN more
  BY <1>2
<1> HIDE DEF next, more, e
<1>4. Tidy(next)
  BY <1>1, <1>2 DEF Tidy, PackKept
<1>5. \A q : q # path => Turns(more, q) = Turns(acc.pending, q)
  BY <1>2, <1>3 DEF Turns
<1>6. Turns(more, path) = {e}
  <2>1. \A k \in DOMAIN acc.pending : acc.pending[k] # path
    BY DEF Unseen, Turns
  <2> QED BY <1>2, <1>3, <2>1 DEF Turns
<1>7. Waiting(next, path)
  BY <1>1, <1>6 DEF Waiting, Unseen, One
<1>8. \A q : q # path => (Placed(acc, q) => Placed(next, q)) /\ (Unseen(acc, q) => Unseen(next, q))
  BY <1>1, <1>5 DEF Placed, Sent, Waiting, Skipped, Unseen
<1> QED BY <1>4, <1>7, <1>8 DEF Onwards, Placed, next

LEMMA OnwardsTwice ==
  ASSUME NEW acc, NEW mid, NEW next, NEW paths, NEW others,
         Onwards(acc, mid, paths), Onwards(mid, next, others)
  PROVE  Onwards(acc, next, paths \union others)
BY DEF Onwards

\* One step of packing puts its path at one place, or skips it.
LEMMA PackPlaces ==
  ASSUME NEW acc, Tidy(acc), NEW path, Unseen(acc, path), NEW size
  PROVE  Onwards(acc, Pack(acc, path, size), {path})
<1> DEFINE apart == acc.pending # <<>> /\ acc.chars + 1 + size > MaxContext
           room  == IF apart THEN Flush(acc) ELSE acc
           sep   == IF room.pending = <<>> THEN 0 ELSE 1
           chars == room.chars + sep + size
           added == [room EXCEPT !.pending = Append(@, path), !.chars = chars]
<1>1. Onwards(acc, room, {})
  BY FlushPlaces DEF Onwards
<1>2. Pack(acc, path, size) \in {Skip(room, path, "batch_limit"), Flush(added), added}
  <2>1. [room EXCEPT !.pending = Append(@, path), !.chars = @ + sep + size] = added
    OBVIOUS
  <2> HIDE DEF added
  <2> QED BY <2>1 DEF Pack
<1> HIDE DEF room, chars
<1>3. Tidy(room) /\ Unseen(room, path)
  BY <1>1 DEF Onwards
<1>4. Onwards(room, Skip(room, path, "batch_limit"), {path})
  BY <1>3, SkipPlaces
<1>5. Onwards(room, added, {path})
  BY <1>3, TurnPlaces
<1> HIDE DEF added
<1>6. Onwards(added, Flush(added), {})
  BY <1>5, FlushPlaces DEF Onwards
<1>7. Onwards(room, Flush(added), {path})
  BY <1>5, <1>6, OnwardsTwice
<1>8. Onwards(room, Pack(acc, path, size), {path})
  BY <1>2, <1>4, <1>5, <1>7
<1> QED BY <1>1, <1>8, OnwardsTwice

PackPlaced(report, i, acc) ==
  /\ Tidy(acc)
  /\ \A path : IF \E j \in 1..i : SourceOrder(report)[j] = path
               THEN Placed(acc, path) ELSE Unseen(acc, path)

PackCount == INSTANCE Folding WITH Step <- PackStep, Kept <- PackPlaced

LEMMA PackCounts ==
  ASSUME NEW report
  PROVE  LET packed == Flush(PackCount!Fold(report, Unpacked, SourceOrder(report))) IN
         Prepare(report) = [batches |-> packed.batches, skipped |-> packed.skipped]
BY DEF Prepare, PackStep, Unpacked, FoldLeft, MapThenFoldSet, PackCount!Fold, Max, PackCount!Max

(* Of a vault's files, each eligible one is at one place of the batches or *)
(* skipped, and nothing else is in them.                                   *)
LEMMA EachSourcePlaced ==
  ASSUME NEW v, DOMAIN v \subseteq ToSet(PathOrder)
  PROVE  LET prepared == Prepare(Discover(v)) IN
         /\ \A b \in DOMAIN prepared.batches : IsSeq(prepared.batches[b])
         /\ \A path : IF path \notin Eligible(v) THEN Spots(prepared.batches, path) = {}
                      ELSE IF path \in DOMAIN prepared.skipped
                           THEN Spots(prepared.batches, path) = {}
                           ELSE One(Spots(prepared.batches, path))
<1> DEFINE report == Discover(v)
           order == SourceOrder(report)
           acc == PackCount!Fold(report, Unpacked, order)
           last == Flush(acc)
<1>1. Lists(order, Eligible(v))
  BY SourceOrderIs
<1> HIDE DEF report
<1>2. PICK n \in Nat : DOMAIN order = 1..n
  BY <1>1, Long DEF Lists
<1>3. ASSUME NEW i \in 1..n, NEW a, PackPlaced(report, i - 1, a)
      PROVE  PackPlaced(report, i, PackStep(report, a, order[i]))
  <2> DEFINE path == order[i]
             entry == report.entries[path]
             next == PackStep(report, a, path)
  <2>1. next \in {Skip(a, path, entry.status), Skip(a, path, "too_large"), Pack(a, path, entry.size)}
    BY DEF PackStep, AddSource
  <2>2. /\ 1..i - 1 \subseteq 1..i /\ i \in 1..i /\ i \notin 1..i - 1
        /\ \A j \in 1..i : j = i \/ j \in 1..i - 1
        /\ 1..i - 1 \subseteq DOMAIN order /\ i \in DOMAIN order
    BY <1>2
  <2>3. \A j \in 1..i - 1 : order[j] # path
    BY <1>1, <2>2 DEF Lists
  <2> HIDE DEF path, entry, next
  <2>4. Tidy(a) /\ Unseen(a, path)
    BY <1>3, <2>3 DEF PackPlaced
  <2>5. Onwards(a, next, {path})
    BY <2>1, <2>4, SkipPlaces, PackPlaces
  <2>6. ASSUME NEW q
        PROVE  IF \E j \in 1..i : order[j] = q THEN Placed(next, q) ELSE Unseen(next, q)
    <3>1. CASE q = path
      BY <2>2, <2>4, <2>5, <3>1 DEF Onwards, path
    <3>2. CASE q # path
      <4>1. (\E j \in 1..i : order[j] = q) <=> \E j \in 1..i - 1 : order[j] = q
        BY <2>2, <3>2 DEF path
      <4>2. IF \E j \in 1..i - 1 : order[j] = q THEN Placed(a, q) ELSE Unseen(a, q)
        BY <1>3 DEF PackPlaced
      <4> QED BY <2>5, <3>2, <4>1, <4>2 DEF Onwards
    <3> QED BY <3>1, <3>2
  <2>7. Tidy(next)
    BY <2>5 DEF Onwards
  <2> QED BY <2>6, <2>7 DEF PackPlaced, next, path
<1>4. PackPlaced(report, 0, Unpacked)
  <2>1. <<>> \in Seq({}) /\ DOMAIN <<>> = {}
    OBVIOUS
  <2>2. /\ Unpacked.batches = <<>> /\ Unpacked.pending = <<>> /\ Unpacked.skipped = <<>>
        /\ DOMAIN Unpacked = {"batches", "pending", "chars", "skipped"}
    BY DEF Unpacked
  <2>3. Tidy(Unpacked)
    BY <2>1, <2>2 DEF Tidy, PackKept, IsSeq
  <2>4. \A q : Unseen(Unpacked, q)
    BY <2>1, <2>2 DEF Unseen, Spots, Turns
  <2>5. 1..0 = {}
    OBVIOUS
  <2> QED BY <2>3, <2>4, <2>5 DEF PackPlaced
<1>5. PackPlaced(report, n, acc)
  BY <1>2, <1>3, <1>4, PackCount!Keeps
<1>6. Prepare(report) = [batches |-> last.batches, skipped |-> last.skipped]
  BY PackCounts
<1> HIDE DEF acc
<1>7. Onwards(acc, last, {}) /\ last.pending = <<>>
  BY <1>5, FlushPlaces DEF PackPlaced
<1> HIDE DEF last
<1>8. \A b \in DOMAIN last.batches : IsSeq(last.batches[b])
  BY <1>7 DEF Onwards, Tidy
<1>9. \A q : Turns(last.pending, q) = {}
  <2>1. DOMAIN <<>> = {}
    OBVIOUS
  <2> QED BY <1>7, <2>1 DEF Turns
<1>10. \A q : ~Waiting(last, q)
  BY <1>9 DEF Waiting, One
<1>11. ASSUME NEW q \in Eligible(v)
       PROVE  Sent(last, q) \/ Skipped(last, q)
  <2>1. \E j \in 1..n : order[j] = q
    BY <1>1, <1>2 DEF Lists
  <2>2. Placed(last, q)
    BY <1>5, <1>7, <2>1 DEF PackPlaced, Onwards
  <2> QED BY <1>10, <2>2 DEF Placed
<1>12. ASSUME NEW q, q \notin Eligible(v)
       PROVE  Unseen(last, q)
  <2>1. ~\E j \in 1..n : order[j] = q
    BY <1>1, <1>2, <1>12 DEF Lists
  <2>2. Unseen(acc, q)
    BY <1>5, <2>1 DEF PackPlaced
  <2> QED BY <1>7, <2>2 DEF Onwards
<1> QED BY <1>6, <1>8, <1>11, <1>12 DEF Sent, Skipped, Unseen, report

\* No batch is longer than the vault has files.
LEMMA SpotsInVault ==
  ASSUME NEW v, DOMAIN v \subseteq ToSet(PathOrder), NEW path,
         NEW q \in Spots(Prepare(Discover(v)).batches, path)
  PROVE  q[2] \in 1..Cardinality(DOMAIN v)
<1> DEFINE batches == Prepare(Discover(v)).batches
           batch == batches[q[1]]
<1>1. /\ \A b \in DOMAIN batches : IsSeq(batches[b])
      /\ \A p : Spots(batches, p) = {} \/ One(Spots(batches, p))
      /\ \A p : Spots(batches, p) # {} => p \in Eligible(v)
  BY EachSourcePlaced
<1> HIDE DEF batches
<1>2. /\ q \in (DOMAIN batches) \X Nat /\ q[2] \in DOMAIN batch
  BY DEF Spots, batches
<1>3. Len(batch) \in Nat /\ DOMAIN batch = 1..Len(batch) /\ q[1] \in DOMAIN batches
  BY <1>1, <1>2, Long
<1>4. \A k \in DOMAIN batch : <<q[1], k>> \in Spots(batches, batch[k])
  BY <1>3 DEF Spots
<1>5. \A k \in DOMAIN batch : batch[k] \in DOMAIN v
  BY <1>1, <1>4 DEF Eligible, Entries
<1>6. ASSUME NEW k \in DOMAIN batch, NEW l \in DOMAIN batch, batch[k] = batch[l]
      PROVE  k = l
  <2>1. <<q[1], k>> \in Spots(batches, batch[k]) /\ <<q[1], l>> \in Spots(batches, batch[k])
    BY <1>4, <1>6
  <2>2. <<q[1], k>> = <<q[1], l>>
    BY <1>1, <2>1 DEF One
  <2> QED BY <2>2
<1>7. IsFiniteSet(DOMAIN v)
  <2>1. PICK m \in Nat : DOMAIN PathOrder = 1..m
    BY ContentAssumption, Long DEF IsList, IsSeq
  <2>2. PathOrder \in [1..m -> ToSet(PathOrder)]
    BY <2>1, ContentAssumption DEF IsList, ToSet
  <2>3. PathOrder \in Surjection(1..m, ToSet(PathOrder))
    BY <2>1, <2>2 DEF Surjection, ToSet
  <2>4. IsFiniteSet(ToSet(PathOrder))
    BY <2>3, FS_Interval, FS_Surjection
  <2> QED BY <2>4, FS_Subset
<1> DEFINE f == [k \in DOMAIN batch |-> batch[k]]
<1>8. f \in Injection(DOMAIN batch, DOMAIN v)
  <2>1. f \in [DOMAIN batch -> DOMAIN v]
    BY <1>5
  <2>2. \A k, l \in DOMAIN batch : f[k] = f[l] => k = l
    BY <1>6
  <2> QED BY <2>1, <2>2 DEF Injection, IsInjective
<1> HIDE DEF f
<1>9. Cardinality(DOMAIN batch) <= Cardinality(DOMAIN v) /\ Cardinality(DOMAIN v) \in Nat
  BY <1>7, <1>8, FS_Injection, FS_CardinalityType
<1>10. Cardinality(DOMAIN batch) = Len(batch)
  <2> DEFINE length == Len(batch)
  <2>1. length \in Nat /\ DOMAIN batch = 1..length
    BY <1>3
  <2> HIDE DEF length
  <2>2. Cardinality(1..length) = IF 1 > length THEN 0 ELSE length - 1 + 1
    BY <2>1, FS_Interval
  <2>3. Cardinality(1..length) = length
    BY <2>1, <2>2
  <2> QED BY <2>1, <2>3 DEF length
<1> QED BY <1>2, <1>3, <1>9, <1>10

(* Nothing is lost on the way to the model and back, whatever the notes,   *)
(* the limits and the answers: prepare_bootstrap_input sends or skips each *)
(* eligible file, and run_bootstrap_mapping makes an operation of each     *)
(* candidate and claim or gives a reason.                                  *)
THEOREM NothingIsLost == Spec => []MappingAccountsForAll
<1>1. ASSUME Init
      PROVE  MappingAccountsForAll
  <2> DEFINE report == Discover(vault)
             prepared == Prepare(report)
             batches == prepared.batches
             Places(path) == {q \in (DOMAIN batches) \X (1..Cardinality(DOMAIN vault)) :
                                q[2] \in DOMAIN batches[q[1]] /\ batches[q[1]][q[2]] = path}
  <2>1. DOMAIN vault \subseteq ToSet(PathOrder)
    BY <1>1, CampaignAssumption DEF Init, InitCampaign
  <2>2. ASSUME NEW path \in Eligible(vault)
        PROVE  Cardinality(Places(path)) = IF path \in DOMAIN prepared.skipped THEN 0 ELSE 1
    <3>1. \A q \in Spots(batches, path) : q[2] \in 1..Cardinality(DOMAIN vault)
      BY <2>1, SpotsInVault
    <3>2. IF path \in DOMAIN prepared.skipped THEN Spots(batches, path) = {}
                                              ELSE One(Spots(batches, path))
      BY <2>1, EachSourcePlaced
    <3> HIDE DEF prepared
    <3>3. \A k \in 1..Cardinality(DOMAIN vault) : k \in Nat
      OBVIOUS
    <3>4. Places(path) = Spots(batches, path)
      BY <3>1, <3>3 DEF Spots
    <3> HIDE DEF Places
    <3> QED BY <3>2, <3>4, FS_EmptySet, FS_Singleton DEF One
  <2>3. ASSUME NEW answers \in [DOMAIN batches -> Answers],
               Mapping(report, answers).status # "failed",
               Uncovered \notin Mapping(report, answers).unresolved,
               NEW r \in ToSet(Merge(answers).candidates) \union ToSet(Merge(answers).claims)
        PROVE  Cardinality({i \in DOMAIN Mapping(report, answers).ops :
                              Mapping(report, answers).ops[i].of = r.id})
                 + Cardinality({u \in Mapping(report, answers).unresolved :
                                  u[1] = "item" /\ u[3] = r.id}) = 1
    <3> DEFINE m == Mapping(report, answers)
    <3>1. Settled(m.ops, m.unresolved, r.id)
      BY <2>3, EachItemSettled
    <3> HIDE DEF m
    <3>2. Cardinality(ItemsOf(m.ops, r.id)) + Cardinality(ReasonsOf(m.unresolved, r.id)) = 1
      <4>1. Cardinality({}) = 0
        BY FS_EmptySet
      <4>2. \A S : One(S) => Cardinality(S) = 1
        BY FS_Singleton DEF One
      <4>3. CASE One(ItemsOf(m.ops, r.id)) /\ ReasonsOf(m.unresolved, r.id) = {}
        BY <4>1, <4>2, <4>3
      <4>4. CASE ItemsOf(m.ops, r.id) = {} /\ One(ReasonsOf(m.unresolved, r.id))
        BY <4>1, <4>2, <4>4
      <4> QED BY <3>1, <4>3, <4>4 DEF Settled
    <3> QED BY <3>2 DEF ItemsOf, ReasonsOf, m
  <2> HIDE DEF report
  <2> QED BY <2>2, <2>3 DEF MappingAccountsForAll, report
<1>2. MappingAccountsForAll
  BY <1>1 DEF MappingAccountsForAll
<1> QED BY <1>2, PTL
=============================================================================
