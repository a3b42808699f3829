-------------------------- MODULE PostSessionContent --------------------------
(***************************************************************************)
(* The pure half of post-session processing: what is prepared from a       *)
(* session, what a model answer is accepted as, which ChangeSet it becomes *)
(* and what the summary and the recap may tell.  No state is kept here.    *)
(*                                                                         *)
(* A document is [type, rev, name, aliases, vis, body]: aliases a set of   *)
(* names, body the sequence of its facts.  A claim is                      *)
(* [id, kind, hint, text, evidence, mentions], a mention                   *)
(* [id, text, type, candidate], a candidate [id, type, name, evidence].    *)
(* An entity id is <<session, type, name>>: the digest the allocator takes *)
(* of the three is injective.                                              *)
(***************************************************************************)
EXTENDS Integers, SequencesExt, Functions

CONSTANTS
  NormalForm,      \* name -> its exact-match normal form
  NoEntity,        \* a mention without candidate_entity_id
  SupportedTypes,
  MaxEntities,     \* MAX_ENTITY_PROJECTIONS
  MaxBody,         \* MAX_ENTITY_BODY_CHARS, in facts
  MaxMentions      \* MAX_ENTITY_MENTIONS_PER_CLAIM

Normalized(name) == NormalForm[name]

Allocate(session, type, name) == <<session, type, Normalized(name)>>

(***************************************************************************)
(* The prepared input: the session as read, its events, and the touched    *)
(* entities as they are now.  The whole record is the fingerprint.         *)
(***************************************************************************)
FirstOccurrences(seq) ==
  FoldLeft(LAMBDA out, e : IF Contains(out, e) THEN out ELSE Append(out, e), <<>>, seq)

Projection(doc) ==
  [type |-> doc.type, rev |-> doc.rev, name |-> doc.name, vis |-> doc.vis, body |-> doc.body]

TooLarge(docs, touched) ==
  \/ Len(touched) > MaxEntities
  \/ \E id \in ToSet(touched) : Len(docs[id].body) > MaxBody

PreparedInput(session, docs) ==
  LET touched == FirstOccurrences(session.touched) IN
  [session  |-> session.id,
   rev      |-> session.rev,
   events   |-> session.events,
   entities |-> [id \in ToSet(touched) |-> Projection(docs[id])]]

(***************************************************************************)
(* Accepting an extraction.                                                *)
(***************************************************************************)
Mentions(x) == FlattenSeq([c \in DOMAIN x.claims |-> x.claims[c].mentions])

DistinctIds(seq) == \A i, j \in DOMAIN seq : seq[i].id = seq[j].id => i = j

ValidEvidence(evidence, prepared) == evidence # {} /\ evidence \subseteq prepared.events

ValidExtraction(x, prepared) ==
  /\ DistinctIds(x.claims) /\ DistinctIds(Mentions(x)) /\ DistinctIds(x.candidates)
  /\ \A c \in ToSet(x.claims) :
       /\ ValidEvidence(c.evidence, prepared)
       /\ Len(c.mentions) <= MaxMentions
  /\ \A m \in ToSet(Mentions(x)) : m.type \in SupportedTypes
  /\ \A k \in ToSet(x.candidates) :
       ValidEvidence(k.evidence, prepared) /\ k.type \in SupportedTypes

\* A mention is trusted when the model names a prepared entity of its type.
Trusted(m, prepared) ==
  /\ m.candidate \in DOMAIN prepared.entities
  /\ prepared.entities[m.candidate].type = m.type

TrustedEntities(c, prepared) ==
  {m.candidate : m \in {n \in ToSet(c.mentions) : Trusted(n, prepared)}}

HasUnresolved(c, prepared) == \E m \in ToSet(c.mentions) : ~Trusted(m, prepared)

(***************************************************************************)
(* Exact matching against the repository as it is now.                     *)
(***************************************************************************)
Names(doc) == {Normalized(doc.name)}
Aliases(doc) == {Normalized(a) : a \in doc.aliases}

\* Exact name within the type, else exact alias within the type.
ResolveTargets(docs, text, type) ==
  LET Of(keys(_)) == {id \in DOMAIN docs : docs[id].type = type /\ Normalized(text) \in keys(docs[id])}
  IN IF Of(Names) # {} THEN Of(Names) ELSE Of(Aliases)

AnyTypeMatches(docs, name) ==
  {id \in DOMAIN docs : Normalized(name) \in Names(docs[id]) \union Aliases(docs[id])}

ProjectionMatches(docs, id, prepared) ==
  id \in DOMAIN docs /\ Projection(docs[id]) = prepared.entities[id]

(***************************************************************************)
(* Entities to create: one per candidate whose name is nowhere yet.        *)
(***************************************************************************)
IdOfDisplayName(session, k) ==     \* mutant: the id is taken of the name as displayed
  [op |-> "create", id |-> <<session, k.type, k.name>>, type |-> k.type, name |-> k.name]
CreateOp(session, k) ==
  [op |-> "create", id |-> Allocate(session, k.type, k.name), type |-> k.type, name |-> k.name]

Claimants(x, session, id) ==
  {i \in DOMAIN x.candidates :
     Allocate(session, x.candidates[i].type, x.candidates[i].name) = id}

CreateConflicts(docs, x, session, k) ==
  LET id == Allocate(session, k.type, k.name) IN
  \/ Cardinality(Claimants(x, session, id)) > 1
  \/ id \in DOMAIN docs
  \/ AnyTypeMatches(docs, k.name) # {}

Creates(docs, x, session) ==
  FoldLeft(
    LAMBDA ops, k :
      IF \/ CreateConflicts(docs, x, session, k)
         \/ \E o \in ToSet(ops) : Normalized(o.name) = Normalized(k.name)
      THEN ops
      ELSE Append(ops, CreateOp(session, k)),
    <<>>, x.candidates)

(***************************************************************************)
(* Facts to append: one per fact or event claim about exactly one current, *)
(* unchanged, non-system prepared entity.                                  *)
(***************************************************************************)
\* The fold of one claim's mentions: the targets and whether one is unresolved.
TargetsOf(docs, c, prepared) ==
  FoldLeft(
    LAMBDA acc, m :
      LET found == ResolveTargets(docs, m.text, m.type) IN
      IF Trusted(m, prepared) /\ m.candidate \notin acc.ids
      THEN [acc EXCEPT !.ids = @ \union {m.candidate}]
      ELSE IF Cardinality(found) = 1
      THEN [acc EXCEPT !.ids = @ \union found]
      ELSE [acc EXCEPT !.open = TRUE],
    [ids |-> {}, open |-> FALSE], c.mentions)

Target(docs, c, prepared) == CHOOSE id \in TargetsOf(docs, c, prepared).ids : TRUE

Appendable(docs, c, prepared) ==
  LET t == TargetsOf(docs, c, prepared) IN
  /\ c.kind \in {"fact", "event"}
  /\ Cardinality(t.ids) = 1 /\ ~t.open
  /\ LET id == Target(docs, c, prepared) IN
     /\ id \in DOMAIN prepared.entities
     /\ ProjectionMatches(docs, id, prepared)
     /\ docs[id].vis # "system"

AppendOp(ops, c, id, prepared) ==
  [op |-> "append", id |-> id, fact |-> c.text,
   expected |-> prepared.entities[id].rev + Cardinality({i \in DOMAIN ops : ops[i].id = id})]

DuplicateInBodyOnly(docs, ops, c, id) ==     \* mutant: facts emitted earlier forgotten
  Contains(docs[id].body, c.text)
DuplicateFact(docs, ops, c, id) ==
  \/ Contains(docs[id].body, c.text)
  \/ \E o \in ToSet(ops) : o.id = id /\ o.fact = c.text

Appends(docs, x, prepared) ==
  FoldLeft(
    LAMBDA ops, c :
      LET id == Target(docs, c, prepared) IN
      IF Appendable(docs, c, prepared) /\ ~DuplicateFact(docs, ops, c, id)
      THEN Append(ops, AppendOp(ops, c, id, prepared))
      ELSE ops,
    <<>>, x.claims)

\* The planned operations; none of them is the outcome NO_CHANGES.
Plan(docs, x, prepared) ==
  Creates(docs, x, prepared.session) \o Appends(docs, x, prepared)

(***************************************************************************)
(* The preflight: every operation against the repository as re-read, the   *)
(* earlier operations' effect on revisions projected.                      *)
(***************************************************************************)
Touching(ops, i, id, kind) == {j \in 1..i - 1 : ops[j].id = id /\ ops[j].op = kind}

ProjectedRevision(docs, ops, i) ==
  LET id == ops[i].id IN
  (IF id \in DOMAIN docs THEN docs[id].rev ELSE 1)
    + Cardinality(Touching(ops, i, id, "append"))

OperationValid(docs, ops, i) ==
  LET id == ops[i].id
      created == Touching(ops, i, id, "create") # {}
  IN IF ops[i].op = "create"
     THEN ~created /\ id \notin DOMAIN docs
     ELSE /\ id \in DOMAIN docs \/ created
          /\ ops[i].expected = ProjectedRevision(docs, ops, i)

PreflightOk(docs, ops) == \A i \in DOMAIN ops : OperationValid(docs, ops, i)

(***************************************************************************)
(* Applying one operation of a proposal to the vault.                      *)
(***************************************************************************)
NewDocument(o) ==
  [type |-> o.type, rev |-> 1, name |-> o.name, aliases |-> {}, vis |-> "dm", body |-> <<>>]

ApplyOp(docs, o) ==
  IF o.op = "create"
  THEN [id \in DOMAIN docs \union {o.id} |-> IF id = o.id THEN NewDocument(o) ELSE docs[id]]
  ELSE [docs EXCEPT ![o.id].rev = @ + 1, ![o.id].body = Append(@, o.fact)]

\* An approved proposal is validated whole, then applied operation by operation.
ApplyAll(docs, ops) == IF PreflightOk(docs, ops) THEN FoldLeft(ApplyOp, docs, ops) ELSE docs

(***************************************************************************)
(* What the texts may tell.                                                *)
(***************************************************************************)
EntityRef(prepared, id) ==
  [id |-> id, name |-> prepared.entities[id].name, type |-> prepared.entities[id].type]

SomePlayerEntity(c, prepared) ==     \* mutant: one player-visible entity is enough
  \E id \in TrustedEntities(c, prepared) : prepared.entities[id].vis = "player"
OnlyPlayerEntities(c, prepared) ==
  /\ TrustedEntities(c, prepared) # {}
  /\ \A id \in TrustedEntities(c, prepared) : prepared.entities[id].vis = "player"

InRecap(c, prepared) ==
  /\ c.hint = "player"
  /\ ~HasUnresolved(c, prepared)
  /\ OnlyPlayerEntities(c, prepared)

ClaimText(c) == [id |-> c.id, kind |-> c.kind, text |-> c.text]

InOrder(cs, prepared) ==
  FoldLeft(LAMBDA told, c : IF InRecap(c, prepared) THEN Append(told, c) ELSE told, <<>>, cs)

RecapProjection(x, prepared) ==
  LET told == InOrder(x.claims, prepared) IN
  [claims   |-> [i \in DOMAIN told |-> ClaimText(told[i])],
   entities |-> {EntityRef(prepared, id) :
                   id \in UNION {TrustedEntities(c, prepared) : c \in ToSet(told)}}]

InSummary(c, prepared) ==
  \A id \in TrustedEntities(c, prepared) : prepared.entities[id].vis # "system"

UnresolvedMentions(c, prepared) ==
  {<<c.id, m.id>> : m \in {n \in ToSet(c.mentions) : ~Trusted(n, prepared)}}

SummaryProjection(x, prepared) ==
  LET told == SelectSeq(x.claims, LAMBDA c : InSummary(c, prepared)) IN
  [claims     |-> [i \in DOMAIN told |-> ClaimText(told[i])],
   entities   |-> {EntityRef(prepared, id) :
                     id \in UNION {TrustedEntities(c, prepared) : c \in ToSet(told)}},
   unresolved |-> UNION {UnresolvedMentions(c, prepared) : c \in ToSet(told)},
   candidates |-> {k.name : k \in ToSet(x.candidates)}]
===============================================================================
