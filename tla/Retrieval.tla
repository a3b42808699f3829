------------------------------ MODULE Retrieval ------------------------------
(* Search over the notes of a Vault (VaultSearchService), the full-text     *)
(* index it falls back to (SqliteFtsIndex) and the resolution of a          *)
(* reference to an entity (SearchEntityResolver).  All of them are          *)
(* functions of the notes that were listed and of the index file.           *)
EXTENDS Integers, FiniteSets

CONSTANTS
  Fold(_),        \* the normal form names, aliases and queries are compared in
  Ratio(_, _),    \* how close two normal forms are, 0 (nothing in common) to 100
  Contains(_, _), \* whether every token of a text occurs in an indexed row
  Relevance(_, _),\* how well an indexed row matches a text
  NoIndex         \* there is no index file, or it is not a database

NotFound == [outcome |-> "not_found"]
CandidateLimit == 20
HighConfidence == {"exact_id", "exact_name", "exact_alias"}

Hit(note, kind, score) == [id |-> note.id, kind |-> kind, score |-> score]

-----------------------------------------------------------------------------
(* The five tiers of a search, over the notes a search may show.            *)

Eligible(notes, types) ==
  {n \in notes : n.visible /\ (types = {} \/ n.type \in types)}

ExactId(notes, text) ==
  {Hit(n, "exact_id", 0) : n \in {m \in notes : m.id = text}}

ExactName(notes, text) ==
  {Hit(n, "exact_name", 0) : n \in {m \in notes : Fold(m.name) = Fold(text)}}

ExactAlias(notes, text) ==
  {Hit(n, "exact_alias", 0) :
     n \in {m \in notes : \E a \in m.aliases : Fold(a) = Fold(text)}}

Closeness(note, text) == Ratio(Fold(text), Fold(note.name))

FuzzyName(notes, text) ==
  {Hit(n, "fuzzy_name", Closeness(n, text)) :
     n \in {m \in notes : Closeness(m, text) > 0}}

\* Better hits first, hits of one score in the order of their ids.
Precedes(g, h) == g.score > h.score \/ (g.score = h.score /\ g.id < h.id)

Top(hits, limit) ==
  {h \in hits : Cardinality({g \in hits : Precedes(g, h)}) < limit}

\* The hits of the first tier that has any; {} leaves the index to be asked.
DirectHits(notes, text) ==
  IF ExactId(notes, text) # {} THEN ExactId(notes, text)
  ELSE IF ExactName(notes, text) # {} THEN ExactName(notes, text)
  ELSE IF ExactAlias(notes, text) # {} THEN ExactAlias(notes, text)
  ELSE FuzzyName(notes, text)

-----------------------------------------------------------------------------
(* The full-text index: one row for each note a player may see, and the     *)
(* fingerprint of the rows.  Aliases are in neither.                        *)

Row(n) == [id |-> n.id, type |-> n.type, revision |-> n.revision,
           name |-> n.name, body |-> n.body]
Rows(notes) == {Row(n) : n \in {m \in notes : m.visible}}

Rebuilt(notes) == [schema |-> 1, rows |-> Rows(notes), fingerprint |-> Rows(notes)]

Readable(index) == index # NoIndex /\ index.schema = 1
Fresh(index, notes) == Readable(index) /\ index.fingerprint = Rows(notes)

\* As many rows are asked for as there are notes a player may see, so that
\* rows the caller did not ask for never use up the caller's limit.
Larger(m, n) == IF m > n THEN m ELSE n
CandidateRows(notes, limit) == Larger(Cardinality(Rows(notes)), limit)

IndexHits(index, text, limit) ==
  Top({Hit(r, "fts", Relevance(r, text)) : r \in {q \in index.rows : Contains(q, text)}},
      limit)

LexicalHits(index, text, eligible, candidates, limit) ==
  Top({h \in IndexHits(index, text, candidates) : h.id \in {n.id : n \in eligible}},
      limit)

-----------------------------------------------------------------------------
(* A whole search and a resolution, the notes and the index standing still. *)

SearchFails(notes, types, text, index) ==
  DirectHits(Eligible(notes, types), text) = {} /\ ~Fresh(index, notes)

Search(notes, types, text, index, limit) ==
  LET eligible == Eligible(notes, types)
      direct == DirectHits(eligible, text)
  IN IF direct # {} THEN Top(direct, limit)
     ELSE LexicalHits(index, text, eligible, CandidateRows(notes, limit), limit)

GetById(notes, id) == \E n \in notes : n.id = id /\ n.visible

Resolution(hits) ==
  IF hits = {} THEN NotFound
  ELSE IF \E h \in hits : hits = {h} /\ h.kind \in HighConfidence
  THEN [outcome |-> "resolved", hit |-> CHOOSE h \in hits : TRUE]
  ELSE [outcome |-> "ambiguous", candidates |-> hits]

Resolve(notes, text, types, index) ==
  Resolution(Search(notes, types, text, index, CandidateLimit))
=============================================================================
