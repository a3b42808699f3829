--------------------------- MODULE BootstrapContent ---------------------------
(***************************************************************************)
(* The pure half of bootstrapping a campaign from the notes already in a   *)
(* vault: what discovery sees, which files are sent to the model in which  *)
(* batch, which entities count as canonical, and what ChangeSet the        *)
(* model's answers become.  No state is kept here.                         *)
(*                                                                         *)
(* A vault maps a path, a sequence of case-folded names (no two differ in  *)
(* case only, which discovery would report), to a file                     *)
(* [ext, form, size, utf8, note].  A note is an entity record              *)
(* [id, type, name, aliases, vis, rev, facts] when the file parses as one, *)
(* and any other record when it does not.  A candidate is                  *)
(* [id, type, name, refs], a claim [id, kind, text, group, refs, mentions] *)
(* and a mention [id, text, type, refs]; refs are sets of paths.           *)
(***************************************************************************)
EXTENDS Integers, SequencesExt, Functions

CONSTANTS
  NormalForm,       \* name -> its exact-match normal form
  NoGroup,          \* a claim outside every conflict group
  PathOrder,        \* the paths in case-folded order
  EntityFolders,    \* folder path -> the entity type kept there
  ExcludedNames,    \* names discovery never enters
  TextExtensions,
  DerivedPaths,     \* the leaves of State/ the program writes
  MaxDepth, MaxFileBytes, MaxTotalBytes,           \* DiscoveryLimits
  MaxContext,       \* MAX_BOOTSTRAP_CONTEXT_CHARS
  MaxBatches,       \* MAX_BOOTSTRAP_BATCHES
  MaxCandidates, MaxClaims, MaxReferences

IsList(s) == s \in Seq(ToSet(s))
IsEntity(note) == "id" \in DOMAIN note

\* A path and what lies there.
IsFile(path, file) ==
  /\ IsList(path) /\ DOMAIN file = {"ext", "form", "size", "utf8", "note"}
  /\ IsEntity(file.note) =>
       DOMAIN file.note = {"id", "type", "name", "aliases", "vis", "rev", "facts"}

\* What the schema of an answer ensures.
IsAnswer(x) ==
  /\ IsList(x.candidates) /\ IsList(x.claims)
  /\ \A k \in ToSet(x.candidates) :
       DOMAIN k = {"id", "type", "name", "refs"}
         /\ \E folder \in DOMAIN EntityFolders : EntityFolders[folder] = k.type
  /\ \A c \in ToSet(x.claims) :
       DOMAIN c = {"id", "kind", "text", "group", "refs", "mentions"}

Folder(path) == SubSeq(path, 1, Len(path) - 1)

\* The fields of r, and those of s that r has not.
Over(r, s) ==
  [f \in DOMAIN r \union DOMAIN s |-> IF f \in DOMAIN r THEN r[f] ELSE s[f]]

Least(S) == CHOOSE n \in S : \A m \in S : n <= m
Least2(a, b) == IF a < b THEN a ELSE b

(***************************************************************************)
(* The inventory walk: each path is an entry, is excluded at the first     *)
(* excluded name on it, or is an issue at the link or depth that stops it. *)
(***************************************************************************)
StopsAt(v, path) ==
  {k \in 1..Len(path) :
     \/ path[k] \in ExcludedNames
     \/ k < Len(path) /\ k >= MaxDepth
     \/ k = Len(path) /\ v[path].form # "regular"}

Entries(v) == {path \in DOMAIN v : StopsAt(v, path) = {}}

Stopped(v, excluded) ==
  {path \in DOMAIN v \ Entries(v) :
     (path[Least(StopsAt(v, path))] \in ExcludedNames) = excluded}

StopPoint(v, path) == SubSeq(path, 1, Least(StopsAt(v, path)))

IsDirectory(path, prefix) == Len(prefix) < Len(path)

(***************************************************************************)
(* Classification.                                                         *)
(***************************************************************************)
UnderEntityFolder(path) ==
  \E folder \in DOMAIN EntityFolders : IsStrictPrefix(folder, path)

\* The entity folders are Markdown folders apart from those of the program, and
\* the order of paths has each once.
ASSUME ContentAssumption ==
  /\ "md" \in TextExtensions /\ IsList(PathOrder)
  /\ \A i, j \in DOMAIN PathOrder : PathOrder[i] = PathOrder[j] => i = j
  /\ \A folder \in DOMAIN EntityFolders :
       IsList(folder) /\ folder # <<>> /\ folder[1] # "_system"
  /\ \A path \in DerivedPaths : ~UnderEntityFolder(path)

ExpectedType(path) ==
  EntityFolders[CHOOSE folder \in DOMAIN EntityFolders : IsStrictPrefix(folder, path)]

ClassOf(v, path) ==
  CASE path[1] = "_system" -> "application"
    [] path \in DerivedPaths -> "derived"
    [] path[1] # "_system" /\ path \notin DerivedPaths /\ v[path].ext \notin TextExtensions
         -> "unsupported"
    [] OTHER -> IF UnderEntityFolder(path) THEN "entity"
                ELSE IF path[1] = "sessions" THEN "session" ELSE "user"

Eligible(v) == {path \in Entries(v) : ClassOf(v, path) \in {"entity", "session", "user"}}

(***************************************************************************)
(* Reading the eligible contents, in path order, within the byte limits.   *)
(***************************************************************************)
ReadStatus(file, total) ==
  CASE file.size > Least2(MaxFileBytes, MaxTotalBytes - total) -> "skipped"
    [] total >= MaxTotalBytes -> "skipped"
    [] OTHER -> IF file.utf8 THEN "read" ELSE "failed"

\* The paths of a set as a list.
InPathOrder(paths) ==
  LET at == {i \in DOMAIN PathOrder : PathOrder[i] \in paths} IN
  [k \in 1..Cardinality(at) |->
     PathOrder[CHOOSE i \in at : Cardinality({j \in at : j < i}) = k - 1]]

Contents(v) ==
  FoldLeft(
    LAMBDA acc, path :
      LET status == ReadStatus(v[path], acc.total) IN
      [total  |-> acc.total + (IF status = "read" THEN v[path].size ELSE 0),
       status |-> Over([q \in {path} |-> status], acc.status)],
    [total |-> 0, status |-> <<>>],
    InPathOrder(Eligible(v))).status

\* The discovery report of a vault.
Discover(v) ==
  LET status == Contents(v) IN
  [entries  |-> [path \in Eligible(v) |->
                   [class |-> ClassOf(v, path), status |-> status[path],
                    size |-> v[path].size, note |-> v[path].note]],
   issues   |-> {StopPoint(v, path) : path \in Stopped(v, FALSE)}
                  \union {path \in Eligible(v) : status[path] # "read"},
   excluded |-> {[path |-> StopPoint(v, path),
                  directory |-> IsDirectory(path, StopPoint(v, path)),
                  ext |-> v[path].ext] : path \in Stopped(v, TRUE)}]

WasRead(report) == {path \in DOMAIN report.entries : report.entries[path].status = "read"}

(***************************************************************************)
(* The bounded input: eligible sources by class, then path, packed into    *)
(* batches; what is not sent is skipped with a reason.                     *)
(***************************************************************************)
OfClass(report, class) ==
  InPathOrder({path \in DOMAIN report.entries : report.entries[path].class = class})

SourceOrder(report) ==
  OfClass(report, "entity") \o OfClass(report, "session") \o OfClass(report, "user")

Flush(acc) ==
  IF acc.pending = <<>> THEN acc
  ELSE [acc EXCEPT !.batches = Append(@, acc.pending), !.pending = <<>>, !.chars = 0]

Skip(acc, path, reason) == [acc EXCEPT !.skipped = Over([q \in {path} |-> reason], @)]

Pack(acc, path, size) ==
  LET apart == acc.pending # <<>> /\ acc.chars + 1 + size > MaxContext
      room  == IF apart THEN Flush(acc) ELSE acc
      sep   == IF room.pending = <<>> THEN 0 ELSE 1
      added == [room EXCEPT !.pending = Append(@, path), !.chars = @ + sep + size]
  IN IF Len(room.batches) >= MaxBatches THEN Skip(room, path, "batch_limit")
     ELSE IF added.chars >= MaxContext THEN Flush(added) ELSE added

AddSource(report, acc, path) ==
  LET entry == report.entries[path] IN
  CASE entry.status # "read" -> Skip(acc, path, entry.status)
    [] entry.status = "read" /\ entry.size > MaxContext -> Skip(acc, path, "too_large")
    [] OTHER -> Pack(acc, path, entry.size)

Prepare(report) ==
  LET packed == Flush(FoldLeft(LAMBDA acc, path : AddSource(report, acc, path),
                               [batches |-> <<>>, pending |-> <<>>, chars |-> 0, skipped |-> <<>>],
                               SourceOrder(report)))
  IN [batches |-> packed.batches, skipped |-> packed.skipped]

\* What the input fingerprint is taken of.
Fingerprint(report) ==
  LET skipped == Prepare(report).skipped IN
  [path \in DOMAIN report.entries |->
     [class   |-> report.entries[path].class,
      size    |-> report.entries[path].size,
      content |-> IF path \in WasRead(report) THEN <<report.entries[path].note>> ELSE <<>>,
      skip    |-> IF path \in DOMAIN skipped THEN <<skipped[path]>> ELSE <<>>]]

SourcesOf(v) == Fingerprint(Discover(v))

(***************************************************************************)
(* Canonical entities among what was read, and whether any could be hidden.*)
(***************************************************************************)
Candidates(report) == {path \in WasRead(report) : report.entries[path].class = "entity"}
NoteAt(report, path) == report.entries[path].note
Parsed(report) == {path \in Candidates(report) : IsEntity(NoteAt(report, path))}

Bindable(report) ==
  {path \in Parsed(report) :
     /\ NoteAt(report, path).type = ExpectedType(path)
     /\ \A other \in Parsed(report) :
          NoteAt(report, other).id = NoteAt(report, path).id => other = path}
Conflicts(report) == Parsed(report) \ Bindable(report)

ManagedNamespace(path) ==
  \E folder \in DOMAIN EntityFolders : IsPrefix(folder, path) \/ IsPrefix(path, folder)

CoverageWithoutExcluded(report) ==     \* mutant: excluded folders are not looked at
  /\ \A path \in DOMAIN report.entries :
       report.entries[path].class = "entity" => report.entries[path].status = "read"
  /\ \A path \in report.issues : ~ManagedNamespace(path)
CoverageComplete(report) ==
  /\ \A path \in DOMAIN report.entries :
       report.entries[path].class = "entity" => report.entries[path].status = "read"
  /\ \A path \in report.issues : ~ManagedNamespace(path)
  /\ \A x \in report.excluded :
       ~(ManagedNamespace(x.path) /\ (x.directory \/ x.ext = "md"))

Normalized(name) == NormalForm[name]
NamesOf(note) == {Normalized(note.name)}
AliasesOf(note) == {Normalized(a) : a \in note.aliases}

\* Exact name within the type, else exact alias, among the bindable entities.
ResolveExact(report, text, type) ==
  LET Matching(Keys(_)) ==
        {NoteAt(report, path).id : path \in
           {q \in Bindable(report) : /\ NoteAt(report, q).type = type
                                     /\ Normalized(text) \in Keys(NoteAt(report, q))}}
  IN IF Matching(NamesOf) # {} THEN Matching(NamesOf) ELSE Matching(AliasesOf)

AnyTypeMatches(report, name) ==
  {NoteAt(report, path).id : path \in
     {q \in Parsed(report) :
        Normalized(name) \in NamesOf(NoteAt(report, q)) \union AliasesOf(NoteAt(report, q))}}

BindableNote(report, id) ==
  NoteAt(report, CHOOSE path \in Bindable(report) : NoteAt(report, path).id = id)
BindableIds(report) == {NoteAt(report, path).id : path \in Bindable(report)}

(***************************************************************************)
(* The repository's own, strict reading of the entity folders: every       *)
(* Markdown file in them, hidden folders included.                         *)
(***************************************************************************)
Stored(v) ==
  {path \in DOMAIN v :
     UnderEntityFolder(path) /\ v[path].ext = "md" /\ v[path].form = "regular"}

Malformed(v) ==
  \E path \in Stored(v) :
    ~(v[path].utf8 /\ IsEntity(v[path].note) /\ v[path].note.type = ExpectedType(path))
Duplicated(v) ==
  \E path, other \in Stored(v) : path # other /\ v[path].note.id = v[other].note.id

\* list_entities: "storage", "conflict" or "ok".
ListOutcome(v) == IF Malformed(v) THEN "storage" ELSE IF Duplicated(v) THEN "conflict" ELSE "ok"
Listed(v) ==
  [id \in {v[path].note.id : path \in Stored(v)} |->
     v[CHOOSE path \in Stored(v) : v[path].note.id = id].note]

(***************************************************************************)
(* Accepting the model's answers, one per batch, and merging them.         *)
(***************************************************************************)
MentionsOf(x) == FlattenSeq([c \in DOMAIN x.claims |-> x.claims[c].mentions])
RefSets(x) ==
  {r.refs : r \in ToSet(x.candidates) \union ToSet(x.claims) \union ToSet(MentionsOf(x))}
DistinctIds(seq) == \A i, j \in DOMAIN seq : seq[i].id = seq[j].id => i = j

ValidAnswer(x, batch) ==
  /\ DistinctIds(x.candidates) /\ DistinctIds(x.claims) /\ DistinctIds(MentionsOf(x))
  /\ UNION RefSets(x) \subseteq ToSet(batch)

UnscopedIds(x, b) == x     \* mutant: ids of two batches may be equal
Scoped(x, b) ==
  LET Own(r) == [r EXCEPT !.id = <<b, @>>] IN
  [candidates |-> [i \in DOMAIN x.candidates |-> Own(x.candidates[i])],
   claims |-> [i \in DOMAIN x.claims |->
     LET c == x.claims[i] IN
     [Own(c) EXCEPT !.group = IF @ = NoGroup THEN @ ELSE <<b, @>>,
                    !.mentions = [m \in DOMAIN @ |-> Own(c.mentions[m])]]]]

Joined(seqs) == FoldLeft(LAMBDA all, s : all \o s, <<>>, seqs)

Merge(answers) ==
  [candidates |-> Joined([b \in DOMAIN answers |-> Scoped(answers[b], b).candidates]),
   claims     |-> Joined([b \in DOMAIN answers |-> Scoped(answers[b], b).claims])]

WithinBounds(x) ==
  /\ Len(x.candidates) <= MaxCandidates
  /\ Len(x.claims) <= MaxClaims
  /\ Len(MentionsOf(x)) <= MaxReferences

(***************************************************************************)
(* From the merged answer to operations; what yields none is unresolved    *)
(* for the first reason that applies (that each single reference which     *)
(* names nobody is reported besides is left out).                          *)
(***************************************************************************)
Allocate(type, name) == <<type, Normalized(name)>>
AllocatedTo(k) == Allocate(k.type, k.name)

NameGroup(x, k) == {i \in DOMAIN x.candidates : Normalized(x.candidates[i].name) = Normalized(k.name)}

CreateOutcome(report, x, k) ==
  LET idGroup == {i \in DOMAIN x.candidates : AllocatedTo(x.candidates[i]) = AllocatedTo(k)}
      matches == AnyTypeMatches(report, k.name)
  IN IF Cardinality(NameGroup(x, k)) > 1 THEN "candidate_name_conflict"
     ELSE IF Cardinality(idGroup) > 1 THEN "entity_id_collision"
     ELSE IF AllocatedTo(k) \in BindableIds(report) THEN "duplicate_existing_entity"
     ELSE IF AllocatedTo(k) \in {NoteAt(report, q).id : q \in Conflicts(report)}
     THEN "canonical_state_conflict"
     ELSE IF Cardinality(matches) = 1 THEN "duplicate_existing_entity"
     ELSE IF matches # {} THEN "ambiguous_exact_match"
     ELSE "create"

CreateOp(k) ==
  [op |-> "create", id |-> AllocatedTo(k), type |-> k.type, name |-> k.name,
   of |-> k.id, refs |-> k.refs]

Found(report, c) ==
  [m \in DOMAIN c.mentions |-> ResolveExact(report, c.mentions[m].text, c.mentions[m].type)]
Targets(report, c) ==
  UNION {f \in ToSet(Found(report, c)) : Cardinality(f) = 1}
TargetOf(report, c) == CHOOSE id \in Targets(report, c) : TRUE

InConflict(x, c) ==
  c.group # NoGroup /\ Cardinality({i \in DOMAIN x.claims : x.claims[i].group = c.group}) > 1

OnTarget(ops, id) == SelectSeq(ops, LAMBDA o : o.id = id)

KnownFact(report, ops, c, id) ==
  \/ Contains(BindableNote(report, id).facts, c.text)
  \/ \E o \in ToSet(OnTarget(ops, id)) : o.fact = c.text

AppendOutcome(report, x, ops, c) ==
  IF c.kind \notin {"fact", "event"} THEN "unsupported_claim_kind"
  ELSE IF InConflict(x, c) THEN "conflicting_source_claims"
  ELSE IF Targets(report, c) = {} THEN "no_canonical_target"
  ELSE IF Cardinality(Targets(report, c)) > 1 THEN "unsupported_multi_target"
  ELSE IF \E f \in ToSet(Found(report, c)) : Cardinality(f) # 1 THEN "unresolved_reference"
  ELSE LET id == TargetOf(report, c) IN
       IF BindableNote(report, id).vis = "system" THEN "system_entity_excluded"
       ELSE IF KnownFact(report, ops, c, id) THEN "duplicate_fact"
       ELSE "append"

AppendOp(report, ops, c) ==
  LET id == TargetOf(report, c) IN
  [op |-> "append", id |-> id, fact |-> c.text, of |-> c.id, refs |-> c.refs,
   expected |-> BindableNote(report, id).rev + Len(OnTarget(ops, id))]

\* [ops, unresolved]: the items in order, each an operation or a reason.
Creates(report, x) ==
  FoldLeft(
    LAMBDA acc, k :
      LET outcome == CreateOutcome(report, x, k) IN
      IF outcome = "create"
      THEN [acc EXCEPT !.ops = Append(@, CreateOp(k))]
      ELSE [acc EXCEPT !.unresolved = @ \union {<<"item", outcome, k.id>>}],
    [ops |-> <<>>, unresolved |-> {}], x.candidates)

Appends(report, x) ==
  FoldLeft(
    LAMBDA acc, c :
      LET outcome == AppendOutcome(report, x, acc.ops, c) IN
      IF outcome = "append"
      THEN [acc EXCEPT !.ops = Append(@, AppendOp(report, acc.ops, c))]
      ELSE [acc EXCEPT !.unresolved = @ \union {<<"item", outcome, c.id>>}],
    [ops |-> <<>>, unresolved |-> {}], x.claims)

(***************************************************************************)
(* Validating operations against entities, id -> revision, each against    *)
(* the effect of those before it.                                          *)
(***************************************************************************)
Revisions(report) == [id \in BindableIds(report) |-> BindableNote(report, id).rev]

Valid(ops, revs) ==
  FoldLeft(
    LAMBDA acc, o :
      IF o.op = "create"
      THEN [ok |-> acc.ok /\ o.id \notin DOMAIN acc.revs, revs |-> Over([id \in {o.id} |-> 1], acc.revs)]
      ELSE IF o.id \in DOMAIN acc.revs /\ acc.revs[o.id] = o.expected
           THEN [acc EXCEPT !.revs[o.id] = @ + 1]
           ELSE [acc EXCEPT !.ok = FALSE],
    [ok |-> TRUE, revs |-> revs], ops).ok

(***************************************************************************)
(* A whole mapping run over a report with the model's answers.             *)
(***************************************************************************)
RunLevelUnresolved(report) ==
  {<<"run", "canonical_state_conflict", path>> : path \in Conflicts(report)}
    \union {<<"run", "non_canonical_source", path>> : path \in Candidates(report) \ Parsed(report)}
    \union {<<"run", "source_skipped", path>> : path \in DOMAIN Prepare(report).skipped}

Uncovered == <<"run", "canonical_coverage_incomplete", <<>>>>

\* [status, ops, unresolved]: status "failed", "no_changes" or "proposal".
Mapping(report, answers) ==
  LET batches == Prepare(report).batches
      x       == Merge(answers)
      c       == Creates(report, x)
      a       == Appends(report, x)
      ops     == c.ops \o a.ops
      failed  == [status |-> "failed", ops |-> <<>>, unresolved |-> {}]
  IN CASE ~CoverageComplete(report) ->
            [status |-> "no_changes", ops |-> <<>>,
             unresolved |-> RunLevelUnresolved(report)
                              \union {Uncovered}]
       [] CoverageComplete(report)
            /\ ~(WithinBounds(x) /\ \A b \in DOMAIN batches : ValidAnswer(answers[b], batches[b]))
            -> failed
       [] OTHER ->
            IF ~Valid(ops, Revisions(report)) THEN failed
            ELSE [status |-> IF ops = <<>> THEN "no_changes" ELSE "proposal", ops |-> ops,
                  unresolved |-> c.unresolved \union a.unresolved \union RunLevelUnresolved(report)]

(***************************************************************************)
(* What an operation does to the vault: a create writes a new note, an     *)
(* append adds a fact and a revision.                                      *)
(***************************************************************************)
FolderOf(type) == CHOOSE folder \in DOMAIN EntityFolders : EntityFolders[folder] = type
NewPath(o) == Append(FolderOf(o.type), o.id[2])
NewFile(o) ==
  [ext |-> "md", form |-> "regular", size |-> 1, utf8 |-> TRUE,
   note |-> [id |-> o.id, type |-> o.type, name |-> o.name, aliases |-> {}, vis |-> "dm",
             rev |-> 1, facts |-> <<>>]]
===============================================================================
