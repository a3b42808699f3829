----------------------------- MODULE CampaignState -----------------------------
(***************************************************************************)
(* What the program derives from the vault and keeps beside it: Campaign   *)
(* State, two texts and a manifest that binds them to the sources they     *)
(* were rendered from, and the full-text index of the player's entities.   *)
(* Each process in Procs rebuilds or inspects them while other processes   *)
(* do the same and the owner edits notes, advances the clock, finishes     *)
(* sessions, damages derived files or kills a process.                     *)
(*                                                                         *)
(* Sources are read one store after another: the clock, the sessions, the  *)
(* entities.  A fingerprint or a hash is the value it is taken of.         *)
(* A session is [status, rev, started, finished, tick, touched]; session   *)
(* ids are numbers, so that they are ordered.                              *)
(***************************************************************************)
EXTENDS BootstrapContent

CONSTANTS
  Procs,
  NoValue,           \* an absent file or field
  RecentLimit,       \* FAST_AGENT_RECENT_SESSION_LIMIT
  MaxTouched,        \* MAX_TOUCHED_ENTITIES
  Scenarios,         \* starts: [vault, sessions, clock, manifest, todo, budget], where
                     \* todo gives each process its commands and budget bounds the
                     \* edits, clock and session steps, damage and deaths together
  Edits              \* pairs <<path, file>> the owner may write by hand, each path once

SessionFields == {"status", "rev", "started", "finished", "tick", "touched"}

ASSUME CampaignAssumption ==
  /\ RecentLimit \in Nat
  /\ \A e \in Edits : e[2] # NoValue => IsFile(e[1], e[2])
  /\ \A s \in Scenarios :
       /\ s.budget \in Nat /\ DOMAIN s.vault \subseteq ToSet(PathOrder)
       /\ \A path \in DOMAIN s.vault : IsFile(path, s.vault[path])
       /\ s.clock # NoValue => s.clock.rev \in Int
       /\ IsFiniteSet(DOMAIN s.sessions) /\ DOMAIN s.sessions \subseteq Int
       /\ \A k \in DOMAIN s.sessions :
            LET session == s.sessions[k] IN
            /\ DOMAIN session = SessionFields /\ session.started \in Int
            /\ session.finished # NoValue => session.finished \in Int

VARIABLES
  vault, clock, sessions,
  state,         \* "world_state", "recently_touched", "manifest" -> content or NoValue
  index,         \* the full-text index: [schema, input] or NoValue
  run,           \* process -> its run
  todo,          \* process -> the commands it has yet to run
  left, edited,  \* disturbances left; paths edited by hand
  past           \* history: process -> <<vault, clock, sessions>> since its call began

sources == <<vault, clock, sessions>>
derived == <<state, index>>

Artifacts == <<"world_state", "recently_touched">>

-----------------------------------------------------------------------------
(* Deriving Campaign State from the sources. *)

Completed(ss) == {s \in DOMAIN ss : ss[s].status = "completed"}

SessionsValid(ss) ==
  /\ \A s \in DOMAIN ss : ss[s].status \in {"active", "completed"}
  /\ \A s \in Completed(ss) :
       /\ ss[s].finished # NoValue /\ ss[s].tick # NoValue
       /\ ss[s].finished >= ss[s].started
       /\ NoValue \notin ToSet(ss[s].touched)

MoreRecent(ss, r, s) ==
  ss[r].finished > ss[s].finished \/ (ss[r].finished = ss[s].finished /\ r < s)

Selected(ss) ==
  {s \in Completed(ss) :
     Cardinality({r \in Completed(ss) : MoreRecent(ss, r, s)}) < RecentLimit}

Touched(ss) == UNION {ToSet(ss[s].touched) : s \in Selected(ss)}

Reference(note, ss, id) ==
  [type |-> note.type, name |-> note.name, vis |-> note.vis, rev |-> note.rev,
   from |-> {s \in Selected(ss) : id \in ToSet(ss[s].touched)}]

\* The identity of a derivation: what its input fingerprint is taken of.
Identity(v, c, ss) ==
  [world    |-> c,
   sessions |-> [s \in Selected(ss) |-> ss[s].rev],
   entities |-> [id \in Touched(ss) |-> Reference(Listed(v)[id], ss, id)]]

SourceFailure(ss) == ~SessionsValid(ss) \/ Cardinality(Touched(ss)) > MaxTouched
Missing(v, ss) == ~(Touched(ss) \subseteq DOMAIN Listed(v))

Derivable(v, c, ss) ==
  c # NoValue /\ ~SourceFailure(ss) /\ ListOutcome(v) = "ok" /\ ~Missing(v, ss)

\* What each text tells: only the tick, and only entities the player may see.
PlayerEntities(identity) ==
  LET seen == {id \in DOMAIN identity.entities : identity.entities[id].vis = "player"}
  IN [id \in seen |-> identity.entities[id]]

Render(artifact, identity) ==
  IF artifact = "world_state" THEN <<"tick", identity.world.tick>>
  ELSE <<"entities", PlayerEntities(identity)>>

Rendered(identity) == [a \in ToSet(Artifacts) |-> Render(a, identity)]

Manifest(identity) == [version |-> "current", input |-> identity, hashes |-> Rendered(identity)]
Damaged == [version |-> "invalid"]

-----------------------------------------------------------------------------
(* The stored generation. *)

StoredStatus(manifest, texts) ==
  IF manifest = NoValue
  THEN IF \E a \in DOMAIN texts : texts[a] # NoValue THEN "corrupt" ELSE "missing"
  ELSE IF manifest.version = "outdated" THEN "outdated"
  ELSE IF manifest.version = "invalid" \/ texts # manifest.hashes THEN "corrupt"
  ELSE "valid"

Freshness(manifest, texts, identity) ==
  IF manifest.input # identity THEN "stale"
  ELSE IF texts # Rendered(identity) THEN "corrupt"
  ELSE "current"

Texts == [a \in ToSet(Artifacts) |-> state[a]]

Status(manifest, texts, identity) ==
  IF StoredStatus(manifest, texts) # "valid" THEN StoredStatus(manifest, texts)
  ELSE Freshness(manifest, texts, identity)

StateCurrent ==
  /\ Derivable(vault, clock, sessions)
  /\ Status(state["manifest"], Texts, Identity(vault, clock, sessions)) = "current"

PlayerNotes(v) ==
  LET listed == Listed(v) IN
  [id \in {e \in DOMAIN listed : listed[e].vis = "player"} |->
     [listed[id] EXCEPT !.aliases = {}]]

IndexFresh ==
  /\ index # NoValue /\ ListOutcome(vault) = "ok"
  /\ index = [schema |-> "current", input |-> PlayerNotes(vault)]

-----------------------------------------------------------------------------
(* The run of a process. *)

Idle ==
  [pc |-> "idle", call |-> NoValue, phase |-> NoValue,
   world |-> NoValue, sessions |-> NoValue, first |-> NoValue, identity |-> NoValue,
   manifest |-> NoValue, texts |-> NoValue, listed |-> NoValue, outcome |-> NoValue]

At(p, pc) == run[p].pc = pc
Change(p, r) == run' = [run EXCEPT ![p] = Over(r, @)]
Goto(p, pc) == Change(p, [pc |-> pc])

\* A call of this module ends: its caller continues at "returned".
Return(p, outcome) ==
  Change(p, [pc |-> "returned", outcome |-> outcome, world |-> NoValue, sessions |-> NoValue,
             first |-> NoValue, phase |-> NoValue, manifest |-> NoValue, texts |-> NoValue,
             listed |-> NoValue])

RebuildStart == [pc |-> "world", phase |-> "initial"]
InspectStart == [pc |-> "manifest", phase |-> "inspect"]
IndexStart == [pc |-> "index_list", phase |-> "index_replace"]
VerifyStart == [pc |-> "index_list", phase |-> "index_verify"]

\* A derivation failed with the given reason.
Failed(p, reason) ==
  IF run[p].phase = "inspect" /\ reason # "conflict"
  THEN Return(p, "unverifiable")
  ELSE Return(p, reason)

ReadWorld(p) ==
  /\ At(p, "world")
  /\ IF clock = NoValue THEN Failed(p, "world_time_unavailable")
     ELSE Change(p, [pc |-> "sessions", world |-> clock])
  /\ UNCHANGED <<sources, derived>>

ReadSessions(p) ==
  /\ At(p, "sessions")
  /\ IF SourceFailure(sessions) THEN Failed(p, "source_error")
     ELSE Change(p, [pc |-> "entities", sessions |-> sessions])
  /\ UNCHANGED <<sources, derived>>

\* The derivation is done; what follows depends on whose it is.
DerivedUnchecked(p, identity) ==     \* mutant: the second derivation is not compared
  CASE run[p].phase = "initial" -> Change(p, [pc |-> "world", phase |-> "fresh", first |-> identity])
    [] run[p].phase = "fresh" -> Change(p, [pc |-> "manifest", identity |-> run[p].first])
    [] run[p].phase = "inspect" ->
         LET status == Freshness(run[p].manifest, run[p].texts, identity) IN
         Return(p, status)
Derived(p, identity) ==
  CASE run[p].phase = "initial" ->
         Change(p, [pc |-> "world", phase |-> "fresh", first |-> identity])
    [] run[p].phase = "fresh" ->
         IF identity = run[p].first
         THEN Change(p, [pc |-> "manifest", identity |-> identity])
         ELSE Return(p, "source_changed")
    [] run[p].phase = "inspect" ->
         Return(p, Freshness(run[p].manifest, run[p].texts, identity))

ReadEntities(p) ==
  /\ At(p, "entities")
  /\ CASE ListOutcome(vault) # "ok" -> Failed(p, ListOutcome(vault))
       [] ListOutcome(vault) = "ok" /\ Missing(vault, run[p].sessions) -> Failed(p, "source_error")
       [] OTHER -> Derived(p, Identity(vault, run[p].world, run[p].sessions))
  /\ UNCHANGED <<sources, derived>>

ReadManifest(p) ==
  /\ At(p, "manifest")
  /\ Change(p, [pc |-> "texts", manifest |-> state["manifest"]])
  /\ UNCHANGED <<sources, derived>>

\* A rebuild publishes unless the generation is current; an inspection of a
\* generation that is whole derives the sources to compare it with.
ReadTexts(p) ==
  /\ At(p, "texts")
  /\ LET stored == StoredStatus(run[p].manifest, Texts) IN
     IF run[p].phase = "inspect"
     THEN IF stored = "valid" THEN Change(p, [pc |-> "world", texts |-> Texts])
          ELSE Return(p, stored)
     ELSE IF Status(run[p].manifest, Texts, run[p].identity) = "current"
          THEN Return(p, "already_current")
          ELSE Goto(p, "world_state")
  /\ UNCHANGED <<sources, derived>>

PublishText(p, i) ==
  /\ At(p, Artifacts[i])
  /\ state' = [state EXCEPT ![Artifacts[i]] = Render(Artifacts[i], run[p].identity)]
  /\ Goto(p, IF i < Len(Artifacts) THEN Artifacts[i + 1] ELSE "commit")
  /\ UNCHANGED <<sources, index>>

PublishManifest(p) ==
  /\ At(p, "commit")
  /\ state' = [state EXCEPT !["manifest"] = Manifest(run[p].identity)]
  /\ Return(p, "published")
  /\ UNCHANGED <<sources, index>>

Derivation(p) ==
  \/ ReadWorld(p) \/ ReadSessions(p) \/ ReadEntities(p)
  \/ ReadManifest(p) \/ ReadTexts(p)
  \/ \E i \in DOMAIN Artifacts : PublishText(p, i)
  \/ PublishManifest(p)

-----------------------------------------------------------------------------
(* The full-text index. *)

\* The entities to index, or to compare the index with, are listed first.
ListForIndex(p) ==
  /\ At(p, "index_list")
  /\ IF ListOutcome(vault) # "ok" THEN Return(p, ListOutcome(vault))
     ELSE Change(p, [pc |-> run[p].phase, listed |-> PlayerNotes(vault)])
  /\ UNCHANGED <<sources, derived>>

ReplaceIndex(p) ==
  /\ At(p, "index_replace")
  /\ index' = [schema |-> "current", input |-> run[p].listed]
  /\ Return(p, "indexed")
  /\ UNCHANGED <<sources, state>>

VerifyIndex(p) ==
  /\ At(p, "index_verify")
  /\ LET fresh == /\ index # NoValue
                  /\ index = [schema |-> "current", input |-> run[p].listed]
     IN Return(p, IF fresh THEN "fresh" ELSE "stale_index")
  /\ UNCHANGED <<sources, derived>>

Indexing(p) == ListForIndex(p) \/ ReplaceIndex(p) \/ VerifyIndex(p)

-----------------------------------------------------------------------------
(* What happens meanwhile. *)

Disturb == left > 0 /\ left' = left - 1

EditNote(e) ==
  /\ Disturb /\ e[1] \notin edited
  /\ edited' = edited \union {e[1]}
  /\ vault' = IF e[2] = NoValue THEN [path \in DOMAIN vault \ {e[1]} |-> vault[path]]
              ELSE Over([path \in {e[1]} |-> e[2]], vault)
  /\ vault' # vault
  /\ UNCHANGED <<clock, sessions, derived, run>>

AdvanceClock ==
  /\ Disturb /\ clock # NoValue
  /\ clock' = [tick |-> clock.tick + 1, rev |-> clock.rev + 1]
  /\ UNCHANGED <<vault, sessions, derived, run, edited>>

FinishSession ==
  /\ Disturb
  /\ \E s \in DOMAIN sessions :
       /\ sessions[s].status = "active" /\ clock # NoValue
       /\ sessions' = [sessions EXCEPT ![s] =
            [@ EXCEPT !.status = "completed", !.rev = @ + 1,
                      !.finished = sessions[s].started + 1, !.tick = clock.tick]]
  /\ UNCHANGED <<vault, clock, derived, run, edited>>

\* State/ is an ordinary folder of the vault: one of its files gets lost or
\* edited, once (by hand, beside the paths in Edits).
StateFolder == <<"State">>

DamageState ==
  /\ Disturb /\ StateFolder \notin edited
  /\ edited' = edited \union {StateFolder}
  /\ \E a \in DOMAIN state :
       /\ state[a] # NoValue
       /\ \E content \in {NoValue, IF a = "manifest" THEN Damaged ELSE <<"damaged">>} :
            state' = [state EXCEPT ![a] = content]
  /\ UNCHANGED <<sources, index, run>>

Die(p) ==
  /\ Disturb /\ run[p].pc \notin {"idle", "returned"}
  /\ run' = [run EXCEPT ![p] = Idle]
  /\ UNCHANGED <<sources, derived, edited>>

Surroundings ==
  \/ \E e \in Edits : EditNote(e)
  \/ AdvanceClock \/ FinishSession \/ DamageState

\* History: the instants each call has lived through.
Observe ==
  past' = [p \in Procs |->
       IF run'[p].call = NoValue THEN {}
       ELSE (IF run[p].call = NoValue THEN {} ELSE past[p]) \union {sources'}]

InitCampaign ==
  /\ \E s \in Scenarios :
       /\ vault = s.vault /\ sessions = s.sessions /\ clock = s.clock
       /\ todo = s.todo /\ left = s.budget
       /\ state = [a \in ToSet(Artifacts) \union {"manifest"} |->
                    IF a = "manifest" \/ s.manifest = NoValue THEN s.manifest ELSE <<"old">>]
  /\ index = NoValue /\ edited = {}
  /\ run = [p \in Procs |-> Idle]
  /\ past = [p \in Procs |-> {}]

-----------------------------------------------------------------------------
(* What the rebuild promises. *)

\* The Campaign State a rebuild returns, which the player and the agent are
\* told, is what the clock, the sessions and the entities said together at one
\* instant of the call, although they are read one after another while other
\* processes and the owner write them.
SnapshotIsReal ==
  \A p \in Procs :
    At(p, "returned") /\ run[p].outcome \in {"published", "already_current"} =>
      \E i \in past[p] : Derivable(i[1], i[2], i[3]) /\ Identity(i[1], i[2], i[3]) = run[p].identity
===============================================================================
