------------------------------ MODULE MCBootstrap ------------------------------
(***************************************************************************)
(* Two processes, and a few starts: rebuilds of Campaign State racing each *)
(* other and the owner, a finalize racing them, mapping, review and apply  *)
(* with a hand edit between, an entity kept in a folder discovery leaves   *)
(* out, and a vault with every kind of file discovery tells apart.         *)
(***************************************************************************)
EXTENDS Bootstrap

CONSTANTS p1, p2

MCProcs == {p1, p2}

MCNormalForm ==
  ("Mira" :> "mira") @@ ("MIRA" :> "mira") @@ ("Keep" :> "keep") @@ ("Tower" :> "tower") @@
  ("Oren" :> "oren") @@ ("Ash" :> "ash")

MCEntityFolders == (<<"characters">> :> "npc") @@ (<<"places">> :> "place")

KeepPath == <<"places", "keep">>
Journal == <<"journal">>
Lore == <<"notes", "lore">>
HiddenPath == <<"places", ".old", "mira">>

MCPathOrder ==
  <<<<"_system", "campaign">>, <<"characters", "ash">>, <<"characters", "draft">>, <<"characters", "keep">>,
    <<"characters", "mira">>, <<"characters", "oren">>, <<"characters", "twin">>,
    Journal, <<"map">>, <<"notes", "a", "deep">>, <<"notes", "big">>, <<"notes", "broken">>,
    <<"notes", "link">>, Lore, HiddenPath, KeepPath, <<"places", "mira">>,
    <<"places", "oren">>, <<"sessions", "one">>, <<"state", "world">>>>

File0(ext, size, note) ==
  [ext |-> ext, form |-> "regular", size |-> size, utf8 |-> TRUE, note |-> note]
TextFile(text) == File0("md", 2, [text |-> text])

Entity(id, type, name, vis, rev, facts) ==
  [id |-> id, type |-> type, name |-> name, aliases |-> {}, vis |-> vis, rev |-> rev,
   facts |-> facts]
EntityFile(id, type, name, vis, rev, facts) ==
  File0("md", 1, Entity(id, type, name, vis, rev, facts))

KeepId == <<"place", "keep">>
KeepFile == EntityFile(KeepId, "place", "Keep", "player", 1, <<"old fact">>)
RenamedKeep == EntityFile(KeepId, "place", "Tower", "player", 2, <<"old fact">>)

SmallVault == (KeepPath :> KeepFile) @@ (Journal :> TextFile("journal"))

HiddenVault ==
  SmallVault @@
    (HiddenPath :> EntityFile(<<"place", "legacy">>, "place", "Mira", "dm", 1, <<>>))

\* Every kind of file: a note that is no entity, one under the wrong type, two
\* of one id, a name shared by two types, and what discovery does not read.
FullVault ==
  SmallVault @@ (Lore :> TextFile("lore")) @@ (<<"sessions", "one">> :> TextFile("one")) @@
  (<<"notes", "big">> :> File0("md", 9, [text |-> "big"])) @@
  (<<"notes", "broken">> :> [TextFile("x") EXCEPT !.utf8 = FALSE]) @@
  (<<"notes", "a", "deep">> :> TextFile("deep")) @@
  (<<"notes", "link">> :> [TextFile("link") EXCEPT !.form = "link"]) @@
  (<<"map">> :> File0("png", 1, [text |-> "map"])) @@
  (<<"_system", "campaign">> :> TextFile("campaign")) @@
  (<<"state", "world">> :> TextFile("world"))
EntityVault ==
  SmallVault @@ (<<"characters", "draft">> :> TextFile("draft")) @@
  (<<"characters", "ash">> :> EntityFile(<<"npc", "ash">>, "npc", "Ash", "system", 1, <<>>)) @@
  (<<"characters", "oren">> :> EntityFile(<<"npc", "oren">>, "place", "Oren", "dm", 1, <<>>)) @@
  (<<"characters", "twin">> :> EntityFile(<<"npc", "twin">>, "npc", "Ash", "dm", 1, <<>>))

Session(status, tick, touched) ==
  [status |-> status, rev |-> 1, started |-> 1,
   finished |-> IF status = "completed" THEN 2 ELSE NoValue, tick |-> tick, touched |-> touched]

OneSession == (1 :> Session("completed", 1, <<KeepId>>))
TwoSessions == OneSession @@ (2 :> Session("active", NoValue, <<>>))

Start(v, ss, c, m, t1, t2, budget) ==
  [vault |-> v, sessions |-> ss, clock |-> c, manifest |-> m,
   todo |-> (p1 :> t1) @@ (p2 :> t2), budget |-> budget]

MCDerivedPaths == {<<"state", "world">>}

Noon == [tick |-> 1, rev |-> 1]
Outdated == [version |-> "outdated"]

MCScenarios ==
  {Start(SmallVault, TwoSessions, Noon, Outdated, <<"rebuild">>, <<"rebuild">>, 2),
   Start(SmallVault, <<>>, NoValue, NoValue, <<"rebuild", "inspect">>, <<"finalize">>, 0),
   Start(SmallVault, OneSession, Noon, NoValue, <<"finalize">>, <<>>, 2),
   Start(SmallVault, OneSession, Noon, Outdated, <<"finalize">>, <<"rebuild">>, 1),
   Start(SmallVault, TwoSessions, Noon, NoValue, <<"finalize">>, <<"index">>, 1),
   Start(SmallVault, <<>>, Noon, NoValue, <<"map", "approve", "apply", "apply">>,
         <<"map", "approve">>, 1),
   Start(SmallVault, <<>>, Noon, NoValue, <<"map", "approve">>, <<"reject">>, 1),
   Start(HiddenVault, <<>>, Noon, NoValue, <<"map", "approve", "apply">>, <<"finalize">>, 0),
   Start(FullVault, <<>>, Noon, NoValue, <<"map">>, <<>>, 0),
   Start(EntityVault, <<>>, Noon, NoValue, <<"map">>, <<"finalize">>, 0)}

MCEdits ==
  {<<Journal, TextFile("edited")>>, <<KeepPath, RenamedKeep>>, <<KeepPath, NoValue>>}

Candidate(id, type, name) == [id |-> id, type |-> type, name |-> name, refs |-> {Journal}]
Mention(id, text, type) == [id |-> id, text |-> text, type |-> type, refs |-> {Journal}]
Claim(id, text, group, mentions) ==
  [id |-> id, kind |-> "fact", text |-> text, group |-> group, refs |-> {Journal},
   mentions |-> mentions]
Answer(candidates, claims) == [candidates |-> candidates, claims |-> claims]

\* Nothing new; the same name under two types; facts that are known, repeated,
\* contradictory or about nobody; and a reference to a file that was not sent.
MCAnswers ==
  {Answer(<<>>, <<>>),
   Answer(<<[Candidate("k1", "npc", "Mira") EXCEPT !.refs = {KeepPath}]>>, <<>>),
   Answer(<<Candidate("k1", "npc", "Keep"), Candidate("k2", "place", "MIRA")>>,
          <<Claim("c1", "new fact", NoGroup, <<Mention("m1", "Keep", "place")>>),
            Claim("c2", "new fact", NoGroup, <<Mention("m2", "Keep", "place")>>)>>),
   Answer(<<>>,
          <<Claim("c1", "old fact", NoGroup, <<Mention("m1", "Keep", "place")>>),
            Claim("c2", "lit", "g", <<Mention("m2", "Keep", "place")>>),
            Claim("c3", "dark", "g", <<Mention("m3", "Keep", "place")>>),
            Claim("c4", "away", NoGroup, <<Mention("m4", "Mira", "npc")>>)>>),
   Answer(<<[Candidate("k1", "npc", "Mira") EXCEPT !.refs = {<<"map">>}]>>, <<>>)}
===============================================================================
