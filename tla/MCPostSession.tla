---------------------------- MODULE MCPostSession ----------------------------
(***************************************************************************)
(* A session with two touched entities, two processes that may run the     *)
(* same attempt, three answers of the model, one disk fault and one edit   *)
(* by hand.                                                                *)
(***************************************************************************)
EXTENDS PostSession

CONSTANTS p1, p2, a1, a2

MCProcs == {p1, p2}
MCAttempts == {a1, a2}

\* The second process runs the attempt of the first, or one of its own.
MCAttemptsOf == (p1 :> {a1}) @@ (p2 :> {a1, a2})

MCNormalForm ==
  ("Aria" :> "aria") @@ ("ARIA" :> "aria") @@ ("The Lady" :> "the lady") @@
  ("Keep" :> "keep") @@ ("Vex" :> "vex")

Aria == <<"S0", "npc", "aria">>
Keep == <<"S0", "place", "keep">>

Document(type, name, aliases, vis) ==
  [type |-> type, rev |-> 1, name |-> name, aliases |-> aliases, vis |-> vis, body |-> <<>>]

MCDocuments ==
  (Aria :> Document("npc", "Aria", {"The Lady"}, "player")) @@
  (Keep :> Document("place", "Keep", {}, "dm"))

\* The owner puts back Aria's note as it was but hidden from the players, or
\* types in a fact and moves the revision past all that apply can reach.
MCHandEdits ==
  {<<Aria, Document("npc", "Aria", {"The Lady"}, "dm")>>,
   <<Aria, [Document("npc", "Aria", {"The Lady"}, "player") EXCEPT !.rev = 9, !.body = <<"H">>]>>}

SessionWith(rev, status, touched) ==
  [id |-> "S1", rev |-> rev, status |-> status, finished |-> TRUE, ordered |-> TRUE,
   touched |-> touched, events |-> {"ev1"}]

MCSessionStates ==
  {SessionWith(1, "completed", <<Aria, Keep, Aria>>),
   SessionWith(2, "active", <<Aria>>)}

Mention(id, text, type, candidate) ==
  [id |-> id, text |-> text, type |-> type, candidate |-> candidate]

ClaimOf(id, kind, hint, text, evidence, mentions) ==
  [id |-> id, kind |-> kind, hint |-> hint, text |-> text, evidence |-> evidence,
   mentions |-> mentions]

Candidate(id, type, name) ==
  [id |-> id, type |-> type, name |-> name, evidence |-> {"ev1"}]

\* The same fact twice about Aria, once by her id and once by an alias; a fact
\* about nobody; a new entity, and two candidates for an existing name.
Rich ==
  [claims |-> <<ClaimOf("c1", "fact", "player", "F", {"ev1"}, <<Mention("m1", "ARIA", "npc", Aria)>>),
                ClaimOf("c2", "event", "dm", "F", {"ev1"}, <<Mention("m2", "The Lady", "npc", NoEntity)>>),
                ClaimOf("c3", "fact", "player", "G", {"ev1"}, <<Mention("m3", "Vex", "npc", NoEntity)>>),
                ClaimOf("c4", "fact", "player", "G", {"ev1"},
                       <<Mention("m4", "Aria", "npc", Aria), Mention("m5", "Keep", "place", Keep)>>),
                ClaimOf("c5", "fact", "player", "H", {"ev1"}, <<Mention("m6", "Aria", "npc", Aria)>>)>>,
   candidates |-> <<Candidate("k1", "npc", "Vex"), Candidate("k2", "place", "ARIA")>>]

\* Nothing to propose, nothing the players may hear.
Poor ==
  [claims |-> <<ClaimOf("c1", "other", "dm", "F", {"ev1"}, <<>>)>>, candidates |-> <<>>]

\* Evidence of an event the session does not have.
Wrong ==
  [claims |-> <<ClaimOf("c1", "fact", "player", "F", {"ev9"}, <<>>)>>, candidates |-> <<>>]

MCExtractions == {Rich, Poor, Wrong}

-----------------------------------------------------------------------------
(* What the recap gives away, over all small extractions. *)

VisibilityChoices == [{Aria, Keep} -> {"player", "dm", "system"}]

PreparedWith(vis) ==
  [session |-> "S1", rev |-> 1, events |-> {"ev1"},
   entities |-> [id \in {Aria, Keep} |-> [Projection(MCDocuments[id]) EXCEPT !.vis = vis[id]]]]

SomeMentions ==
  {<<>>} \union
  {<<Mention("m1", "Aria", t1, c1)>> : t1 \in {"npc", "place"}, c1 \in {Aria, NoEntity}} \union
  {<<Mention("m1", "Aria", "npc", Aria), Mention("m2", "Keep", "place", c2)>> :
     c2 \in {Keep, NoEntity}}

SomeClaims ==
  {ClaimOf("c1", "fact", hint, "F", {"ev1"}, ms) : hint \in {"player", "uncertain"}, ms \in SomeMentions}

MCRecapInputs ==
  {<<[claims |-> <<c, [d EXCEPT !.id = "c2"]>>, candidates |-> <<>>], PreparedWith(vis)>> :
     c \in SomeClaims, d \in SomeClaims, vis \in VisibilityChoices}
===============================================================================
