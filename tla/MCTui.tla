-------------------------------- MODULE MCTui --------------------------------
(* Two notes, of which one is found by its name and one only through the    *)
(* index; a model that returns single reads and writes, mixed batches,      *)
(* batches that are too long, repeated ids, unusable arguments, a revision  *)
(* that was never current and tools that are not exposed.                   *)
EXTENDS Tui

MCNotes == {1, 2}
MCNoteOf(i) == [id |-> i, type |-> "npc", name |-> 10 + i, aliases |-> {20 + i},
                visible |-> TRUE, revision |-> 1, body |-> 30 + i]
MCQueries == {11, 32}

\* A text resembles a name of its own number only; a body is found by itself.
MCFold(text) == text
MCRatio(a, b) == IF a = b THEN 100 ELSE 0
MCContains(row, text) == row.body = text
MCRelevance(row, text) == 1

MCCall(tool, id, target) ==
  [tool |-> tool, id |-> id, valid |-> TRUE, target |-> target, revision |-> 1]
Read(id) == MCCall("get_entity", id, 1)
MCBatches ==
  {<<>>, <<Read(1)>>, <<Read(1), MCCall("search_entities", 2, 32)>>, <<Read(1), Read(1)>>,
   [i \in 1..5 |-> Read(i)], <<Read(1), MCCall("record_note", 2, 1)>>,
   <<[MCCall("append_entity_fact", 1, 1) EXCEPT !.revision = 2]>>,
   <<[Read(1) EXCEPT !.valid = FALSE]>>, <<MCCall("advance_world_time", 1, 1)>>}
  \union {<<MCCall(tool, 1, 1)>> :
            tool \in {"append_entity_fact", "start_session", "record_note", "end_session"}}
=============================================================================
