-------------------------- MODULE MCKnowledgeGraph --------------------------
(* Four actors in two pairs that a third event joins. *)
EXTENDS KnowledgeGraph

MCNames(e) == CASE e = "e1" -> {"a", "b"} [] e = "e2" -> {"c", "d"} [] e = "e3" -> {"b", "c"}
MCAbout(e) == IF e = "e3" THEN {} ELSE {"t"}
MCBatches == {{"e1"}, {"e2"}, {"e3"}, {"e1", "e2"}}
=============================================================================
