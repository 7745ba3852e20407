------------------------- MODULE MCDisplayPipeline -------------------------
(* DisplayPipeline for TLC. *)
EXTENDS DisplayPipeline, TLC

MCTexts == {<<165>>, <<90, 24>>}
MCEdges == {<<54, 129>>}
MCStrays == {-1}
MCMessages == Texts \cup {<<e[1]>> \o t \o <<e[2]>> : t \in Texts, e \in Edges}
\* Heap blocks are interchangeable, and so are the producers.
Same == Permutations(Buffers) \cup Permutations(Producers)

MCInitialText == [i \in 0..MAX_MESSAGE_LEN-1 |-> IF i = 0 THEN 0 ELSE 79]
=============================================================================
