--------------------------- MODULE MCButtonServer ---------------------------
(* ButtonServer for TLC: two buttons, commands of at most two bytes and the *)
(* terminator, a receive buffer of seven bytes.                             *)
EXTENDS ButtonServer

v == 118
MCCommands == -1..1
\* Shorter than, as long as and longer than what the table and the buffer take.
MCTexts == {<< >>, <<65>>, <<v>>, <<65, v>>, <<v, 65, 65>>, <<65, 65, 65, 65, v, 65>>,
            <<65, 65, 65, 65, 65, v, v, v, 65>>}
=============================================================================
