---------------------------- MODULE MCIrLedTask ----------------------------
(* IrLedTask for TLC, with the properties the component is checked for. *)
EXTENDS IrLedTask

MCMessages == {<<54>>, <<165, 255>>, <<118, 0, 129>>, <<90, 24, 66, 36>>}

\* Below the array, inside it, and past a byte's bits and the array's end.
MCStrays == {-1, 2, 9}
MCInitialText == [i \in 0..MAX_MESSAGE_LEN-1 |-> IF i = 0 THEN 0 ELSE 79]
=============================================================================
