--------------------------- MODULE DisplayChannel ---------------------------
(***************************************************************************)
(* What the display pipeline promises the tasks that call                  *)
(* send_string_to_queue and send_string_w_bytes_to_queue: every text the   *)
(* queue accepts is put on the LED whole, in the order of acceptance, one  *)
(* at a time, bit by bit, followed by less than a byte of filler: every    *)
(* text of no more than Limit bytes, that is.  A longer one has its turn   *)
(* like the others, but what is emitted then is not told, nor whether it   *)
(* ends; if it does, the texts behind it are put out as if it had fitted.  *)
(***************************************************************************)
EXTENDS Naturals, Sequences

CONSTANTS
    Texts,
    Capacity,
    Limit,
    TooLong    \* stands for every text of more than Limit bytes

VARIABLES
    pending,   \* accepted, not yet begun
    showing,   \* the text on the LED, << >> between texts
    emitted    \* the bits of it that are out

vars == <<pending, showing, emitted>>

Bits(text) ==
    [k \in 1..8*Len(text) |-> (text[((k-1) \div 8) + 1] \div 2^(7 - ((k-1) % 8))) % 2]

Shown(text) == IF Len(text) <= Limit THEN text ELSE TooLong

Fits == showing # TooLong

Init ==
    /\ pending = << >>
    /\ showing = << >>
    /\ emitted = << >>

Accept(text) ==
    /\ Len(pending) < Capacity
    /\ pending' = Append(pending, text)
    /\ UNCHANGED <<showing, emitted>>

Begin ==
    /\ showing = << >> /\ pending # << >>
    /\ showing' = Shown(Head(pending))
    /\ pending' = Tail(pending)
    /\ emitted' = << >>

Emit ==
    /\ Fits
    /\ Len(emitted) < 8 * Len(showing)
    /\ emitted' = Append(emitted, Bits(showing)[Len(emitted) + 1])
    /\ UNCHANGED <<pending, showing>>

\* The transmitter notices the end late.
Filler(bit) ==
    /\ showing # << >> /\ Fits
    /\ Len(emitted) \in 8*Len(showing) .. 8*Len(showing) + 6
    /\ emitted' = Append(emitted, bit)
    /\ UNCHANGED <<pending, showing>>

Finish ==
    /\ showing # << >>
    /\ Fits => Len(emitted) >= 8 * Len(showing)
    /\ showing' = << >>
    /\ emitted' = << >>
    /\ UNCHANGED pending

Next ==
    \/ \E text \in Texts : Accept(text)
    \/ Begin \/ Emit \/ Finish
    \/ \E bit \in {0, 1} : Filler(bit)

Fairness == WF_vars(Begin) /\ WF_vars(Emit) /\ WF_vars(Fits /\ Finish)

Spec == Init /\ [][Next]_vars /\ Fairness

=============================================================================
