----------------------------- MODULE RuneCursor -----------------------------
(***************************************************************************)
(* What reader_t promises its clients: a cursor between two runes of a     *)
(* text that has been decoded once and for all.  left is what lies before  *)
(* the cursor, right what lies after it.  Bytes, widths, recorded          *)
(* positions and the width stack are gone.                                 *)
(***************************************************************************)
EXTENDS Integers, Sequences

CONSTANTS Runes, AtEnd, AtStart

VARIABLES left, right, got, ok

vars == <<left, right, got, ok>>

Ahead == IF right = << >> THEN AtEnd ELSE Head(right)

\* The cursor stands between the first k runes of the text and the others.
StandAt(k) ==
    LET text == left \o right
    IN  /\ left' = SubSeq(text, 1, k)
        /\ right' = SubSeq(text, k + 1, Len(text))

Init == /\ left = << >>
        /\ right \in Seq(Runes)
        /\ got = AtEnd
        /\ ok = TRUE

Step == IF right = << >> THEN UNCHANGED <<left, right>> ELSE StandAt(Len(left) + 1)

StepBack == IF left = << >> THEN UNCHANGED <<left, right>> ELSE StandAt(Len(left) - 1)

NextRune == Step /\ got' = Ahead /\ UNCHANGED ok

CurrRune == got' = Ahead /\ UNCHANGED <<left, right, ok>>

PrevRune == /\ StepBack
            /\ got' = IF left = << >> THEN AtStart ELSE left[Len(left)]
            /\ UNCHANGED ok

MoveNext == Step /\ ok' = (right # << >>) /\ UNCHANGED got

MovePrev == StepBack /\ ok' = (left # << >>) /\ UNCHANGED got

\* seek goes back to a rune boundary or does nothing.
Seek == /\ \/ ok' = TRUE /\ \E k \in 0 .. Len(left) : StandAt(k)
           \/ ok' = FALSE /\ UNCHANGED <<left, right>>
        /\ UNCHANGED got

Next == NextRune \/ CurrRune \/ PrevRune \/ MoveNext \/ MovePrev \/ Seek

Spec == Init /\ [][Next]_vars
=============================================================================
