---------------------------- MODULE TokenStream -----------------------------
(***************************************************************************)
(* What scan() promises a parser about extents, in one step per call: the  *)
(* tokens of a statement lie one after the other in its text.  A token may *)
(* be empty, and a call may make no progress (the end of the text, or a    *)
(* character that starts no token); none ever goes back over text that an  *)
(* earlier call consumed, although scan() itself reads ahead and back.     *)
(***************************************************************************)
EXTENDS Naturals, Sequences

CONSTANT NoExtent

VARIABLES
    text,       \* the statement being scanned
    cursor,     \* where the next call starts
    extent      \* begin and end of the last token

vars == <<text, cursor, extent>>

\* text' is any text.
NewStatement == cursor' = 0 /\ extent' = NoExtent

Token == /\ \E begin, end \in cursor .. Len(text) :
              /\ begin <= end
              /\ cursor' = end
              /\ extent' = <<begin, end>>
         /\ UNCHANGED text

\* The client changes the scanner's mode and drops the last token.
Forget == extent' = NoExtent /\ UNCHANGED <<text, cursor>>

Init == cursor = 0 /\ extent = NoExtent

Next == Token \/ Forget \/ NewStatement

Spec == Init /\ [][Next]_vars
=============================================================================
