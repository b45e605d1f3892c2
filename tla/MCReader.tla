------------------------------ MODULE MCReader ------------------------------
(***************************************************************************)
(* Reader on every text of at most three of ReaderBytes, and on a few      *)
(* longer ones.  The bytes are a letter, a newline, NUL, and what it takes *)
(* to write the byte order mark (EF BB BF), whole or cut short; the longer *)
(* texts add U+FFFD and sequences of two and four bytes.                   *)
(***************************************************************************)
EXTENDS Reader

ReaderBytes == {97, 10, 0, \hEF, \hBB, \hBF}

MCTexts ==
    SeqOf(ReaderBytes, 3) \cup
    {<<\hEF, \hBB, \hBF, \hEF, \hBB, \hBF>>, <<\hEF, \hBF, \hBD, 97>>,
     <<97, \hF0, \h9F, \h98, \h80, 10>>, <<\hC3, \hBB, 10, \hE4, \hBD>>}

\* The runes of s from offset i on, decoded in one pass.
RunesFrom(s, from) ==
    LET runes[i \in 0 .. Len(s)] ==
          IF i = Len(s) THEN << >>
          ELSE <<RuneAt(s, i)>> \o runes[i + DecodeWidth(s, i)]
    IN  runes[from]

RunesBefore(s, to) ==
    LET all == RunesFrom(s, 0)
    IN  SubSeq(all, 1, Len(all) - Len(RunesFrom(s, to)))

Cursor == INSTANCE RuneCursor
    WITH Runes <- Rune, AtEnd <- rune_eof, AtStart <- rune_invalid,
         left <- RunesBefore(rd.slice, rd.index),
         right <- RunesFrom(rd.slice, rd.index)

\* The reader implements the rune cursor: every method moves and answers as if
\* the text had been decoded from its start, so prev after next is the same
\* rune, and no seek ever stops inside a multi-byte sequence.
ImplementsCursor == Cursor!Spec
=============================================================================
