----------------------------- MODULE Utf8Reader -----------------------------
(***************************************************************************)
(* reader_t of common/utf8/reader.hh and reader.cc as a value and pure     *)
(* operators, for the modules that drive one: Reader (any client) and      *)
(* Scanner.  A method that changes the reader becomes an operator from a   *)
(* reader to a reader; its result is an operator of its own.               *)
(*                                                                         *)
(* A reader r has                                                          *)
(*   slice      _slice, the text                                           *)
(*   index      _index, the byte offset of the next rune                   *)
(*   pos        _pos, the line, column and offset reported for index       *)
(*   idx2pos    _idx2pos, the positions recorded so far, by index          *)
(*   starts     _width_stack.  The width w pushed when the rune at offset  *)
(*              o was read is kept as the offset it leads back to:         *)
(*              _index -= top() is index := the last of starts             *)
(*   lastWidth  _last_width, the width of the rune last peeked at          *)
(***************************************************************************)
EXTENDS Utf8, SequencesExt

Pos == [line : Nat, col : Nat, offset : Nat]

Origin == [line |-> 0, col |-> 0, offset |-> 0]

\* f with key k, new or old, mapped to v.
Put(f, k, v) == [x \in DOMAIN f \cup {k} |-> IF x = k THEN v ELSE f[x]]

NewReader(text) ==
    [slice |-> text, index |-> 0, pos |-> Origin,
     idx2pos |-> [i \in {0} |-> Origin], starts |-> << >>, lastWidth |-> 1]

ReaderOK(r) ==
    /\ r \in [slice : Seq(Byte), index : Nat, pos : Pos, idx2pos : {r.idx2pos},
              starts : Seq(Nat), lastWidth : 1 .. 4]
    /\ r.index <= Len(r.slice)
    /\ DOMAIN r.idx2pos \subseteq 0 .. Len(r.slice)
    /\ r.idx2pos \in [DOMAIN r.idx2pos -> Pos]

Eof(r) == r.index >= Len(r.slice)

\* read(): NUL, and a byte order mark that does not start the text, are
\* reported as rune_invalid; the width is still that of the bytes there.
RuneAt(s, i) ==
    CASE s[i + 1] = 0 -> rune_invalid
      [] i > 0 /\ DecodeValue(s, i) = rune_bom -> rune_invalid
      [] OTHER -> DecodeValue(s, i)

\* curr(), peek(): the rune at index; the call remembers its width.
Peek(r) == IF Eof(r) THEN rune_eof ELSE RuneAt(r.slice, r.index)

Peeked(r) ==
    IF Eof(r) THEN r
    ELSE [r EXCEPT !.lastWidth = DecodeWidth(r.slice, r.index)]

-----------------------------------------------------------------------------
\* A variant of Forward: the position is recorded before the index moves on.
Forward_RecordsOldIndex(r, p) ==
    [r EXCEPT !.index   = p.offset,
              !.pos     = p,
              !.idx2pos = Put(r.idx2pos, r.index, p),
              !.starts  = Append(r.starts, r.index)]

\* The reader after the rune at index is consumed and reported at p.
Forward(r, p) ==
    [r EXCEPT !.index   = p.offset,
              !.pos     = p,
              !.idx2pos = Put(r.idx2pos, p.offset, p),
              !.starts  = Append(r.starts, r.index)]

\* A variant of PosAfterNext: the width is that of the rune looked at last.
PosAfterNext_StaleWidth(r) ==
    LET newline == RuneAt(r.slice, r.index) = 10
    IN  [line   |-> IF newline THEN r.pos.line + 1 ELSE r.pos.line,
         col    |-> IF newline THEN 0 ELSE r.pos.col + r.lastWidth,
         offset |-> r.index + r.lastWidth]

\* next(): a newline starts the next line at column 0.
PosAfterNext(r) ==
    LET w == DecodeWidth(r.slice, r.index)
        newline == RuneAt(r.slice, r.index) = 10
    IN  [line   |-> IF newline THEN r.pos.line + 1 ELSE r.pos.line,
         col    |-> IF newline THEN 0 ELSE r.pos.col + w,
         offset |-> r.index + w]

\* A variant of Advance: the width is not pushed.
Advance_NoPush(r) ==
    IF Eof(r) THEN r ELSE [Forward(r, PosAfterNext(r)) EXCEPT !.starts = r.starts]

Advance(r) == IF Eof(r) THEN r ELSE Forward(r, PosAfterNext(r))

\* move_next(): here the width of the newline is added after the reset.
PosAfterMove(r) ==
    LET w == DecodeWidth(r.slice, r.index)
        newline == RuneAt(r.slice, r.index) = 10
    IN  [line   |-> IF newline THEN r.pos.line + 1 ELSE r.pos.line,
         col    |-> IF newline THEN w ELSE r.pos.col + w,
         offset |-> r.index + w]

\* A variant of AdvanceMove: the width is not pushed.
AdvanceMove_NoPush(r) ==
    IF Eof(r) THEN r ELSE [Forward(r, PosAfterMove(r)) EXCEPT !.starts = r.starts]

AdvanceMove(r) == IF Eof(r) THEN r ELSE Forward(r, PosAfterMove(r))

\* prev() and move_prev() pop one rune.
CanRetreat(r) == r.index # 0 /\ r.starts # << >>

\* A variant of Retreat: the position stays behind.
Retreat_KeepsPos(r) ==
    [r EXCEPT !.index = Last(r.starts), !.starts = Front(r.starts)]

Retreat(r) ==
    LET back == Last(r.starts)
    IN  [r EXCEPT !.index  = back,
                  !.pos    = r.idx2pos[back],
                  !.starts = Front(r.starts)]

(***************************************************************************)
(* seek(i): refused past the last byte (on an empty text size() - 1 wraps  *)
(* around and refuses nothing), where no position is recorded, ahead of    *)
(* index, and where popping widths steps over i.  Landings are the indices *)
(* the popping loop can stop at, paired with the runes left on the stack.  *)
(***************************************************************************)
Landings(r) ==
    {<<r.index, Len(r.starts)>>} \cup {<<r.starts[k], k - 1>> : k \in 1 .. Len(r.starts)}

SeekOk(r, i) ==
    /\ r.slice = << >> \/ i < Len(r.slice)
    /\ i \in DOMAIN r.idx2pos
    /\ i <= r.index
    /\ \E l \in Landings(r) : l[1] = i

\* A variant of SeekTo: the widths popped on the way stay on the stack.
SeekTo_KeepsStack(r, i) == [r EXCEPT !.index = i, !.pos = r.idx2pos[i]]

\* A variant of SeekTo: the position stays behind.
SeekTo_KeepsPos(r, i) ==
    IF i = r.index THEN r
    ELSE LET k == CHOOSE k \in 1 .. Len(r.starts) : r.starts[k] = i
         IN  [r EXCEPT !.index = i, !.starts = SubSeq(r.starts, 1, k - 1)]

SeekTo(r, i) ==
    IF i = r.index THEN [r EXCEPT !.pos = r.idx2pos[i]]
    ELSE LET k == CHOOSE k \in 1 .. Len(r.starts) : r.starts[k] = i
         IN  [r EXCEPT !.index  = i,
                       !.pos    = r.idx2pos[i],
                       !.starts = SubSeq(r.starts, 1, k - 1)]

\* A variant of UpdatePos: the column is taken for the offset.
UpdatePos_ByColumn(r, p) == IF SeekOk(r, p.col) THEN SeekTo(r, p.col) ELSE r

\* updatePos(pos) ignores whether the seek succeeded.
UpdatePos(r, p) == IF SeekOk(r, p.offset) THEN SeekTo(r, p.offset) ELSE r

\* data(from): the text from a position up to index.
Data(r, from) == SubSeq(r.slice, from.offset + 1, r.index)
=============================================================================
