------------------------------- MODULE Reader -------------------------------
(***************************************************************************)
(* A client of reader_t that calls its methods in any order on any of the  *)
(* texts in Texts.  One action per method that changes the reader; the     *)
(* result of the last call is in got (a rune) or ok (a bool).              *)
(***************************************************************************)
EXTENDS Utf8Reader

CONSTANT Texts

ASSUME TextsAssumption == Texts \subseteq Seq(Byte)

VARIABLES rd, got, ok

vars == <<rd, got, ok>>

Init == /\ \E t \in Texts : rd = NewReader(t)
        /\ got = rune_eof
        /\ ok = TRUE

NextRune == /\ got' = Peek(rd)
            /\ rd' = Advance(rd)
            /\ UNCHANGED ok

CurrRune == /\ got' = Peek(rd)
            /\ rd' = Peeked(rd)
            /\ UNCHANGED ok

PrevRune == /\ IF CanRetreat(rd)
               THEN /\ rd' = Retreat(rd)
                    /\ got' = RuneAt(rd.slice, rd'.index)
               ELSE UNCHANGED rd /\ got' = rune_invalid
            /\ UNCHANGED ok

MoveNext == /\ ok' = ~Eof(rd)
            /\ rd' = AdvanceMove(rd)
            /\ UNCHANGED got

MovePrev == /\ ok' = CanRetreat(rd)
            /\ rd' = IF CanRetreat(rd) THEN Retreat(rd) ELSE rd
            /\ UNCHANGED got

Seek(i) == /\ ok' = SeekOk(rd, i)
           /\ rd' = IF SeekOk(rd, i) THEN SeekTo(rd, i) ELSE rd
           /\ UNCHANGED got

Next == \/ NextRune
        \/ CurrRune
        \/ PrevRune
        \/ MoveNext
        \/ MovePrev
        \/ \E i \in 0 .. Len(rd.slice) + 1 : Seek(i)

Spec == Init /\ [][Next]_vars

-----------------------------------------------------------------------------
\* The state is well typed: the index stays inside the text or at its end,
\* and every recorded position and every stacked start is an offset of it.
TypeOK ==
    /\ ReaderOK(rd)
    /\ got \in Rune
    /\ ok \in BOOLEAN

\* The position reported is the one recorded for the index, every position is
\* recorded under its own offset, and each offset the width stack leads back
\* to has one: _idx2pos[_index] never invents the default position {0, 0, 0}
\* (reader.cc:42, :80, :91), whatever mix of calls came before.
RecordedPos ==
    /\ rd.index \in DOMAIN rd.idx2pos
    /\ rd.pos = rd.idx2pos[rd.index]
    /\ \A i \in DOMAIN rd.idx2pos : rd.idx2pos[i].offset = i
    /\ \A k \in DOMAIN rd.starts : rd.starts[k] \in DOMAIN rd.idx2pos

\* seek succeeds on exactly the positions that were handed out and are not
\* ahead: a scanner that saved a position can always go back to it, although
\* _idx2pos keeps entries from runs ahead that were undone since.
SeekExact ==
    \A i \in 0 .. Len(rd.slice) :
        SeekOk(rd, i) <=> /\ i \in DOMAIN rd.idx2pos
                          /\ i <= rd.index
                          /\ rd.slice = << >> \/ i < Len(rd.slice)

\* The line reported is the number of newlines before the index and the offset
\* is the index, whichever of next, move_next, prev, move_prev and seek moved.
LineAccurate ==
    /\ rd.pos.offset = rd.index
    /\ rd.pos.line =
         Cardinality({k \in 1 .. rd.index : rd.slice[k] = 10})

\* Reference: the offsets where a rune starts, in one pass over the text.
BoundariesFrom(s, k) ==
    LET from[i \in 0 .. Len(s)] ==
          IF i = Len(s) THEN {i} ELSE {i} \cup from[i + DecodeWidth(s, i)]
    IN  from[k]

Boundaries(s) == BoundariesFrom(s, 0)

\* Both containers grow with the text, not with the calls.  The table of
\* positions, which is never pruned (reader.cc:71), only ever holds boundaries of
\* runes; and the width stack holds one entry for each rune before the index, no
\* more and no fewer, whatever was read over again, peeked at or gone back from
\* (reader.cc:41, 64, 81, 92, 113).
RecordsBounded ==
    LET passed == {b \in Boundaries(rd.slice) : b < rd.index}
    IN  /\ DOMAIN rd.idx2pos \subseteq Boundaries(rd.slice)
        /\ {rd.starts[k] : k \in DOMAIN rd.starts} = passed
        /\ Len(rd.starts) = Cardinality(passed)
=============================================================================
