---------------------------- MODULE ScannerState ----------------------------
(***************************************************************************)
(* The state of parser/scanner.hh's Scanner and of the call of scan() that *)
(* is running, with the steps the handlers of lexer.cc and scanner.cc are  *)
(* made of.  Scanner.tla gives the whole machine.                          *)
(*                                                                         *)
(* scan() and its handlers become a machine with a program counter: the    *)
(* locals of the running handler are the fields of the frame fr, a loop    *)
(* iteration is one step, and incAsLongAs, which every handler calls, is a *)
(* subroutine (fr.pred, fr.ret).  The handlers only ever tail-call scan(), *)
(* so one frame is enough.                                                 *)
(***************************************************************************)
EXTENDS Utf8Reader, SqlMode

CONSTANTS
    Texts,      \* the statements the client hands over
    Modes,      \* the SQL modes the client sets
    MaxBuf      \* bound on _buf where the code appends to it for ever

ASSUME TextsAssumption == Texts \subseteq Seq(Byte)
ASSUME ModesAssumption == Modes \subseteq SQLMode
ASSUME MaxBufAssumption == MaxBuf \in Nat

VARIABLES
    rd,             \* *_reader
    inBang,         \* _inBangComment
    sqlMode,        \* _sqlMode
    buf,            \* _buf, always written at its end
    fr,             \* the frame of the running call
    out             \* the result of the last call

vars == <<rd, inBang, sqlMode, buf, fr, out>>

\* parser/token.hh
tok_invalid == 1111
tok_paramMarker == 1112
tok_neq == 1113
tok_eq == 1114
tok_pipes == 1115
tok_andand == 1116
tok_andnot == 1117
tok_assignmentEq == 1118
tok_nulleq == 1119
tok_ge == 1120
tok_le == 1121
tok_neqSynonym == 1122
tok_lsh == 1123
tok_rsh == 1124
tok_identifier == 1355
tok_null == 1481
tok_stringLit == 1880
tok_intLit == 1881
tok_hexLit == 1882
tok_bitLit == 1883
tok_floatLit == 1884
tok_decLit == 1885
tok_underscoreCS == 1886
tok_quotedIdentifier == 1887

\* The characters the handlers test for, by name.
Newline == 10
Bang == 33
DQuote == 34
Percent == 37
Quote == 39
Star == 42
Plus == 43
Minus == 45
Dot == 46
Slash == 47
Backslash == 92
Underscore == 95
Backquote == 96

-----------------------------------------------------------------------------
(***************************************************************************)
(* from and fromBang are history: where the reader stood and whether a     *)
(* bang comment was open when the client called scan().                    *)
(***************************************************************************)
NoFrame ==
    [pc |-> "idle", pos |-> Origin, mark |-> Origin, ch |-> 0, node |-> << >>,
     tok |-> 0, pred |-> "none", ret |-> "idle", star |-> FALSE, ending |-> 0,
     useBuf |-> FALSE, i |-> 0, from |-> 0, fromBang |-> FALSE]

\* No call returns -2.  begin is where the scanner took the token to begin:
\* pos.offset, save for the handlers that return {} and so lose their position.
NoToken ==
    [tok |-> -2, pos |-> Origin, lit |-> << >>, begin |-> 0, from |-> 0,
     to |-> 0, fromBang |-> FALSE]

At(label) == fr.pc = label

Goto(label) == [fr EXCEPT !.pc = label]

\* auto pos = _reader->pos(); ... the handler goes on at label.
Save(label) == [fr EXCEPT !.pc = label, !.pos = rd.pos]

\* f calls incAsLongAs(pred) and goes on at ret.
Inc(f, pred, ret) == [f EXCEPT !.pc = "inc", !.pred = pred, !.ret = ret]

\* A step of the running call that touches the reader and the frame only.
Step(r, f) == rd' = r /\ fr' = f /\ UNCHANGED <<inBang, sqlMode, buf, out>>

\* A step that writes to the buffer as well.
StepBuf(r, f, b) ==
    rd' = r /\ fr' = f /\ buf' = b /\ UNCHANGED <<inBang, sqlMode, out>>

\* A variant of Rescan: the end of a bang comment does not close it.
Rescan_NeverCloses(r, bang) ==
    /\ rd' = r
    /\ fr' = Goto("scan")
    /\ inBang' = (inBang \/ bang)
    /\ UNCHANGED <<sqlMode, buf, out>>

\* return s.scan() with the bang comment opened or closed.
Rescan(r, bang) ==
    /\ rd' = r
    /\ fr' = Goto("scan")
    /\ inBang' = bang
    /\ UNCHANGED <<sqlMode, buf, out>>

Result(r, tok, pos, lit, begin) ==
    /\ rd' = r
    /\ fr' = NoFrame
    /\ out' = [tok |-> tok, pos |-> pos, lit |-> lit, begin |-> begin,
               from |-> fr.from, to |-> r.index, fromBang |-> fr.fromBang]
    /\ UNCHANGED <<inBang, sqlMode, buf>>

\* return {tok, pos, lit};
Return(r, tok, pos, lit) == Result(r, tok, pos, lit, pos.offset)

\* return {}; every member of the tuple is zero.
ReturnNothing(r) == Result(r, 0, Origin, << >>, fr.pos.offset)

-----------------------------------------------------------------------------
(***************************************************************************)
(* reader_t::incAsLongAs: read on while the predicate holds.  It returns   *)
(* the first rune that fails it, and 0 - not that rune - when it holds of  *)
(* EOF or of rune_invalid.                                                 *)
(***************************************************************************)
Holds(pred, r) ==
    CASE pred = "space"      -> is_space(r)
      [] pred = "identChar"  -> isIdentChar(r)
      [] pred = "userVarChar" -> isUserVarChar(r)
      [] pred = "digit"      -> isDigit(r)
      [] pred = "octal"      -> r \in 48 .. 55
      [] pred = "hex"        -> r \in (48 .. 57) \cup (97 .. 102) \cup (65 .. 70)
      [] pred = "bit"        -> r \in {48, 49}
      [] pred = "notStar"    -> r # Star
      [] pred = "notNewline" -> r # Newline

IncNext == /\ At("inc")
           /\ Holds(fr.pred, Peek(rd))
           /\ ~is_errored(Peek(rd))
           /\ Step(Advance(Peeked(rd)), fr)

\* A variant of IncErrored: EOF and bad bytes do not stop the loop.
IncErrored_KeepsGoing ==
    /\ At("inc")
    /\ Holds(fr.pred, Peek(rd))
    /\ is_errored(Peek(rd))
    /\ Step(Advance(Peeked(rd)), fr)

IncErrored == /\ At("inc")
              /\ Holds(fr.pred, Peek(rd))
              /\ is_errored(Peek(rd))
              /\ Step(Peeked(rd), [fr EXCEPT !.pc = fr.ret, !.ch = 0])

IncStop == /\ At("inc")
           /\ ~Holds(fr.pred, Peek(rd))
           /\ Step(Peeked(rd), [fr EXCEPT !.pc = fr.ret, !.ch = Peek(rd)])

incAsLongAs == IncNext \/ IncErrored \/ IncStop
=============================================================================
