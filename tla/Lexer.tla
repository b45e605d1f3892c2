------------------------------- MODULE Lexer --------------------------------
(***************************************************************************)
(* The rule trie of parser/misc.cc and the handlers of parser/lexer.cc     *)
(* that scan() dispatches to on the first character of a token.            *)
(***************************************************************************)
EXTENDS ScannerState

(***************************************************************************)
(* ruleTable.  A node is the string that leads to it from the root.        *)
(***************************************************************************)
SelfTokens == {33, 37, 38, 40, 41, 43, 44, 47, 58, 59, 60, 62, 91, 92, 93, 94,
               123, 124, 125, 126}    \* ! % & ( ) + , / : ; < > [ \ ] ^ { | } ~

OperatorTokens ==
    {[text |-> <<63>>,         tok |-> tok_paramMarker],     \* ?
     [text |-> <<61>>,         tok |-> tok_eq],              \* =
     [text |-> <<124, 124>>,   tok |-> tok_pipes],           \* ||
     [text |-> <<38, 38>>,     tok |-> tok_andand],          \* &&
     [text |-> <<38, 94>>,     tok |-> tok_andnot],          \* &^
     [text |-> <<58, 61>>,     tok |-> tok_assignmentEq],    \* :=
     [text |-> <<60, 61, 62>>, tok |-> tok_nulleq],          \* <=>
     [text |-> <<62, 61>>,     tok |-> tok_ge],              \* >=
     [text |-> <<60, 61>>,     tok |-> tok_le],              \* <=
     [text |-> <<33, 61>>,     tok |-> tok_neq],             \* !=
     [text |-> <<60, 62>>,     tok |-> tok_neqSynonym],      \* <>
     [text |-> <<60, 60>>,     tok |-> tok_lsh],             \* <<
     [text |-> <<62, 62>>,     tok |-> tok_rsh],             \* >>
     [text |-> <<92, 78>>,     tok |-> tok_null]}            \* \N

\* The nodes that carry a token: the root, and the end of each rule.
TokenNodes ==
    {[text |-> << >>, tok |-> tok_invalid]}
    \cup {[text |-> <<c>>, tok |-> c] : c \in SelfTokens}
    \cup OperatorTokens

NodeToken(node) ==
    IF \E n \in TokenNodes : n.text = node
    THEN (CHOOSE n \in TokenNodes : n.text = node).tok
    ELSE 0

\* initTokenFunc: the handler of a first character, if it has one.
Handler(c) ==
    CASE c = 64                   -> "at"
      [] c = Slash                -> "slash"
      [] c = Star                 -> "star"
      [] c = Minus                -> "dash"
      [] c = 35                   -> "sharp"
      [] c \in {88, 120}          -> "xx"
      [] c \in {78, 110}          -> "nn"
      [] c \in {66, 98}           -> "bb"
      [] c = Dot                  -> "dot"
      [] c = Backquote            -> "quoted"
      [] isDigit(c)               -> "number"
      [] c \in {Quote, DQuote}    -> "string"
      [] \/ c \in {Underscore, 36}
         \/ isLetter(c) /\ c \notin {66, 78, 88, 98, 110, 120} -> "ident"
      [] OTHER                    -> "none"

HasChild(node, c) ==
    \/ node = << >> /\ (c \in SelfTokens \/ Handler(c) # "none")
    \/ \E o \in OperatorTokens : /\ Len(o.text) > Len(node)
                                 /\ SubSeq(o.text, 1, Len(node) + 1) = Append(node, c)

-----------------------------------------------------------------------------
\* startWithAt, startWithDash and startWithDot are stubs.
startWithStub == At("stub") /\ ReturnNothing(rd)

(***************************************************************************)
(* startWithSlash: the operator '/', the opener of a bang comment, or the  *)
(* start of a comment; star is currentCharIsStar.                          *)
(***************************************************************************)
startWithSlash ==
    \/ /\ At("slash")
       /\ Step(Advance(rd), Save("slash2"))
    \/ /\ At("slash2") /\ Peek(rd) # Star
       /\ Return(Peeked(rd), Slash, fr.pos, <<Slash>>)
    \/ /\ At("slash2") /\ Peek(rd) = Star
       /\ Step(Advance(Peeked(rd)), Goto("slash3"))
    \/ /\ At("slash3") /\ Peek(rd) = Bang
       /\ Step(Advance(rd), [Goto("version") EXCEPT !.mark = Advance(rd).pos, !.i = 0])
    \/ /\ At("slash3") /\ Peek(rd) # Bang
       /\ Step(Advance(rd), [Goto("comment") EXCEPT !.star = Peek(rd) = Star])

\* scanVersionDigits(min, max): min..max digits, or none at all; mark is pos.
\* Then the bang comment is open and what it encloses is scanned.
versionMin == 5

versionMax == 5

\* A variant of scanVersionDigits: it goes back to the comment's first character.
scanVersionDigits_ToSlash ==
    \/ /\ At("version") /\ fr.i < versionMax /\ isDigit(Peek(rd))
       /\ Step(Advance(Peeked(rd)), [fr EXCEPT !.i = fr.i + 1])
    \/ /\ At("version") /\ fr.i < versionMin /\ ~isDigit(Peek(rd))
       /\ Rescan(UpdatePos(Peeked(rd), fr.pos), TRUE)
    \/ /\ At("version") /\ fr.i >= versionMin
       /\ fr.i = versionMax \/ ~isDigit(Peek(rd))
       /\ Rescan(IF fr.i = versionMax THEN rd ELSE Peeked(rd), TRUE)

scanVersionDigits ==
    \/ /\ At("version") /\ fr.i < versionMax /\ isDigit(Peek(rd))
       /\ Step(Advance(Peeked(rd)), [fr EXCEPT !.i = fr.i + 1])
    \/ /\ At("version") /\ fr.i < versionMin /\ ~isDigit(Peek(rd))
       /\ Rescan(UpdatePos(Peeked(rd), fr.mark), TRUE)
    \/ /\ At("version") /\ fr.i >= versionMin
       /\ fr.i = versionMax \/ ~isDigit(Peek(rd))
       /\ Rescan(IF fr.i = versionMax THEN rd ELSE Peeked(rd), TRUE)

\* The comment's loop: find a star unless one was just read, then look at the
\* rune after it.
comment ==
    \/ /\ At("comment") /\ ~fr.star
       /\ Step(rd, Inc(fr, "notStar", "afterStar"))
    \/ /\ At("comment") /\ fr.star
       /\ Step(rd, [Goto("afterStar") EXCEPT !.ch = Star])
    \/ /\ At("afterStar") /\ fr.ch # Star
       /\ ReturnNothing(rd)
    \/ /\ At("afterStar") /\ fr.ch = Star /\ Peek(rd) = Slash
       /\ Step(Advance(rd), Goto("scan"))
    \/ /\ At("afterStar") /\ fr.ch = Star /\ Peek(rd) # Slash
       /\ Step(Advance(rd), [Goto("comment") EXCEPT !.star = Peek(rd) = Star])

startWithStar ==
    \/ /\ At("star")
       /\ Step(Advance(rd), Save("star2"))
    \/ /\ At("star2") /\ inBang /\ Peek(rd) = Slash
       /\ Rescan(Advance(Peeked(rd)), FALSE)
    \/ /\ At("star2") /\ ~(inBang /\ Peek(rd) = Slash)
       /\ Return(IF inBang THEN Peeked(rd) ELSE rd, Star, fr.pos, <<Star>>)

startWithSharp == At("sharp") /\ Step(rd, Inc(fr, "notNewline", "scan"))

(***************************************************************************)
(* startWithXx and startWithBb: x'hex' and b'bits', or an identifier that  *)
(* starts with the letter.                                                 *)
(***************************************************************************)
startWithXx ==
    At("xx") /\ Step(Advance(rd), [Save("prefix") EXCEPT !.tok = tok_hexLit, !.pred = "hex"])

startWithBb ==
    At("bb") /\ Step(Advance(rd), [Save("prefix") EXCEPT !.tok = tok_bitLit, !.pred = "bit"])

\* A variant of prefix: the letter is not given back to the identifier.
prefix_KeepsLetter ==
    \/ /\ At("prefix") /\ Peek(rd) = Quote
       /\ Step(Advance(Peeked(rd)), Inc(fr, fr.pred, "prefixEnd"))
    \/ /\ At("prefix") /\ Peek(rd) # Quote
       /\ Step(Peeked(rd), Goto("ident"))
    \/ /\ At("prefixEnd") /\ Peek(rd) = Quote
       /\ LET closed == Advance(Peeked(rd))
          IN  Return(closed, fr.tok, fr.pos, Data(closed, fr.pos))
    \/ /\ At("prefixEnd") /\ Peek(rd) # Quote
       /\ Return(Peeked(rd), rune_invalid, fr.pos, << >>)

\* A variant of prefix: the literal ends where its digits do, quote or not.
prefix_NeedsNoClosing ==
    \/ /\ At("prefix") /\ Peek(rd) = Quote
       /\ Step(Advance(Peeked(rd)), Inc(fr, fr.pred, "prefixEnd"))
    \/ /\ At("prefix") /\ Peek(rd) # Quote
       /\ Step(UpdatePos(Peeked(rd), fr.pos), Goto("ident"))
    \/ /\ At("prefixEnd")
       /\ LET closed == IF Peek(rd) = Quote THEN Advance(Peeked(rd)) ELSE Peeked(rd)
          IN  Return(closed, fr.tok, fr.pos, Data(closed, fr.pos))

prefix ==
    \/ /\ At("prefix") /\ Peek(rd) = Quote
       /\ Step(Advance(Peeked(rd)), Inc(fr, fr.pred, "prefixEnd"))
    \/ /\ At("prefix") /\ Peek(rd) # Quote
       /\ Step(UpdatePos(Peeked(rd), fr.pos), Goto("ident"))
    \/ /\ At("prefixEnd") /\ Peek(rd) = Quote
       /\ LET closed == Advance(Peeked(rd))
          IN  Return(closed, fr.tok, fr.pos, Data(closed, fr.pos))
    \/ /\ At("prefixEnd") /\ Peek(rd) # Quote
       /\ Return(Peeked(rd), rune_invalid, fr.pos, << >>)

-----------------------------------------------------------------------------
scanIdentifier ==
    \/ /\ At("ident")
       /\ Step(rd, Inc(Save("ident"), "identChar", "identEnd"))
    \/ /\ At("identEnd")
       /\ Return(rd, tok_identifier, fr.pos, Data(rd, fr.pos))

\* N'...' announces the charset of the string that follows.
startWithNn ==
    LET lit == Data(rd, fr.pos)
        alone == lit \in {<<78>>, <<110>>}
    IN  \/ /\ At("nn")
           /\ Step(rd, Inc(Save("nn"), "identChar", "nnEnd"))
        \/ /\ At("nnEnd") /\ alone /\ Peek(rd) = Quote
           /\ Return(Peeked(rd), tok_underscoreCS, fr.pos, <<117, 116, 102, 56>>)
        \/ /\ At("nnEnd") /\ ~(alone /\ Peek(rd) = Quote)
           /\ Return(IF alone THEN Peeked(rd) ELSE rd, tok_identifier, fr.pos, lit)

(***************************************************************************)
(* scanQuotedIdent.  next() at the end of the text returns EOF, which the  *)
(* loop does not test for: it appends 0xff to the buffer and goes on.      *)
(* MaxBuf bounds the buffer there.                                         *)
(***************************************************************************)
\* A variant of sputc: the rune is not cut to a byte.
sputc_NoTruncation(b, c) == Append(b, c)

sputc(b, c) == Append(b, c % 256)

\* A variant of openQuotedIdent: the buffer is not cleared.
openQuotedIdent_KeepsBuffer ==
    At("quoted") /\ StepBuf(Advance(rd), Save("quotedLoop"), buf)

openQuotedIdent ==
    At("quoted") /\ StepBuf(Advance(rd), Save("quotedLoop"), << >>)

scanQuotedIdent ==
    \/ /\ At("quotedLoop")
       /\ Step(Advance(rd), [Goto("quotedNext") EXCEPT !.ch = Peek(rd)])
    \/ /\ At("quotedNext") /\ fr.ch = rune_invalid /\ Eof(rd)
       /\ Return(rd, rune_invalid, fr.pos, << >>)
    \/ /\ At("quotedNext") /\ fr.ch = Backquote /\ Peek(rd) # Backquote
       /\ Return(Peeked(rd), tok_quotedIdentifier, fr.pos, buf)
    \/ /\ At("quotedNext") /\ fr.ch = Backquote /\ Peek(rd) = Backquote
       /\ StepBuf(Advance(Peeked(rd)), Goto("quotedLoop"), sputc(buf, fr.ch))
    \/ /\ At("quotedNext") /\ fr.ch # Backquote /\ ~(fr.ch = rune_invalid /\ Eof(rd))
       /\ StepBuf(rd, Goto("quotedLoop"),
                  IF fr.ch = rune_eof /\ Len(buf) >= MaxBuf THEN buf ELSE sputc(buf, fr.ch))

-----------------------------------------------------------------------------
(***************************************************************************)
(* startWithNumber.  The test of _identifierDot is left out: nothing ever  *)
(* sets that flag.                                                         *)
(***************************************************************************)
startWithNumber ==
    \/ /\ At("number")
       /\ Step(Advance(rd), [Save("number2") EXCEPT !.tok = tok_intLit, !.ch = Peek(rd)])
    \/ /\ At("number2") /\ fr.ch # 48
       /\ Step(rd, Goto("digits"))
    \/ /\ At("number2") /\ fr.ch = 48 /\ Peek(rd) \in 48 .. 55
       /\ Step(Advance(Peeked(rd)), Inc(fr, "octal", "digits"))
    \/ /\ At("number2") /\ fr.ch = 48 /\ Peek(rd) \in {120, 88}
       /\ Step(Advance(Peeked(rd)),
               Inc([fr EXCEPT !.tok = tok_hexLit, !.mark = Advance(rd).pos], "hex", "radixEnd"))
    \/ /\ At("number2") /\ fr.ch = 48 /\ Peek(rd) = 98
       /\ Step(Advance(Peeked(rd)),
               Inc([fr EXCEPT !.tok = tok_bitLit, !.mark = Advance(rd).pos], "bit", "radixEnd"))
    \/ /\ At("number2") /\ fr.ch = 48 /\ Peek(rd) = Dot
       /\ Step(Peeked(rd), Goto("float"))
    \/ /\ At("number2") /\ fr.ch = 48 /\ Peek(rd) = 66
       /\ Step(Peeked(rd), Inc(fr, "identChar", "identEnd"))
    \/ /\ At("number2") /\ fr.ch = 48
       /\ Peek(rd) \notin (48 .. 55) \cup {120, 88, 98, Dot, 66}
       /\ Step(Peeked(rd), Goto("digits"))

\* A variant of radixEnd: no look-ahead after the digits.
radixEnd_AnyDigit ==
    \/ /\ At("radixEnd") /\ rd.pos = fr.mark
       /\ Step(rd, Inc(fr, "identChar", "identEnd"))
    \/ /\ At("radixEnd") /\ rd.pos # fr.mark
       /\ Step(Peeked(rd), Goto("digits"))

\* 0x and 0b without digits, or with a digit of another radix after them, are
\* identifiers.
radixEnd ==
    LET word == rd.pos = fr.mark \/ isDigit(Peek(rd))
    IN  \/ /\ At("radixEnd") /\ word
           /\ Step(IF rd.pos = fr.mark THEN rd ELSE Peeked(rd),
                   Inc(fr, "identChar", "identEnd"))
        \/ /\ At("radixEnd") /\ ~word
           /\ Step(Peeked(rd), Goto("digits"))

numberTail ==
    LET word == ~Eof(rd) /\ isIdentChar(Peek(rd))
    IN  \/ /\ At("digits")
           /\ Step(rd, Inc(fr, "digit", "numberTail"))
        \/ /\ At("numberTail") /\ Peek(rd) \in {Dot, 101, 69}
           /\ Step(Peeked(rd), Goto("float"))
        \/ /\ At("numberTail") /\ Peek(rd) \notin {Dot, 101, 69} /\ word
           /\ Step(Peeked(rd), Inc(fr, "identChar", "identEnd"))
        \/ /\ At("numberTail") /\ Peek(rd) \notin {Dot, 101, 69} /\ ~word
           /\ Return(Peeked(rd), fr.tok, fr.pos, Data(rd, fr.pos))
=============================================================================
