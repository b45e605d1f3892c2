------------------------------ MODULE Scanner -------------------------------
(***************************************************************************)
(* The Scanner of parser/scanner.cc: scan(), string and float literals,    *)
(* and the calls a client makes between two tokens.                        *)
(***************************************************************************)
EXTENDS Lexer

\* NewScanner, and the mode set before the first call.
Init == /\ \E t \in Texts : rd = NewReader(t)
        /\ inBang = FALSE
        /\ sqlMode \in Modes
        /\ buf = << >>
        /\ fr = NoFrame
        /\ out = NoToken

-----------------------------------------------------------------------------
\* The client's calls, made when no call of scan() is running.  It drops the
\* last token when it changes the scanner.
Call == /\ At("idle")
        /\ Step(rd, [NoFrame EXCEPT !.pc = "scan", !.from = rd.index, !.fromBang = inBang])

\* A variant of reset: the flag survives.
reset_KeepsBang(sql) ==
    /\ At("idle")
    /\ rd' = NewReader(sql)
    /\ out' = NoToken
    /\ UNCHANGED <<inBang, sqlMode, buf, fr>>

reset(sql) ==
    /\ At("idle")
    /\ rd' = NewReader(sql)
    /\ inBang' = FALSE
    /\ out' = NoToken
    /\ UNCHANGED <<sqlMode, buf, fr>>

SetSQLMode(mode) ==
    /\ At("idle")
    /\ sqlMode' = mode
    /\ out' = NoToken
    /\ UNCHANGED <<rd, inBang, buf, fr>>

\* The client goes on with the new scanner, which has a buffer of its own.
InheritScanner(sql) ==
    /\ At("idle")
    /\ rd' = NewReader(sql)
    /\ inBang' = FALSE
    /\ buf' = << >>
    /\ out' = NoToken
    /\ UNCHANGED <<sqlMode, fr>>

\* scanIdentifierOrString, called on its own: its token starts right at index.
CallWord ==
    /\ At("idle")
    /\ Step(rd, [NoFrame EXCEPT !.pc = "word", !.pos = rd.pos, !.from = rd.index,
                                !.fromBang = inBang])

\* It looks at the next rune, and whatever that is returns 0.
isTokenIdentifier == At("idle") /\ Step(Peeked(rd), fr)

\* The statement up to where the scanner has come; _stmtStartPos is always 0.
stmtText == SubSeq(rd.slice, 1, rd.index)

-----------------------------------------------------------------------------
\* Every return s.scan() comes back here; the frame starts afresh.
Fresh == [NoFrame EXCEPT !.from = fr.from, !.fromBang = fr.fromBang]

scan ==
    /\ At("scan")
    /\ Step(Peeked(rd),
            IF is_space(Peek(rd)) THEN Inc(Fresh, "space", "scanned")
            ELSE [Fresh EXCEPT !.pc = "scanned", !.ch = Peek(rd)])

scanned ==
    /\ At("scanned")
    /\ \/ /\ Eof(rd)
          /\ Return(rd, 0, rd.pos, << >>)
       \/ /\ ~Eof(rd) /\ isIdentExtend(fr.ch)
          /\ Step(rd, Save("ident"))
       \/ /\ ~Eof(rd) /\ ~isIdentExtend(fr.ch)
          /\ Step(rd, Save("trie"))

(***************************************************************************)
(* The walk down the trie.  ch0 = _reader->next() yields the rune that was *)
(* just looked up, not the one after it.                                   *)
(***************************************************************************)
Stub(label) == IF label \in {"at", "dash", "dot"} THEN "stub" ELSE label

trie ==
    LET child == fr.ch \in 0 .. 255 /\ HasChild(fr.node, fr.ch) /\ ~Eof(rd)
        called == fr.node = << >> /\ Handler(fr.ch) # "none"
    IN  \/ /\ At("trie") /\ ~child
           /\ Return(rd, NodeToken(fr.node), fr.pos, Data(rd, fr.pos))
        \/ /\ At("trie") /\ child /\ called
           /\ Step(rd, Goto(Stub(Handler(fr.ch))))
        \/ /\ At("trie") /\ child /\ ~called
           /\ Step(Advance(rd),
                   [fr EXCEPT !.node = Append(fr.node, fr.ch), !.ch = Peek(rd)])

-----------------------------------------------------------------------------
(***************************************************************************)
(* scanString with its lazyBuf.  Once useBuf is set the literal is built   *)
(* in buf, before that it is the text between the quotes.                  *)
(***************************************************************************)
Inner(s) == SubSeq(s, 2, Len(s) - 1)

\* str.substr(1)
Rest(s) == SubSeq(s, 2, Len(s))

\* A variant of setUseBuf: the buffer is not cleared first.
setUseBuf_Appends(content) == IF fr.useBuf THEN buf ELSE buf \o content

setUseBuf(content) == IF fr.useBuf THEN buf ELSE content

\* A variant of writeRune: the width is ignored.
writeRune_OneByte(ch, w) == IF ~fr.useBuf THEN buf ELSE Append(buf, ch % 256)

writeRune(ch, w) ==
    IF ~fr.useBuf THEN buf
    ELSE buf \o (IF w > 1 THEN encode(ch) ELSE <<ch % 256>>)

\* handleEscape's switch; \% and \_ keep their backslash as well.
Escaped(ch) ==
    CASE ch = 110 -> 10     \* n
      [] ch = 48  -> 0      \* 0
      [] ch = 98  -> 8      \* b
      [] ch = 90  -> 26     \* Z
      [] ch = 114 -> 13     \* r
      [] ch = 116 -> 9      \* t
      [] OTHER    -> ch

startString ==
    \/ /\ At("string")
       /\ Step(Advance(rd),
               [Save("stringPeek") EXCEPT !.ending = Peek(rd), !.useBuf = FALSE])
    \/ /\ At("stringPeek")
       /\ Step(Peeked(rd), [Goto("stringLoop") EXCEPT !.ch = Peek(rd)])

\* A variant of scanString: the end of the text does not end the loop.
scanString_IgnoresEof ==
    LET escapes == fr.ch = Backslash /\ ~HasNoBackslashEscapesMode(sqlMode)
    IN  \/ /\ At("stringLoop") /\ fr.ch = fr.ending
           /\ Step(Advance(rd), Goto("afterQuote"))
        \/ /\ At("stringLoop") /\ fr.ch # fr.ending /\ escapes
           /\ StepBuf(Advance(rd), [Goto("afterBackslash") EXCEPT !.useBuf = TRUE],
                      setUseBuf(Rest(Data(rd, fr.pos))))
        \/ /\ At("stringLoop") /\ fr.ch # fr.ending /\ ~escapes
           /\ Step(rd, Goto("write"))

scanString ==
    LET escapes == fr.ch = Backslash /\ ~HasNoBackslashEscapesMode(sqlMode)
    IN  \/ /\ At("stringLoop") /\ Eof(rd)
           /\ Return(rd, rune_invalid, fr.pos, << >>)
        \/ /\ At("stringLoop") /\ ~Eof(rd) /\ fr.ch = fr.ending
           /\ Step(Advance(rd), Goto("afterQuote"))
        \/ /\ At("stringLoop") /\ ~Eof(rd) /\ fr.ch # fr.ending /\ escapes
           /\ StepBuf(Advance(rd), [Goto("afterBackslash") EXCEPT !.useBuf = TRUE],
                      setUseBuf(Rest(Data(rd, fr.pos))))
        \/ /\ At("stringLoop") /\ ~Eof(rd) /\ fr.ch # fr.ending /\ ~escapes
           /\ Step(rd, Goto("write"))

\* The rune after a quote and after a backslash.
afterQuote ==
    LET lit == setUseBuf(Inner(Data(rd, fr.pos)))
    IN  \/ /\ At("afterQuote") /\ Peek(rd) # fr.ending
           /\ Return(Peeked(rd), tok_stringLit, fr.pos, lit)
        \/ /\ At("afterQuote") /\ Peek(rd) = fr.ending
           /\ StepBuf(Peeked(rd), [Goto("write") EXCEPT !.useBuf = TRUE], lit)

handleEscape ==
    /\ At("afterBackslash")
    /\ StepBuf(Peeked(rd), [Goto("write") EXCEPT !.ch = Escaped(Peek(rd))],
               IF Peek(rd) \in {Percent, Underscore} THEN sputc(buf, Backslash) ELSE buf)

\* The end of the loop's body.
writeString ==
    /\ At("write")
    /\ StepBuf(Advance(rd), Goto(IF Eof(rd) THEN "stringLoop" ELSE "stringPeek"),
               writeRune(fr.ch, rd.lastWidth))

\* scanIdentifierOrString: what may follow an @.
scanIdentifierOrString ==
    \/ /\ At("word") /\ Peek(rd) \in {Quote, DQuote}
       /\ Step(Peeked(rd), Goto("string"))
    \/ /\ At("word") /\ Peek(rd) = Backquote
       /\ Step(Peeked(rd), Goto("quoted"))
    \/ /\ At("word") /\ isUserVarChar(Peek(rd))
       /\ Step(Peeked(rd), Inc(Save("word"), "userVarChar", "identEnd"))
    \/ /\ At("word")
       /\ Peek(rd) \notin {Quote, DQuote, Backquote} /\ ~isUserVarChar(Peek(rd))
       /\ Result(Peeked(rd), Peek(rd), Origin, << >>, rd.index)

-----------------------------------------------------------------------------
(***************************************************************************)
(* scanFloat(beg), beg = pos: D1 . D2 e D3 is read again from its start.   *)
(***************************************************************************)
scanFloat ==
    \/ /\ At("float")
       /\ Step(UpdatePos(rd, fr.pos), Inc(fr, "digit", "fraction"))
    \/ /\ At("fraction") /\ Peek(rd) = Dot
       /\ Step(Advance(Peeked(rd)), Inc(fr, "digit", "exponent"))
    \/ /\ At("fraction") /\ Peek(rd) # Dot
       /\ Step(Peeked(rd), Goto("exponent"))
    \/ /\ At("exponent") /\ Peek(rd) \notin {101, 69}
       /\ Return(Peeked(rd), tok_decLit, fr.pos, Data(rd, fr.pos))
    \/ /\ At("exponent") /\ Peek(rd) \in {101, 69}
       /\ Step(Advance(Peeked(rd)), Goto("sign"))

\* A variant of exponent: without its digits the text is read as a float again.
exponent_ReadsAgain ==
    \/ /\ At("sign")
       /\ Step(IF Peek(rd) \in {Minus, Plus} THEN Advance(Peeked(rd)) ELSE Peeked(rd),
               Goto("power"))
    \/ /\ At("power") /\ isDigit(Peek(rd))
       /\ Step(Peeked(rd), Inc(fr, "digit", "floatEnd"))
    \/ /\ At("power") /\ ~isDigit(Peek(rd))
       /\ Step(UpdatePos(Peeked(rd), fr.pos), Goto("float"))
    \/ /\ At("floatEnd")
       /\ Return(rd, tok_floatLit, fr.pos, Data(rd, fr.pos))

\* Without an exponent's digits the text is read as an identifier instead.
exponent ==
    \/ /\ At("sign")
       /\ Step(IF Peek(rd) \in {Minus, Plus} THEN Advance(Peeked(rd)) ELSE Peeked(rd),
               Goto("power"))
    \/ /\ At("power") /\ isDigit(Peek(rd))
       /\ Step(Peeked(rd), Inc(fr, "digit", "floatEnd"))
    \/ /\ At("power") /\ ~isDigit(Peek(rd))
       /\ Step(UpdatePos(Peeked(rd), fr.pos), Inc(fr, "identChar", "identEnd"))
    \/ /\ At("floatEnd")
       /\ Return(rd, tok_floatLit, fr.pos, Data(rd, fr.pos))

-----------------------------------------------------------------------------
Scanning ==
    \/ scan \/ scanned \/ trie \/ incAsLongAs
    \/ startWithStub \/ startWithSlash \/ scanVersionDigits \/ comment
    \/ startWithStar \/ startWithSharp \/ startWithXx \/ startWithBb \/ prefix
    \/ scanIdentifier \/ startWithNn \/ openQuotedIdent \/ scanQuotedIdent
    \/ startWithNumber \/ radixEnd \/ numberTail \/ scanFloat \/ exponent
    \/ startString \/ scanString \/ afterQuote \/ handleEscape \/ writeString
    \/ scanIdentifierOrString

Client ==
    \/ Call \/ CallWord \/ isTokenIdentifier
    \/ \E sql \in Texts : reset(sql) \/ InheritScanner(sql)
    \/ \E mode \in Modes : SetSQLMode(mode)

Next == Scanning \/ Client

Spec == Init /\ [][Next]_vars

\* A client that only calls scan().
ScanSpec == Init /\ [][Scanning \/ Call]_vars

\* scan() runs to its return on the caller's thread: it never waits.
FairScanSpec == ScanSpec /\ WF_vars(Scanning)

\* The same, with the client's other calls.
FairSpec == Spec /\ WF_vars(Scanning)
=============================================================================
