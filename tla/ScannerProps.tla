---------------------------- MODULE ScannerProps ----------------------------
(***************************************************************************)
(* What is claimed of Scanner, with the reference definitions the claims   *)
(* compare it to.  Those read the text alone, without a reader, a trie or  *)
(* a buffer.                                                               *)
(***************************************************************************)
EXTENDS Scanner

text == rd.slice

\* The last call returned a token.
Returned == At("idle") /\ out # NoToken

\* No rune of the text is reported as rune_invalid.
Clean(s) ==
    /\ \A k \in DOMAIN s : s[k] # 0
    /\ \A k \in 0 .. Len(s) - 1 :
          IsMultibyte(s, k) => DecodeValue(s, k) \notin {rune_invalid, rune_bom}

Labels == {"idle", "scan", "scanned", "trie", "inc", "stub", "slash", "slash2", "slash3",
           "version", "comment", "afterStar", "star", "star2", "sharp", "xx", "bb",
           "prefix", "prefixEnd", "ident", "identEnd", "nn", "nnEnd", "quoted",
           "quotedLoop", "quotedNext", "number", "number2", "radixEnd", "digits",
           "numberTail", "float", "fraction", "exponent", "sign", "power", "floatEnd",
           "string", "stringPeek", "stringLoop", "afterQuote", "afterBackslash", "write",
           "word"}

Predicates == {"none", "space", "identChar", "userVarChar", "digit", "octal", "hex", "bit",
               "notStar", "notNewline"}

Frame == [pc : Labels, pos : Pos, mark : Pos, ch : Rune, node : Seq(Byte),
          tok : Nat, pred : Predicates, ret : Labels, star : BOOLEAN,
          ending : Rune, useBuf : BOOLEAN, i : Nat, from : Nat, fromBang : BOOLEAN]

Token == [tok : Int, pos : Pos, lit : Seq(Byte), begin : Nat, from : Nat,
          to : Nat, fromBang : BOOLEAN]

\* Every variable keeps its type; above all, what goes into _buf are bytes.
TypeOK ==
    /\ ReaderOK(rd)
    /\ inBang \in BOOLEAN
    /\ sqlMode \in SQLMode
    /\ buf \in Seq(Byte)
    /\ fr \in Frame
    /\ out \in Token

-----------------------------------------------------------------------------
\* The position the scanner reports is the line and the column (in bytes) of
\* the index in the text, however the index got there: reading on, reading a
\* newline inside a comment or a literal, or going back to a saved position.
PosAccurate ==
    LET newlines == {k \in 1 .. rd.index : text[k] = Newline}
    IN  rd.pos = [line   |-> Cardinality(newlines),
                  col    |-> rd.index - Max(newlines \cup {0}),
                  offset |-> rd.index]

\* A handler that goes back to the position it saved arrives there, line and
\* column included: updatePos throws away the verdict of seek (reader.hh:48),
\* so a refused seek would silently leave the reader where it had run to.
BacktrackLands ==
    LET lands(p) == UpdatePos(rd, p).index = p.offset /\ UpdatePos(rd, p).pos = p
    IN  lands(fr.pos) /\ (At("version") => lands(fr.mark))

-----------------------------------------------------------------------------
\* Reference: where white space, comments and the delimiters of bang comments
\* end, from offset i with or without a bang comment open.
Looks(s, i, chars) ==
    i + Len(chars) <= Len(s) /\ SubSeq(s, i + 1, i + Len(chars)) = chars

FirstFrom(s, i, chars) ==
    LET found == {j \in i .. Len(s) : Looks(s, j, chars)}
    IN  IF found = {} THEN Len(s) ELSE Min(found)

Closed(s, i) == \E j \in i .. Len(s) : Looks(s, j, <<Star, Slash>>)

AfterVersion(s, i) ==
    IF i + 5 <= Len(s) /\ \A k \in 1 .. 5 : isDigit(s[i + k]) THEN i + 5 ELSE i

\* The place behind the white space, the comment or the delimiter that is at
\* offset i, and whether a bang comment is open there; without one it is i.
AfterPiece(s, i, open) ==
    IF i = Len(s) THEN <<i, open>>
    ELSE CASE is_space(RuneAt(s, i)) -> <<i + DecodeWidth(s, i), open>>
           [] Looks(s, i, <<Slash, Star, Bang>>) -> <<AfterVersion(s, i + 3), TRUE>>
           [] /\ Looks(s, i, <<Slash, Star>>)
              /\ ~Looks(s, i, <<Slash, Star, Bang>>)
              /\ Closed(s, i + 2) -> <<FirstFrom(s, i + 2, <<Star, Slash>>) + 2, open>>
           [] Looks(s, i, <<Star, Slash>>) /\ open -> <<i + 2, FALSE>>
           [] s[i + 1] = 35 -> <<FirstFrom(s, i, <<Newline>>), open>>
           [] OTHER -> <<i, open>>

AfterTrivia(s, from, bang) ==
    LET skip[at \in (0 .. Len(s)) \X BOOLEAN] ==
          LET next == AfterPiece(s, at[1], at[2])
          IN  IF next = at THEN at ELSE skip[next]
    IN  skip[<<from, bang>>]

\* Between two tokens scan() drops exactly the white space, the comments and
\* the delimiters of bang comments, never text of the statement, and the flag
\* _inBangComment says whether one is open where the token begins.
SkipsTrivia ==
    Returned /\ Clean(text) =>
        <<out.begin, inBang>> = AfterTrivia(text, out.from, out.fromBang)

\* A bang comment is open only if this very statement has opened it: the flag
\* does not outlive reset() or go over to an inherited scanner.
BangOpenedHere ==
    inBang => \E k \in 0 .. Len(stmtText) : Looks(stmtText, k, <<Slash, Star, Bang>>)

-----------------------------------------------------------------------------
\* A rune that starts no token: rune_invalid, runes past U+FFFF, characters
\* without a rule, and those whose handlers are stubs.
StartsNothing(r) ==
    \/ r = rune_invalid
    \/ r > \hFFFF
    \/ r < \h80 /\ Handler(r) = "none" /\ ~HasChild(<< >>, r)
    \/ Handler(r) \in {"at", "dash", "dot"}

\* A call consumes something of its token unless the text is at its end or the
\* next rune starts no token: a parser that loops over scan() is not held up
\* by anything else.
Progress ==
    Returned /\ out.to = out.begin =>
        out.to = Len(text) \/ StartsNothing(RuneAt(text, out.to))

-----------------------------------------------------------------------------
\* Reference: the literal that opens at offset i with quote q; end is the
\* offset after its closing quote, or 0 if there is none.
Opens(q) == out.begin < Len(text) /\ text[out.begin + 1] = q

LiteralEnd(s, start, q, backslash) ==
    LET end[i \in 0 .. Len(s) + 1] ==
          CASE i >= Len(s) -> 0
            [] i < Len(s) /\ s[i + 1] = q -> IF Looks(s, i, <<q, q>>) THEN end[i + 2] ELSE i + 1
            [] i < Len(s) /\ s[i + 1] = Backslash /\ backslash -> end[i + 2]
            [] OTHER -> end[i + 1]
    IN  end[start + 1]

EscapedText(c) ==
    CASE c \in {37, 95} -> <<92, c>>
      [] c = 110 -> <<10>>   [] c = 48 -> <<0>>    [] c = 98 -> <<8>>
      [] c = 90 -> <<26>>    [] c = 114 -> <<13>>  [] c = 116 -> <<9>>
      [] OTHER -> <<c>>

\* Reference: the text s[i + 1 .. j] between the quotes, byte by byte.
Unquoted(s, i, j, q, backslash) ==
    LET value[k \in i .. j + 1] ==
          CASE k >= j -> << >>
            [] k < j /\ s[k + 1] = q -> <<q>> \o value[k + 2]
            [] k < j /\ s[k + 1] = Backslash /\ backslash ->
                  EscapedText(s[k + 2]) \o value[k + 2]
            [] OTHER -> <<s[k + 1]>> \o value[k + 1]
    IN  value[i]

\* A string literal ends at its own closing quote - not at a doubled one nor
\* at one behind a backslash - and its value is the text in between with each
\* doubled quote halved and each escape replaced, byte for byte, whether it
\* came by way of _buf or not and whatever _buf held before; with
\* NO_BACKSLASH_ESCAPES a backslash is a character like any other.  Without a
\* closing quote the whole rest of the statement is an error.
StringLiterals ==
    \A q \in {Quote, DQuote} :
        Returned /\ Opens(q) /\ Clean(text) =>
            LET end == LiteralEnd(text, out.begin, q, Mode.NoBackslashEscapes \notin sqlMode)
            IN  IF end = 0
                THEN out.tok = rune_invalid /\ out.to = Len(text)
                ELSE /\ out.tok = tok_stringLit
                     /\ out.to = end
                     /\ out.lit = Unquoted(text, out.begin + 1, end - 1, q, Mode.NoBackslashEscapes \notin sqlMode)

\* A quoted identifier of ASCII characters ends at its own backquote and has
\* each doubled backquote halved.  (A character above U+007F is cut down to
\* its low byte by sputc, lexer.cc:256.)
QuotedIdentifiers ==
    /\ Returned /\ Opens(Backquote)
    /\ \A k \in DOMAIN text : text[k] \in 1 .. 127
    => /\ out.tok = tok_quotedIdentifier
       /\ out.to = LiteralEnd(text, out.begin, Backquote, FALSE)
       /\ out.lit = Unquoted(text, out.begin + 1, out.to - 1, Backquote, FALSE)

-----------------------------------------------------------------------------
\* Reference: the texts of the numeric tokens.
AllDigits(s) == \A k \in DOMAIN s : isDigit(s[k])

IsInteger(s) == s # << >> /\ AllDigits(s)

IsRadix(s, letters, allowed) ==
    Len(s) > 2 /\ s[1] = 48 /\ s[2] \in letters /\ \A k \in 3 .. Len(s) : s[k] \in allowed

HexDigits == (48 .. 57) \cup (97 .. 102) \cup (65 .. 70)

IsDecimal(s) ==
    \E k \in 1 .. Len(s) : /\ IsInteger(SubSeq(s, 1, k))
                           /\ \/ k = Len(s)
                              \/ s[k + 1] = Dot /\ AllDigits(SubSeq(s, k + 2, Len(s)))

IsFloat(s) ==
    \E k \in 2 .. Len(s) : /\ s[k] \in {101, 69}
                           /\ IsDecimal(SubSeq(s, 1, k - 1))
                           /\ \/ IsInteger(SubSeq(s, k + 1, Len(s)))
                              \/ /\ k < Len(s)
                                 /\ s[k + 1] \in {Plus, Minus}
                                 /\ IsInteger(SubSeq(s, k + 2, Len(s)))

IsWord(s) == s # << >> /\ \A k \in DOMAIN s : isIdentChar(s[k])

\* The rune after the token.
Follows == IF out.to < Len(text) THEN RuneAt(text, out.to) ELSE rune_eof

\* The digits of an exponent, with or without a sign before them, begin at offset i.
HasExponent(s, i) ==
    \/ i < Len(s) /\ isDigit(s[i + 1])
    \/ i + 1 < Len(s) /\ s[i + 1] \in {Plus, Minus} /\ isDigit(s[i + 2])

\* At offset b begins a decimal number with an e that no exponent follows.
LacksExponent(s, b) ==
    \E x \in b + 1 .. Len(s) - 1 : /\ IsDecimal(SubSeq(s, b + 1, x))
                                  /\ s[x + 1] \in {101, 69}
                                  /\ ~HasExponent(s, x + 1)

\* At offset b begins a hexadecimal or bit literal that a point or an e follows.
GoesOnAsFloat(s, b) ==
    \E x \in b + 3 .. Len(s) - 1 :
        \/ IsRadix(SubSeq(s, b + 1, x), {120, 88}, HexDigits) /\ s[x + 1] = Dot
        \/ IsRadix(SubSeq(s, b + 1, x), {98}, {48, 49}) /\ s[x + 1] \in {Dot, 101, 69}

\* What each kind of token that begins with a digit says of its text and of the
\* rune behind it.
IntegerToken     == IsInteger(out.lit) /\ ~isIdentChar(Follows) /\ Follows # Dot

HexToken         == IsRadix(out.lit, {120, 88}, HexDigits) /\ ~isIdentChar(Follows) /\ Follows # Dot

BitToken         == IsRadix(out.lit, {98}, {48, 49}) /\ ~isIdentChar(Follows) /\ Follows # Dot

DecimalToken ==
    \/ IsDecimal(out.lit) /\ ~AllDigits(out.lit) /\ Follows \notin {101, 69}
    \/ out.lit = <<48>> /\ GoesOnAsFloat(text, out.begin)

DigitWord ==
    /\ IsWord(out.lit) /\ ~isIdentChar(Follows)
    /\ ~IsRadix(out.lit, {120, 88}, HexDigits) /\ ~IsRadix(out.lit, {98}, {48, 49})
    /\ ~IsFloat(out.lit)
    /\ IsInteger(out.lit) => Follows = Dot /\ LacksExponent(text, out.begin)

\* A token that begins with a digit has the form its kind promises and stops
\* where that kind must: an integer, hexadecimal or bit literal not before a point
\* or a character of an identifier, a decimal one - which has a point - not
\* before an e, none before a digit; and what is handed on as an identifier is
\* neither a float nor a hexadecimal or bit literal.  What scanFloat reads twice
\* and what it gives back is neither lost nor taken twice.  Two texts come out
\* otherwise, as the code has it: 0x1. and 0b1e, where scanFloat goes back
\* and stops behind the 0, which is then a decimal literal (see the run radix),
\* and 1.e, whose 1 is an identifier although it is digits only (see the run digits).
NumberTokens ==
    /\ Returned /\ out.begin < Len(text) /\ Clean(text)
    /\ isDigit(text[out.begin + 1])
    => /\ out.lit = SubSeq(text, out.begin + 1, out.to)
       /\ ~isDigit(Follows)
       /\ CASE out.tok = tok_intLit   -> IntegerToken
            [] out.tok = tok_hexLit   -> HexToken
            [] out.tok = tok_bitLit   -> BitToken
            [] out.tok = tok_decLit   -> DecimalToken
            [] out.tok = tok_floatLit -> IsFloat(out.lit)
            [] OTHER                  -> out.tok = tok_identifier /\ DigitWord

-----------------------------------------------------------------------------
\* Reference: the offset after the longest run, from offset i, of runes of a set.
RunEnd(s, i, Member(_)) ==
    LET end[k \in 0 .. Len(s)] ==
          IF k < Len(s) /\ Member(RuneAt(s, k)) THEN end[k + DecodeWidth(s, k)] ELSE k
    IN  end[i]

\* At offset i there is a letter of the set, a quote right behind it.
Introduces(i, letters) ==
    i + 1 < Len(text) /\ text[i + 1] \in letters /\ text[i + 2] = Quote

\* A word behind the trivia is an identifier as a whole: from its first
\* character to the end of the run of identifier characters, also where the
\* letter it starts with could open a hexadecimal, a bit or a national literal -
\* the handlers of x, b and n have read that letter, and startWithXx and
\* startWithBb go back over it - unless a quote comes next.
WordsAreIdentifiers ==
    LET start == AfterTrivia(text, out.from, out.fromBang)[1]
    IN  /\ Returned /\ Clean(text) /\ start < Len(text)
        /\ isIdentChar(RuneAt(text, start)) /\ ~isDigit(text[start + 1])
        /\ ~Introduces(start, {120, 88, 98, 66, 110, 78})
        => /\ out.tok = tok_identifier
           /\ out.to = RunEnd(text, start, isIdentChar)
           /\ out.lit = SubSeq(text, start + 1, out.to)

\* x'...' and b'...' hold digits of their radix only and end at the quote after
\* them; anything else there is an error that stops at the offending character
\* and leaves it unread.
PrefixedLiterals ==
    \A kind \in {<<{120, 88}, HexDigits, tok_hexLit>>, <<{98, 66}, {48, 49}, tok_bitLit>>} :
        LET member(r) == r \in kind[2]
            end == RunEnd(text, out.begin + 2, member)
        IN  Returned /\ Clean(text) /\ Introduces(out.begin, kind[1]) =>
                IF Looks(text, end, <<Quote>>)
                THEN /\ out.tok = kind[3]
                     /\ out.to = end + 1
                     /\ out.lit = SubSeq(text, out.begin + 1, out.to)
                ELSE out.tok = rune_invalid /\ out.to = end /\ out.lit = << >>

-----------------------------------------------------------------------------
\* Each time a handler calls scan() again for what follows a comment or the
\* delimiter of a bang comment, the reader has moved past the character that
\* handler was called for: the calls on the stack are never more than the
\* characters of the statement (lexer.cc:76, 132, 156, 167), going back from a
\* version that is no version included.
NestedScanAdvances ==
    [][fr'.pc = "scan" /\ ~At("idle") => rd'.index > fr.pos.offset]_vars

-----------------------------------------------------------------------------
\* The loop of scanQuotedIdent at the end of the text.
SpinsAtEof == At("quotedNext") /\ fr.ch = rune_eof

\* Every call of scan() returns, on any text and from any state a client can
\* bring the scanner into, unless a backquote is left open.
ScanReturns == ~At("idle") ~> (At("idle") \/ SpinsAtEof)

-----------------------------------------------------------------------------
\* How far a call is from its return.  A handler that goes back to where its
\* token begins, to read it as something else, does so at a lower rank; inside
\* a loop the rank is the same.
Rank(label) ==
    CASE label \in {"scan", "scanned"}                       -> 12
      [] label = "trie"                                      -> 11
      [] label \in {"number", "xx", "bb", "word"}             -> 10
      [] label \in {"number2", "prefix"}                      -> 9
      [] label = "radixEnd"                                  -> 8
      [] label = "digits"                                    -> 7
      [] label = "numberTail"                                -> 6
      [] label = "float"                                     -> 5
      [] label \in {"fraction", "string", "quoted", "nn", "slash", "star"} -> 4
      [] label \in {"exponent", "slash2"}                     -> 3
      [] label \in {"sign", "slash3"}                         -> 2
      [] label \in {"power", "ident", "sharp", "version"}     -> 1
      [] OTHER                                               -> 0

\* While the call looks for its token, and otherwise.
Looking(f) == f.pc \in {"scan", "scanned"} \/ (f.pc = "inc" /\ f.ret = "scanned")

RankOf(f) ==
    IF f.pc # "inc" THEN Rank(f.pc) ELSE IF f.ret = "scan" THEN 0 ELSE Rank(f.ret)

\* What is left of an iteration that reads nothing.  A star at the very end of
\* an unclosed comment takes the loop round once more.
Turn(r, f) ==
    CASE f.pc = "comment" /\ f.star /\ Eof(r)                -> 4
      [] f.pc = "stringPeek"                                 -> 3
      [] f.pc = "afterStar" /\ f.ch = Star /\ Eof(r)          -> 3
      [] f.pc = "stringLoop" /\ ~Eof(r)                      -> 2
      [] f.pc \in {"scan", "afterQuote", "afterBackslash"}    -> 2
      [] f.pc = "comment" /\ ~(f.star /\ Eof(r))             -> 2
      [] f.pc \in {"inc", "write", "quotedNext"}              -> 1
      [] OTHER                                               -> 0

\* What there is to read from the start of the token, the rank, what there is
\* to read from the index, and the turn.
Measure(r, f) ==
    <<Len(r.slice) - (IF Looking(f) THEN r.index ELSE f.pos.offset),
      RankOf(f), Len(r.slice) - r.index, Turn(r, f)>>

\* The lexicographic order.
Less(m, n) == \E k \in 1 .. 4 : m[k] < n[k] /\ \A j \in 1 .. k - 1 : m[j] = n[j]

\* Every step of a call brings it nearer to its return, however often a handler
\* goes back to read its token again or calls scan() for the next one: there is
\* no loop that a text could keep a call in, but that of scanQuotedIdent at the
\* end of the text.
CallsDescend ==
    [][~At("idle") =>
          \/ fr'.pc = "idle"
          \/ Measure(rd', fr') \in [1 .. 4 -> Nat] /\ Less(Measure(rd', fr'), Measure(rd, fr))
          \/ SpinsAtEof']_vars

Stream == INSTANCE TokenStream
    WITH NoExtent <- <<0, 0>>,
         cursor <- IF At("idle") THEN rd.index ELSE fr.from,
         extent <- <<out.begin, out.to>>

\* Calls of scan() yield consecutive extents of the statement's text.
ImplementsTokenStream == Stream!Spec
=============================================================================
