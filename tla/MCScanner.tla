----------------------------- MODULE MCScanner ------------------------------
(***************************************************************************)
(* The instances of Scanner that TLC checks.  Each set of texts is for one *)
(* family of handlers: every string over an alphabet of the characters     *)
(* those handlers tell apart, up to a length at which each of their loops  *)
(* is left both ways, with fixed openings where those take many characters.*)
(***************************************************************************)
EXTENDS ScannerProps

Prefixed(opening, texts) == {opening \o t : t \in texts}

\* / * ! space newline # a, and the openings /* /*! /*!1234
CommentChars == {47, 42, 33, 32, 10, 35, 97}

CommentTexts ==
    SeqOf(CommentChars, 4)
    \cup Prefixed(<<47, 42>>, SeqOf({47, 42, 0, 10}, 4))
    \cup Prefixed(<<47, 42, 33>>, SeqOf({47, 42, 32, 97}, 4))
    \cup Prefixed(<<47, 42, 33, 49, 50, 51, 52>>, SeqOf({53, 97, 10, 42, 47}, 3))

\* Two at a time of everything the trie and the rune classes distinguish,
\* among them a no-break space (C2 A0), U+3000, U+1F600 and a late BOM.
OperatorChars == {33, 36, 38, 58, 60, 61, 62, 63, 92, 94, 124, 43, 64, 45, 46, 78, 1, 0,
                  \hC2, \hA0, \hF0}

OperatorTexts ==
    SeqOf(OperatorChars, 2) \cup SeqOf({60, 61, 62, 32}, 3)
    \cup {<<\hF0, \h9F, \h98, \h80>>, <<32, \hE3, \h80, \h80, 97>>,
          <<97, \hEF, \hBB, \hBF>>}

\* 0 1 8 x b B . e - '
NumberChars == {48, 49, 56, 120, 98, 66, 46, 101, 45, 39}

NumberTexts ==
    SeqOf(NumberChars, 4)
    \cup Prefixed(<<49, 46, 49>>, SeqOf({101, 45, 49, 97}, 3))
    \cup Prefixed(<<49>>, SeqOf({69, 43, 49, 46}, 3))
    \cup Prefixed(<<48>>, SeqOf({88, 70, 46, 69}, 3))

\* x B n ' $ a 1, and é behind a letter that could open a literal
WordTexts ==
    SeqOf({120, 66, 110, 39, 36, 97, 49}, 4)
    \cup Prefixed(<<98>>, SeqOf({\hC3, \hA9, 39}, 3))

TokenTexts == CommentTexts \cup OperatorTexts \cup NumberTexts \cup WordTexts

\* ' " \ n % and a two-byte character, cut short and whole; NUL in an
\* identifier, which ends it as an error when it is the last character
StringChars == {39, 34, 92, 110, 37, \hC3, \hA9}

StringTexts ==
    Prefixed(<<39>>, SeqOf(StringChars, 4))
    \cup Prefixed(<<34>>, SeqOf({34, 92, 48, 37}, 3))
    \cup Prefixed(<<96>>, SeqOf({96, 97}, 5) \cup SeqOf({96, 92, 39}, 3) \cup SeqOf({96, 0}, 3))
    \cup Prefixed(<<110>>, SeqOf({39, 110, 97}, 3))

AllTexts == TokenTexts \cup StringTexts

\* Statements for clients that switch between them.
SessionTexts ==
    {<<47, 42, 33, 97, 42, 47>>,          \* /*!a*/
     <<47, 42, 33, 39, 39, 39>>,          \* /*!'''
     <<42, 47, 49>>,                      \* */1
     <<39, 97, 39, 39, 98, 39>>,          \* 'a''b'
     <<39, 92, 39, 39, 39, 92, 34, 39>>,  \* '\\'''\\"'
     <<10, 49, 46, 101>>,                 \* newline, 1.e
     <<120, 39, 97, 49, 39>>,             \* x'a1'
     <<47, 42, 97>>,                      \* /*a
     <<96, 97, 96, 96>>,                  \* `a``
     <<97, 46, 36, 97>>}                  \* a.$a

DefaultModes == {ModeNone}

StringModes == {ModeNone, {Mode.NoBackslashEscapes}}

\* The flag alone, among others, and others without it.
SessionModes ==
    {ModeNone,
     {Mode.NoBackslashEscapes},
     {Mode.StrictTransTables, Mode.ANSIQuotes},
     {Mode.ANSIQuotes, Mode.NoBackslashEscapes, Mode.AllowInvalidDates}}

\* The statements the discrepancies are shown on.
StrayTexts == {<<97, 45, 97>>, <<46>>, <<64, 97>>, <<47, 42, 97>>}

Unclosed == {<<96>>, <<96, 97>>, <<96, 96, 96>>}

\* A backslash before every byte that can follow it, NUL included.
EscapeTexts == {<<39, 92, c, 39>> : c \in {0, 97, 110, 37, 92, 34}}

\* Doc, scanner.cc:91: the token 0 reminds the parser that the stream is end.
ZeroMeansEnd == Returned /\ out.tok = 0 => out.to = Len(text)

\* The same comment: a scanner that meets EOF returns, with the token 0.
EofEndsScan == ~At("idle") ~> At("idle")

\* Doc, lexer.cc:310: unquoted identifiers may not consist solely of digits.
NoDigitIdentifier ==
    Returned /\ out.tok = tok_identifier => out.lit = << >> \/ ~AllDigits(out.lit)

\* Doc, lexer.cc:290: "0b, 0b123, 0b1ab are identifier", so a word that begins
\* with 0b and is not a bit literal from end to end.
SpoiltBitsAreIdentifier ==
    Returned /\ Looks(text, out.begin, <<48, 98>>) =>
        LET word == SubSeq(text, out.begin + 1, RunEnd(text, out.begin, isIdentChar))
        IN  IsRadix(word, {98}, {48, 49}) \/ (out.tok = tok_identifier /\ out.lit = word)

\* Registration, misc.cc:66-77: an operator's token is returned for its text.
OperatorText ==
    Returned => \A o \in OperatorTokens : out.tok = o.tok => out.lit = o.text

\* Doc, scanner.cc:124-126: of an escape other than those listed only the
\* backslash is removed; so the value is the character behind it.
OtherEscapesKeepChar ==
    Returned /\ out.tok = tok_stringLit /\ Len(text) = 4 /\ text[2] = Backslash =>
        out.lit = EscapedText(text[3])
=============================================================================
