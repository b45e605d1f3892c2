--------------------------- MODULE LiteralProofs ----------------------------
(***************************************************************************)
(* What the tokens are made of, for every set of statements: which handler *)
(* a character leads to, and what that handler makes of the text behind    *)
(* it.                                                                     *)
(***************************************************************************)
EXTENDS ScannerProofs

\* The label that a call is at, or that incAsLongAs goes back to.
Stage(f) == IF f.pc = "inc" THEN f.ret ELSE f.pc

\* The handlers at their first character.
Entries == {"slash", "star", "sharp", "xx", "bb", "nn", "quoted", "number", "string", "ident"}

Slashing == {"slash", "slash2", "slash3", "version", "comment", "afterStar"}

\* The characters whose handlers come to a label.
LedBy(at, h) ==
    /\ at = "stub" => h \in {"at", "dash", "dot"}
    /\ at \in Slashing => h = "slash"
    /\ at \in {"star", "star2"} => h = "star"
    /\ at = "sharp" => h = "sharp"
    /\ at = "xx" => h = "xx"
    /\ at = "bb" => h = "bb"
    /\ at \in {"prefix", "prefixEnd"} => h \in {"xx", "bb"}
    /\ at \in {"nn", "nnEnd"} => h = "nn"
    /\ at \in {"quoted"} \cup Quoting => h = "quoted"
    /\ at \in {"number"} \cup Numeric => h = "number"
    /\ at \in {"string"} \cup Stringing => h = "string"
    /\ at = "ident" => h \in {"ident", "xx", "bb", "none"}
    /\ at = "identEnd" => h \in {"ident", "xx", "bb", "none", "number"}

\* A quote right behind the first character of the token.
QuoteNext(r, f) ==
    f.pos.offset + 1 < Len(r.slice) /\ r.slice[f.pos.offset + 2] = Quote

\* The character that a token begins with is one of the handler that runs; only
\* the runes without a handler go further down the trie.
Led(r, f) ==
    LET at == Stage(f)
        first == FirstRune(r, f)
        h == Handler(first)
    IN  /\ at \notin {"idle", "scan", "scanned", "trie"} => f.pos.offset < Len(r.slice)
        /\ f.pc \in Entries => r.index = f.pos.offset
        /\ f.pc = "prefix" => r.index = f.pos.offset + 1
        /\ LedBy(at, h)
        /\ at = "trie" /\ f.node # << >> => h = "none"
        /\ at \in {"ident", "identEnd"} =>
             /\ isIdentChar(first)
             /\ h \in {"xx", "bb"} => ~QuoteNext(r, f)

-----------------------------------------------------------------------------
(* ASCII. *)

\* What takes more than one byte is not ASCII.
LEMMA MultibyteIsNotAscii ==
    ASSUME NEW s \in Seq(Byte), NEW i \in Nat, i < Len(s), IsMultibyte(s, i)
    PROVE  DecodeValue(s, i) >= 128
<1> DEFINE v == DecodeValue(s, i)
           w == DecodeWidth(s, i)
<1>1. w \in 2 .. 4 /\ i + w <= Len(s)
    BY SequenceParts
<1>2. v \in Nat
    <2>1. CodePoint(v)
        BY DecodeValueInRange
    <2> HIDE DEF v
    <2> QED
        BY <2>1, SMT DEF CodePoint
<1>3. w > 1
    BY <1>1
<1>4. encode(v) = SubSeq(s, i + 1, i + w)
    BY <1>3, EncodeUndoesDecode
<1>5. Len(SubSeq(s, i + 1, i + w)) = w
    BY <1>1
<1> HIDE DEF v, w
<1>6. v < 128 => Len(encode(v)) = 1
    BY <1>2, EncodeForms
<1> QED
    BY <1>1, <1>2, <1>4, <1>5, <1>6 DEF v

\* read yields an ASCII rune where the byte is, NUL apart, and nowhere else.
LEMMA AsciiRunes ==
    ASSUME NEW s \in Seq(Byte), NEW i \in Nat, i < Len(s)
    PROVE  /\ s[i + 1] \in 1 .. 127 => RuneAt(s, i) = s[i + 1]
           /\ RuneAt(s, i) \in 1 .. 127 => s[i + 1] = RuneAt(s, i)
           /\ s[i + 1] < 128 => DecodeWidth(s, i) = 1
           /\ RuneAt(s, i) \in Nat
           /\ RuneAt(s, i) # 0
<1> DEFINE b == s[i + 1]
           v == DecodeValue(s, i)
<1>1. b \in Nat
    <2>1. b \in Byte
        BY ByteAt
    <2> HIDE DEF b
    <2> QED
        BY <2>1 DEF Byte
<1>2. IsMultibyte(s, i) => b >= 128 /\ v >= 128
    <2>1. IsMultibyte(s, i) => b \in \hC2 .. \hF4 /\ v >= 128
        BY SequenceBytes, MultibyteIsNotAscii
    <2> HIDE DEF b, v
    <2> QED
        BY <1>1, <2>1
<1>3. ~IsMultibyte(s, i) => v = b /\ DecodeWidth(s, i) = 1
    BY DEF DecodeWidth, DecodeValue
<1>4. v \in Nat
    <2>1. CodePoint(v)
        BY DecodeValueInRange
    <2> HIDE DEF v
    <2> QED
        BY <2>1, SMT DEF CodePoint
<1>5. RuneAt(s, i) = IF b = 0 \/ (i > 0 /\ v = rune_bom) THEN rune_invalid ELSE v
    BY DEF RuneAt
<1>6. rune_invalid = 65533 /\ rune_bom = 65279
    BY DEF rune_invalid, rune_bom
<1> HIDE DEF b, v
<1>7. b \in 1 .. 127 => RuneAt(s, i) = b
    BY <1>1, <1>2, <1>3, <1>5, <1>6
<1>8. RuneAt(s, i) \in 1 .. 127 => b = RuneAt(s, i)
    <2>1. CASE RuneAt(s, i) = 65533
        BY <2>1
    <2>2. CASE RuneAt(s, i) = v
        BY <1>2, <1>3, <1>4, <2>2
    <2> QED
        BY <1>5, <1>6, <2>1, <2>2
<1>9. b < 128 => DecodeWidth(s, i) = 1
    BY <1>1, <1>2, <1>3
<1>10. RuneAt(s, i) \in Nat /\ RuneAt(s, i) # 0
    BY <1>1, <1>2, <1>3, <1>4, <1>5, <1>6
<1> QED
    BY <1>7, <1>8, <1>9, <1>10 DEF b

\* The characters with a handler of their own are ASCII.
LEMMA HandlerIsAscii ==
    ASSUME NEW c \in Nat, Handler(c) # "none"
    PROVE  c \in 1 .. 127
BY SMT DEF Handler, isDigit, isLetter, Slash, Star, Minus, Dot, Backquote, Quote, DQuote, Underscore

\* A rune that extends identifiers is not ASCII.
LEMMA ExtendedIsNotAscii ==
    ASSUME NEW c \in Int, isIdentExtend(c)
    PROVE  c >= 128
BY SMT DEF isIdentExtend

\* An ASCII byte does not extend identifiers.
LEMMA AsciiIsNotExtended ==
    ASSUME NEW c \in 1 .. 127
    PROVE  ~isIdentExtend(c)
<1>1. c \in Int /\ ~(c >= 128)
    BY SMT
<1> QED
    BY <1>1, ExtendedIsNotAscii

-----------------------------------------------------------------------------
(* The steps. *)

\* A step that goes on with the same token.
LEMMA SameToken ==
    ASSUME Led(rd, fr), NEW r, NEW f, r.slice = rd.slice, f.pos.offset = fr.pos.offset,
           Stage(fr) \notin {"idle", "scan", "scanned", "trie"},
           f.pc \in Entries => r.index = f.pos.offset,
           f.pc = "prefix" => r.index = f.pos.offset + 1,
           Stage(f) # "trie",
           LedBy(Stage(f), Handler(FirstRune(rd, fr))),
           Stage(f) \in {"ident", "identEnd"} =>
               /\ isIdentChar(FirstRune(rd, fr))
               /\ Handler(FirstRune(rd, fr)) \in {"xx", "bb"} => ~QuoteNext(rd, fr)
    PROVE  Led(r, f)
<1>1. FirstRune(r, f) = FirstRune(rd, fr) /\ (QuoteNext(r, f) <=> QuoteNext(rd, fr))
    BY DEF FirstRune, QuoteNext
<1> QED
    BY <1>1 DEF Led

\* Between two tokens nothing is claimed.
LEMMA BetweenTokens ==
    \A r, f : Stage(f) \in {"idle", "scan", "scanned"} /\ f.pc # "trie" => Led(r, f)
<1> SUFFICES ASSUME NEW r, NEW f, Stage(f) \in {"idle", "scan", "scanned"}, f.pc # "trie"
             PROVE  Led(r, f)
    OBVIOUS
<1>1. f.pc \notin Entries /\ f.pc # "prefix"
    BY DEF Stage, Entries
<1>2. \A h : LedBy(Stage(f), h)
    BY SMT DEF LedBy, Slashing, Quoting, Numeric, Stringing
<1> QED
    BY <1>1, <1>2 DEF Led

\* What each label says of the character.
LEMMA LedFacts ==
    /\ \A h : \A l \in Quoting : LedBy(l, h) <=> h = "quoted"
    /\ \A h : \A l \in Stringing : LedBy(l, h) <=> h = "string"
    /\ \A h : \A l \in Numeric : LedBy(l, h) <=> h = "number"
    /\ \A h : \A l \in Slashing : LedBy(l, h) <=> h = "slash"
    /\ \A h : LedBy("quoted", h) <=> h = "quoted"
    /\ \A h : LedBy("string", h) <=> h = "string"
    /\ \A h : LedBy("number", h) <=> h = "number"
    /\ \A h : LedBy("xx", h) <=> h = "xx"
    /\ \A h : LedBy("bb", h) <=> h = "bb"
    /\ \A h : LedBy("nn", h) <=> h = "nn"
    /\ \A h : LedBy("nnEnd", h) <=> h = "nn"
    /\ \A h : LedBy("star", h) <=> h = "star"
    /\ \A h : LedBy("star2", h) <=> h = "star"
    /\ \A h : LedBy("sharp", h) <=> h = "sharp"
    /\ \A h : LedBy("stub", h) <=> h \in {"at", "dash", "dot"}
    /\ \A h : LedBy("prefix", h) <=> h \in {"xx", "bb"}
    /\ \A h : LedBy("prefixEnd", h) <=> h \in {"xx", "bb"}
    /\ \A h : LedBy("ident", h) <=> h \in {"ident", "xx", "bb", "none"}
    /\ \A h : LedBy("identEnd", h) <=> h \in {"ident", "xx", "bb", "none", "number"}
    /\ \A h : LedBy("trie", h)
BY SMT DEF LedBy, Slashing, Quoting, Numeric, Stringing

\* The sets of labels apart.
LEMMA StagesApart ==
    /\ Entries \cap (Quoting \cup Stringing \cup Counted \cup {"idle", "scan", "scanned", "trie", "inc",
                     "prefix", "prefixEnd", "nnEnd", "stub", "star2", "word"}) = {}
    /\ (Quoting \cup Stringing \cup Numeric \cup Slashing)
         \cap {"idle", "scan", "scanned", "trie", "inc", "prefix", "ident", "identEnd"} = {}
    /\ Entries \cap Slashing = {"slash"}
    /\ "prefix" \notin Counted
BY SMT DEF Entries, Slashing, Quoting, Numeric, Stringing, Counted

\* A digit leads to the handler of numbers, and that handler from a digit.
LEMMA NumberHandler ==
    ASSUME NEW c
    PROVE  /\ Handler(c) = "number" <=> isDigit(c)
           /\ isDigit(c) => isIdentChar(c)
<1>1. \A d \in 48 .. 57 : Handler(d) = "number"
    BY SMT DEF Handler, isDigit, isLetter, Slash, Star, Minus, Dot, Backquote, Quote, DQuote,
                  Underscore
<1>2. isDigit(c) => c \in 48 .. 57
    BY DEF isDigit
<1> QED
    BY <1>1, <1>2, HandlersFor, Readable

\* The handlers that read on inside their token.
LEMMA GoingLed == ScanInv /\ Led(rd, fr) /\ Going => Led(rd', fr')
<1> SUFFICES ASSUME ScanInv, Led(rd, fr), Going
             PROVE  Led(rd', fr')
    OBVIOUS
<1>1. Keeps(Kin(fr.pc)) /\ fr.pc \in Steady
    BY GoingKeeps
<1>2. rd'.slice = rd.slice
    BY <1>1, OnwardFacts DEF Keeps
<1>3. CASE fr' = NoFrame
    BY <1>3, BetweenTokens DEF NoFrame, Stage
<1>4. CASE On(Kin(fr.pc), fr')
    <2>1. fr.pc \in Quoting \/ fr.pc \in Stringing
        BY <1>4, StagesApart DEF On, Kin
    <2>2. fr'.pos = fr.pos /\ Stage(fr') \in Kin(fr.pc) /\ fr'.pc \in Kin(fr.pc) \cup {"inc"}
        BY <1>4, <2>1, KinFacts, StagesApart DEF On, Stage
    <2>3. Stage(fr) = fr.pc
        BY <2>1, StagesApart DEF Stage
    <2>4. LedBy(fr.pc, Handler(FirstRune(rd, fr)))
        BY <2>3 DEF Led
    <2>5. LedBy(Stage(fr'), Handler(FirstRune(rd, fr)))
        BY <2>1, <2>2, <2>4, KinFacts, LedFacts
    <2>6. /\ fr'.pc \notin Entries /\ fr'.pc # "prefix" /\ Stage(fr') \notin {"trie", "ident", "identEnd"}
          /\ Stage(fr) \notin {"idle", "scan", "scanned", "trie"}
        BY <2>1, <2>2, <2>3, KinFacts, StagesApart
    <2> QED
        BY <1>2, <2>2, <2>5, <2>6, SameToken
<1> QED
    BY <1>1, <1>3, <1>4 DEF Keeps

\* The handlers of numbers, going back or not, go on with the number or return.
LEMMA NumbersStep ==
    ASSUME ScanInv, Counting \/ scanFloat \/ exponent
    PROVE  /\ rd'.slice = rd.slice /\ fr.pc \in Numeric
           /\ fr' = NoFrame \/ On(Counted, fr')
<1>0. fr \in Frame
    BY Found
<1>1. CASE Counting
    BY <1>1, CountingKeeps, OnwardFacts DEF Keeps
<1>2. CASE scanFloat /\ At("float")
    <2>1. rd' = UpdatePos(rd, fr.pos) /\ fr' = Inc(fr, "digit", "fraction") /\ fr.pc = "float"
        BY <1>2 DEF scanFloat, Step, At
    <2>2. rd'.slice = rd.slice
        BY <2>1, Found, UpdatePosLands DEF ScanInv, GoodFrame
    <2>3. fr.pc \in Numeric /\ "fraction" \in Counted
        BY <2>1 DEF Numeric, Counted
    <2> QED
        BY <1>0, <2>1, <2>2, <2>3, FramesOn
<1>3. CASE exponent /\ At("power") /\ ~isDigit(Peek(rd))
    <2>1. /\ rd' = UpdatePos(Peeked(rd), fr.pos) /\ fr' = Inc(fr, "identChar", "identEnd")
          /\ fr.pc = "power"
        BY <1>3 DEF exponent, Step, At
    <2>2. ReaderInv(Peeked(rd)) /\ Peeked(rd).slice = rd.slice /\ Saved(Peeked(rd), fr.pos)
        BY Found, PeekedInv DEF ScanInv, GoodFrame, Saved
    <2>3. rd'.slice = rd.slice
        BY <2>1, <2>2, UpdatePosLands
    <2>4. fr.pc \in Numeric /\ "identEnd" \in Counted
        BY <2>1 DEF Numeric, Counted
    <2> QED
        BY <1>0, <2>1, <2>3, <2>4, FramesOn
<1> QED
    BY <1>1, <1>2, <1>3 DEF Counting

\* The handlers of numbers, going back or not.
LEMMA NumbersLed ==
    ScanInv /\ Led(rd, fr) /\ (Counting \/ scanFloat \/ exponent) => Led(rd', fr')
<1> SUFFICES ASSUME ScanInv, Led(rd, fr), Counting \/ scanFloat \/ exponent
             PROVE  Led(rd', fr')
    OBVIOUS
<1>1. fr \in Frame
    BY Found
<1>2. /\ rd'.slice = rd.slice /\ fr.pc \in Numeric
      /\ fr' = NoFrame \/ On(Counted, fr')
    BY NumbersStep
<1>3. CASE fr' = NoFrame
    BY <1>3, BetweenTokens DEF NoFrame, Stage
<1>4. CASE On(Counted, fr')
    <2>1. Stage(fr) = fr.pc /\ Stage(fr) \notin {"idle", "scan", "scanned", "trie"}
        BY <1>2, StagesApart DEF Stage
    <2>2. Handler(FirstRune(rd, fr)) = "number"
        BY <1>2, <2>1, LedFacts DEF Led
    <2>3. fr'.pos = fr.pos /\ Stage(fr') \in Counted /\ fr'.pc \in Counted \cup {"inc"}
        BY <1>4, StagesApart DEF On, Stage, Counted
    <2>4. LedBy(Stage(fr'), Handler(FirstRune(rd, fr)))
        BY <2>2, <2>3, LedFacts DEF Counted
    <2>5. isIdentChar(FirstRune(rd, fr))
        BY <2>2, NumberHandler
    <2>6. fr'.pc \notin Entries /\ fr'.pc # "prefix" /\ Stage(fr') # "trie"
        BY <2>3, StagesApart DEF Counted
    <2> QED
        BY <1>2, <2>1, <2>2, <2>3, <2>4, <2>5, <2>6, SameToken
<1> QED
    BY <1>2, <1>3, <1>4

\* A rune that is there; an ASCII one is the byte there, NUL apart.
LEMMA ReadsByte ==
    ASSUME NEW r, ReaderInv(r), ~Eof(r)
    PROVE  /\ r.index \in Nat /\ r.index < Len(r.slice)
           /\ Peek(r) = RuneAt(r.slice, r.index)
           /\ Peek(r) \in Nat
           /\ Peek(r) \in 1 .. 127 =>
                Advance(r).index = r.index + 1 /\ r.slice[r.index + 1] = Peek(r)
           /\ r.slice[r.index + 1] \in 1 .. 127 => Peek(r) = r.slice[r.index + 1]
<1>1. r.slice \in Seq(Byte) /\ r.index \in Nat /\ r.index < Len(r.slice)
    BY ReaderFields, SMT DEF ReaderInv, Eof
<1>2. Peek(r) = RuneAt(r.slice, r.index)
    BY DEF Peek
<1>3. Advance(r).index = r.index + DecodeWidth(r.slice, r.index)
    <2>1. EndsRune(r, PosAfterNext(r))
        BY PosAfterEndsRune
    <2> QED
        BY <2>1, ForwardInv DEF Advance, EndsRune
<1>4. /\ r.slice[r.index + 1] \in 1 .. 127 => RuneAt(r.slice, r.index) = r.slice[r.index + 1]
      /\ RuneAt(r.slice, r.index) \in 1 .. 127 => r.slice[r.index + 1] = RuneAt(r.slice, r.index)
      /\ r.slice[r.index + 1] < 128 => DecodeWidth(r.slice, r.index) = 1
      /\ RuneAt(r.slice, r.index) \in Nat
    BY <1>1, AsciiRunes
<1>5. \A c \in 1 .. 127 : c < 128
    BY SMT
<1> QED
    BY <1>1, <1>2, <1>3, <1>4, <1>5

\* lexer.cc:184-222: x and b give their letter back unless a quote comes next.
LEMMA PrefixLed ==
    ScanInv /\ Paced(rd, fr) /\ Led(rd, fr) /\ prefix /\ At("prefix") => Led(rd', fr')
<1> SUFFICES ASSUME ScanInv, Paced(rd, fr), Led(rd, fr), prefix, At("prefix")
             PROVE  Led(rd', fr')
    OBVIOUS
<1>1. /\ fr \in Frame /\ fr.pc = "prefix" /\ Stage(fr) = "prefix" /\ Word(rd, fr)
      /\ rd.index = fr.pos.offset + 1 /\ fr.pos.offset \in Nat
      /\ ReaderInv(rd) /\ ReaderInv(Peeked(rd))
    BY Found DEF Led, Stage, At, Paced
<1>2. Handler(FirstRune(rd, fr)) \in {"xx", "bb"}
    BY <1>1, LedFacts DEF Led
<1>3. CASE Peek(rd) = Quote
    <2>1. rd' = Advance(Peeked(rd)) /\ fr' = Inc(fr, fr.pred, "prefixEnd")
        BY <1>3 DEF prefix, Step, At
    <2>2. rd'.slice = rd.slice
        BY <2>1, OnwardFacts DEF Onward
    <2>3. Stage(fr') = "prefixEnd" /\ fr'.pc = "inc" /\ fr'.pos = fr.pos
        BY <1>1, <2>1 DEF Inc, Frame, Stage
    <2>4. LedBy(Stage(fr'), Handler(FirstRune(rd, fr)))
        BY <1>2, <2>3, LedFacts
    <2> QED
        BY <1>1, <2>2, <2>3, <2>4, StagesApart, SameToken
<1>4. CASE Peek(rd) # Quote
    <2>1. rd' = UpdatePos(Peeked(rd), fr.pos) /\ fr' = Goto("ident")
        BY <1>4 DEF prefix, Step, At
    <2>2. Peeked(rd).slice = rd.slice /\ Saved(Peeked(rd), fr.pos)
        BY <1>1, PeekedInv DEF ScanInv, GoodFrame, Saved
    <2>3. rd'.slice = rd.slice /\ rd'.index = fr.pos.offset
        BY <1>1, <2>1, <2>2, UpdatePosLands
    <2>4. Stage(fr') = "ident" /\ fr'.pc = "ident" /\ fr'.pos = fr.pos
        BY <1>1, <2>1 DEF Goto, Frame, Stage
    <2>5. ~QuoteNext(rd, fr)
        <3> SUFFICES ASSUME QuoteNext(rd, fr)
                     PROVE  FALSE
            OBVIOUS
        <3>1. fr.pos.offset + 2 = rd.index + 1
            BY <1>1, SMT
        <3>2. rd.index < Len(rd.slice) /\ rd.slice[rd.index + 1] = Quote
            BY <1>1, <3>1 DEF QuoteNext
        <3>3. ~Eof(rd)
            BY <1>1, <3>2, ReaderFields, SMT DEF Eof, ReaderInv
        <3>4. Quote \in 1 .. 127
            BY SMT DEF Quote
        <3> QED
            BY <1>1, <1>4, <3>2, <3>3, <3>4, ReadsByte
    <2>6. LedBy(Stage(fr'), Handler(FirstRune(rd, fr)))
        BY <1>2, <2>4, LedFacts
    <2>7. isIdentChar(FirstRune(rd, fr))
        BY <1>1 DEF Word
    <2> QED
        BY <1>1, <2>3, <2>4, <2>5, <2>6, <2>7, SameToken
<1> QED
    BY <1>3, <1>4

\* A handler at the first character begins its token with it.
LEMMA BeginningStep ==
    ASSUME ScanInv, Beginning
    PROVE  /\ rd' = Advance(rd) /\ fr'.pos = rd.pos /\ Stage(fr') = fr'.pc /\ Stage(fr) = fr.pc
           /\ \/ fr.pc \in {"xx", "bb"} /\ fr'.pc = "prefix"
              \/ fr.pc = "quoted" /\ fr'.pc = "quotedLoop"
              \/ fr.pc = "number" /\ fr'.pc = "number2"
              \/ fr.pc = "string" /\ fr'.pc = "stringPeek"
<1>0. fr \in Frame /\ ReaderInv(rd) /\ rd.pos.offset = rd.index /\ rd.index \in Nat
    BY Found
<1> USE <1>0 DEF Step, StepBuf, Save, Frame, At, Stage
<1>1. CASE startWithXx
    BY <1>1 DEF startWithXx
<1>2. CASE startWithBb
    BY <1>2 DEF startWithBb
<1>3. CASE openQuotedIdent
    BY <1>3 DEF openQuotedIdent
<1>4. CASE startWithNumber /\ At("number")
    BY <1>4 DEF startWithNumber
<1>5. CASE startString /\ At("string")
    BY <1>5 DEF startString
<1> QED
    BY <1>1, <1>2, <1>3, <1>4, <1>5 DEF Beginning

\* The handlers at the first character.
LEMMA BeginningLed == ScanInv /\ Led(rd, fr) /\ Beginning => Led(rd', fr')
<1> SUFFICES ASSUME ScanInv, Led(rd, fr), Beginning
             PROVE  Led(rd', fr')
    OBVIOUS
<1>1. /\ fr \in Frame /\ ReaderInv(rd) /\ rd.pos.offset = rd.index /\ rd.index \in Nat
    BY Found
<1>2. /\ rd' = Advance(rd) /\ fr'.pos = rd.pos /\ Stage(fr') = fr'.pc /\ Stage(fr) = fr.pc
      /\ \/ fr.pc \in {"xx", "bb"} /\ fr'.pc = "prefix"
         \/ fr.pc = "quoted" /\ fr'.pc = "quotedLoop"
         \/ fr.pc = "number" /\ fr'.pc = "number2"
         \/ fr.pc = "string" /\ fr'.pc = "stringPeek"
    BY BeginningStep
<1>3. /\ fr.pc \in Entries
      /\ fr.pc \notin {"idle", "scan", "scanned", "trie"}
      /\ fr'.pc \notin Entries /\ fr'.pc \notin {"trie", "ident", "identEnd"}
    BY <1>2, SMT DEF Entries
<1>4. rd.index = fr.pos.offset /\ fr.pos.offset < Len(rd.slice)
    BY <1>2, <1>3 DEF Led
<1>5. LedBy(fr.pc, Handler(FirstRune(rd, fr)))
    BY <1>2 DEF Led
<1>6. rd'.slice = rd.slice
    BY <1>2, OnwardFacts DEF Onward
<1>7. LedBy(fr'.pc, Handler(FirstRune(rd, fr)))
    BY <1>2, <1>5, LedFacts DEF Quoting, Stringing, Numeric
<1>8. fr'.pc = "prefix" => rd'.index = fr'.pos.offset + 1
    <2> SUFFICES ASSUME fr'.pc = "prefix"
                 PROVE  rd'.index = rd.index + 1
        BY <1>1, <1>2
    <2>1. Handler(FirstRune(rd, fr)) # "none"
        BY <1>7, LedFacts
    <2>2. ~Eof(rd)
        BY <1>1, <1>4, ReaderFields, SMT DEF Eof, ReaderInv
    <2>3. Peek(rd) = FirstRune(rd, fr) /\ Peek(rd) \in Nat
        BY <1>1, <1>4, <2>2, ReadsByte DEF FirstRune
    <2>4. Peek(rd) \in 1 .. 127
        BY <2>1, <2>3, HandlerIsAscii
    <2> QED
        BY <1>1, <1>2, <2>2, <2>4, ReadsByte
<1> QED
    BY <1>1, <1>2, <1>3, <1>4, <1>6, <1>7, <1>8, SameToken

\* So do the handlers of identifiers, without reading it.
LEMMA WordsStep ==
    ASSUME ScanInv, (scanIdentifier /\ At("ident")) \/ (startWithNn /\ At("nn"))
    PROVE  /\ rd' = rd /\ fr'.pos = rd.pos /\ fr'.pc = "inc" /\ Stage(fr) = fr.pc
           /\ \/ fr.pc = "ident" /\ Stage(fr') = "identEnd"
              \/ fr.pc = "nn" /\ Stage(fr') = "nnEnd"
<1>0. fr \in Frame /\ rd.pos.offset = rd.index
    BY Found
<1> QED
    BY <1>0 DEF scanIdentifier, startWithNn, Step, Inc, Save, Frame, At, Stage

\* The handlers of identifiers.
LEMMA WordsLed ==
    ScanInv /\ Led(rd, fr) /\ ((scanIdentifier /\ At("ident")) \/ (startWithNn /\ At("nn")))
    => Led(rd', fr')
<1> SUFFICES ASSUME ScanInv, Led(rd, fr),
                    (scanIdentifier /\ At("ident")) \/ (startWithNn /\ At("nn"))
             PROVE  Led(rd', fr')
    OBVIOUS
<1>1. fr \in Frame /\ rd.pos.offset = rd.index
    BY Found
<1>2. /\ rd' = rd /\ fr'.pos = rd.pos /\ fr'.pc = "inc" /\ Stage(fr) = fr.pc
      /\ \/ fr.pc = "ident" /\ Stage(fr') = "identEnd"
         \/ fr.pc = "nn" /\ Stage(fr') = "nnEnd"
    BY WordsStep
<1>3. rd.index = fr.pos.offset /\ LedBy(fr.pc, Handler(FirstRune(rd, fr)))
    BY <1>2 DEF Led, Entries
<1>4. LedBy(Stage(fr'), Handler(FirstRune(rd, fr)))
    BY <1>2, <1>3, LedFacts
<1>5. fr.pc = "ident" => /\ isIdentChar(FirstRune(rd, fr))
                         /\ Handler(FirstRune(rd, fr)) \in {"xx", "bb"} => ~QuoteNext(rd, fr)
    BY <1>2 DEF Led
<1> QED
    BY <1>1, <1>2, <1>3, <1>4, <1>5, StagesApart, SameToken

\* The handlers of comments stay inside the comment, return, or call scan() again.
LEMMA CommentingStep ==
    ASSUME ScanInv, Commenting
    PROVE  \/ Stage(fr') \in {"idle", "scan"} /\ fr'.pc # "trie"
           \/ /\ rd' \in Onward /\ Stage(fr) = fr.pc
              /\ fr'.pos = fr.pos \/ (fr.pc \in {"slash", "star"} /\ fr'.pos = rd.pos)
              /\ \/ fr.pc \in Slashing /\ Stage(fr') \in Slashing \ {"slash"} /\ fr'.pc \in Slashing \cup {"inc"}
                 \/ fr.pc = "star" /\ Stage(fr') = "star2" /\ fr'.pc = "star2"
<1>0. fr \in Frame /\ rd.pos.offset = rd.index
    BY Found
<1> USE <1>0 DEF Step, Rescan, Return, ReturnNothing, Result, Goto, Save, Inc, Frame, At, Onward,
                 Stage, NoFrame, Slashing
<1>1. CASE startWithSlash
    <2>1. CASE At("slash")
        BY <1>1, <2>1 DEF startWithSlash
    <2>2. CASE At("slash2")
        BY <1>1, <2>2 DEF startWithSlash
    <2>3. CASE At("slash3")
        BY <1>1, <2>3 DEF startWithSlash
    <2> QED
        BY <1>1, <2>1, <2>2, <2>3 DEF startWithSlash
<1>2. CASE scanVersionDigits
    BY <1>2 DEF scanVersionDigits
<1>3. CASE comment
    <2>1. CASE At("comment")
        BY <1>3, <2>1 DEF comment
    <2>2. CASE At("afterStar") /\ fr.ch = Star
        BY <1>3, <2>2 DEF comment
    <2>3. CASE At("afterStar") /\ fr.ch # Star
        BY <1>3, <2>3 DEF comment
    <2> QED
        BY <1>3, <2>1, <2>2, <2>3 DEF comment
<1>4. CASE startWithStar
    <2>1. CASE At("star")
        BY <1>4, <2>1 DEF startWithStar
    <2>2. CASE At("star2") /\ inBang /\ Peek(rd) = Slash
        BY <1>4, <2>2 DEF startWithStar
    <2>3. CASE At("star2") /\ ~(inBang /\ Peek(rd) = Slash)
        BY <1>4, <2>3 DEF startWithStar
    <2> QED
        BY <1>4, <2>1, <2>2, <2>3 DEF startWithStar
<1>5. CASE startWithSharp
    BY <1>5 DEF startWithSharp
<1> QED
    BY <1>1, <1>2, <1>3, <1>4, <1>5 DEF Commenting

\* The handlers of comments.
LEMMA CommentingLed == ScanInv /\ Led(rd, fr) /\ Commenting => Led(rd', fr')
<1> SUFFICES ASSUME ScanInv, Led(rd, fr), Commenting
             PROVE  Led(rd', fr')
    OBVIOUS
<1>1. fr \in Frame /\ rd.pos.offset = rd.index
    BY Found
<1>2. \/ Stage(fr') \in {"idle", "scan"} /\ fr'.pc # "trie"
      \/ /\ rd' \in Onward /\ Stage(fr) = fr.pc
         /\ fr'.pos = fr.pos \/ (fr.pc \in {"slash", "star"} /\ fr'.pos = rd.pos)
         /\ \/ fr.pc \in Slashing /\ Stage(fr') \in Slashing \ {"slash"} /\ fr'.pc \in Slashing \cup {"inc"}
            \/ fr.pc = "star" /\ Stage(fr') = "star2" /\ fr'.pc = "star2"
    BY CommentingStep
<1>3. CASE Stage(fr') \in {"idle", "scan"} /\ fr'.pc # "trie"
    BY <1>3, BetweenTokens
<1>4. CASE /\ rd' \in Onward /\ Stage(fr) = fr.pc
           /\ fr'.pos = fr.pos \/ (fr.pc \in {"slash", "star"} /\ fr'.pos = rd.pos)
           /\ \/ fr.pc \in Slashing /\ Stage(fr') \in Slashing \ {"slash"} /\ fr'.pc \in Slashing \cup {"inc"}
              \/ fr.pc = "star" /\ Stage(fr') = "star2" /\ fr'.pc = "star2"
    <2>1. LedBy(fr.pc, Handler(FirstRune(rd, fr)))
        BY <1>4 DEF Led
    <2>2. LedBy(Stage(fr'), Handler(FirstRune(rd, fr)))
        BY <1>4, <2>1, LedFacts
    <2>3. fr'.pos.offset = fr.pos.offset
        <3>1. fr.pc \in {"slash", "star"} => rd.index = fr.pos.offset
            BY DEF Led, Entries
        <3> QED
            BY <1>1, <1>4, <3>1
    <2>4. rd'.slice = rd.slice
        BY <1>4, OnwardFacts
    <2>5. /\ Stage(fr) \notin {"idle", "scan", "scanned", "trie"}
          /\ fr'.pc \notin Entries /\ fr'.pc # "prefix"
          /\ Stage(fr') \notin {"trie", "ident", "identEnd"}
        <3>1. CASE fr.pc = "star"
            BY <1>4, <3>1 DEF Slashing, Entries
        <3>2. CASE fr.pc # "star"
            <4>1. fr.pc \in Slashing /\ Stage(fr') \in Slashing /\ fr'.pc \in Slashing \cup {"inc"}
                  /\ Stage(fr') # "slash" /\ "slash" # "inc"
                BY <1>4, <3>2
            <4>2. fr'.pc # "slash"
                BY <1>4, <3>2 DEF Stage
            <4> QED
                BY <1>4, <4>1, <4>2, StagesApart
        <3> QED
            BY <3>1, <3>2
    <2> QED
        BY <2>2, <2>3, <2>4, <2>5, SameToken
<1> QED
    BY <1>2, <1>3, <1>4

\* reader.cc:140-151
LEMMA IncLed == ScanInv /\ Ahead(rd, fr) /\ Led(rd, fr) /\ incAsLongAs => Led(rd', fr')
<1> SUFFICES ASSUME ScanInv, Ahead(rd, fr), Led(rd, fr), incAsLongAs
             PROVE  Led(rd', fr')
    OBVIOUS
<1>1. /\ fr \in Frame /\ fr.pc = "inc" /\ fr.ret \in Returns
      /\ Stage(fr) = fr.ret
    <2>1. fr.pc = "inc"
        BY DEF incAsLongAs, IncNext, IncErrored, IncStop, At
    <2> QED
        BY <2>1, Found DEF Ahead, Stage
<1>2. rd'.slice = rd.slice /\ fr'.pos = fr.pos /\ Stage(fr') = fr.ret /\ fr'.pc \in {"inc", fr.ret}
    <2>1. "inc" \notin Returns
        BY DEF Returns
    <2>2. rd' \in Onward
        BY DEF incAsLongAs, IncNext, IncErrored, IncStop, Step, Onward
    <2>3. fr'.pos = fr.pos /\ (fr' = fr \/ fr'.pc = fr.ret)
        <3>1. \A c : [fr EXCEPT !.pc = fr.ret, !.ch = c].pos = fr.pos
                     /\ [fr EXCEPT !.pc = fr.ret, !.ch = c].pc = fr.ret
            BY <1>1 DEF Frame
        <3> QED
            BY <3>1 DEF incAsLongAs, IncNext, IncErrored, IncStop, Step
    <2>4. Stage(fr') = fr.ret
        BY <1>1, <2>1, <2>3 DEF Stage
    <2> QED
        BY <1>1, <2>2, <2>3, <2>4, OnwardFacts
<1>3. /\ fr.ret \notin {"idle", "trie"} /\ fr'.pc \notin Entries /\ fr'.pc \notin {"prefix", "trie"}
    BY <1>1, <1>2, SMT DEF Returns, Entries
<1>4. CASE fr.ret \in {"scan", "scanned"}
    BY <1>2, <1>3, <1>4, BetweenTokens
<1>5. CASE fr.ret \notin {"scan", "scanned"}
    BY <1>1, <1>2, <1>3, <1>5, SameToken DEF Led
<1> QED
    BY <1>4, <1>5

\* scanner.cc:89-100
LEMMA ScannedLed == ScanInv /\ Paced(rd, fr) /\ scanned => Led(rd', fr')
<1> SUFFICES ASSUME ScanInv, Paced(rd, fr), scanned
             PROVE  Led(rd', fr')
    OBVIOUS
<1>1. /\ fr \in Frame /\ fr.ch = Peek(rd) /\ fr.node = << >> /\ rd.pos.offset = rd.index
      /\ ReaderInv(rd)
    BY Found DEF Paced, scanned, At
<1>2. CASE Return(rd, 0, rd.pos, << >>)
    BY <1>2, BetweenTokens DEF Return, Result, NoFrame, Stage
<1>3. CASE ~Eof(rd) /\ isIdentExtend(fr.ch) /\ Step(rd, Save("ident"))
    <2>1. rd' = rd /\ fr'.pc = "ident" /\ fr'.pos = rd.pos /\ Stage(fr') = "ident"
        BY <1>1, <1>3 DEF Step, Save, Frame, Stage
    <2>2. /\ FirstRune(rd', fr') = fr.ch /\ fr.ch \in Nat
          /\ rd'.index = fr'.pos.offset /\ fr'.pos.offset < Len(rd'.slice)
        BY <1>1, <1>3, <2>1, ReadsByte DEF FirstRune
    <2>3. fr.ch \notin 1 .. 127
        BY <1>3, AsciiIsNotExtended
    <2>4. Handler(fr.ch) = "none"
        BY <2>2, <2>3, HandlerIsAscii
    <2>5. isIdentChar(fr.ch) /\ LedBy("ident", "none")
        BY <1>3, LedFacts DEF isIdentChar
    <2> QED
        BY <2>1, <2>2, <2>4, <2>5 DEF Led
<1>4. CASE Step(rd, Save("trie"))
    <2>1. rd' = rd /\ fr'.pc = "trie" /\ fr'.node = << >> /\ Stage(fr') = "trie"
        BY <1>1, <1>4 DEF Step, Save, Frame, Stage
    <2> QED
        BY <2>1, LedFacts DEF Led, Entries
<1> QED
    BY <1>2, <1>3, <1>4 DEF scanned

\* scanner.cc:100-114
LEMMA TrieLed == ScanInv /\ Paced(rd, fr) /\ Led(rd, fr) /\ trie => Led(rd', fr')
<1> SUFFICES ASSUME ScanInv, Paced(rd, fr), Led(rd, fr), trie
             PROVE  Led(rd', fr')
    OBVIOUS
<1>1. fr \in Frame /\ fr.pc = "trie" /\ Stage(fr) = "trie" /\ ReaderInv(rd)
    BY Found DEF trie, At, Stage
<1>2. fr.node = << >> => fr.ch = Peek(rd) /\ rd.index = fr.pos.offset
    BY <1>1 DEF Paced
<1>3. fr.node = << >> /\ ~Eof(rd) =>
        /\ FirstRune(rd, fr) = fr.ch
        /\ fr.pos.offset < Len(rd.slice)
    BY <1>1, <1>2, ReadsByte DEF FirstRune
<1>4. CASE Return(rd, NodeToken(fr.node), fr.pos, Data(rd, fr.pos))
    BY <1>4, BetweenTokens DEF Return, Result, NoFrame, Stage
<1>5. CASE /\ fr.node = << >> /\ Handler(fr.ch) # "none" /\ ~Eof(rd)
           /\ Step(rd, Goto(Stub(Handler(fr.ch))))
    <2> DEFINE l == Stub(Handler(fr.ch))
    <2>1. rd' = rd /\ fr'.pc = l /\ fr'.pos = fr.pos
        BY <1>1, <1>5 DEF Step, Goto, Frame
    <2>2. /\ l \in {"stub", "slash", "star", "sharp", "xx", "nn", "bb", "quoted", "number",
                    "string", "ident"}
          /\ l = "stub" => Handler(fr.ch) \in {"at", "dash", "dot"}
          /\ l # "stub" => l = Handler(fr.ch)
        BY <1>5, HandlersFor DEF Stub
    <2>3. l = "ident" => isIdentChar(fr.ch)
        BY <2>2, HandlersFor
    <2> HIDE DEF l
    <2>4. LedBy(l, Handler(fr.ch))
        <3>1. CASE l = "stub"
            BY <2>2, <3>1, LedFacts
        <3>2. CASE l = "slash"
            BY <2>2, <3>2, LedFacts DEF Slashing
        <3>3. CASE l \notin {"stub", "slash"}
            BY <2>2, <3>3, LedFacts
        <3> QED
            BY <3>1, <3>2, <3>3
    <2>5. Stage(fr') = l /\ l \notin {"prefix", "trie", "inc", "identEnd"}
        BY <2>1, <2>2 DEF Stage
    <2>6. FirstRune(rd', fr') = fr.ch
        BY <1>3, <1>5, <2>1 DEF FirstRune
    <2>7. fr'.pc \in Entries => rd'.index = fr'.pos.offset
        BY <1>2, <1>5, <2>1
    <2>8. l = "ident" => /\ isIdentChar(fr.ch) /\ Handler(fr.ch) \notin {"xx", "bb"}
        BY <2>2, <2>3
    <2>9. fr'.pos.offset < Len(rd'.slice)
        BY <1>3, <1>5, <2>1
    <2> QED
        BY <2>1, <2>4, <2>5, <2>6, <2>7, <2>8, <2>9 DEF Led
<1>6. CASE /\ ~(fr.node = << >> /\ Handler(fr.ch) # "none") /\ ~Eof(rd)
           /\ Step(Advance(rd), [fr EXCEPT !.node = Append(fr.node, fr.ch), !.ch = Peek(rd)])
    <2>1. rd' = Advance(rd) /\ fr'.pc = "trie" /\ fr'.pos = fr.pos /\ Stage(fr') = "trie"
        BY <1>1, <1>6 DEF Step, Frame, Stage
    <2>2. Handler(FirstRune(rd, fr)) = "none"
        <3>1. fr.node # << >> => Handler(FirstRune(rd, fr)) = "none"
            BY <1>1 DEF Led
        <3> QED
            BY <1>3, <1>6, <3>1
    <2>3. FirstRune(rd', fr') = FirstRune(rd, fr)
        BY <2>1, OnwardFacts DEF FirstRune, Onward
    <2> QED
        BY <2>1, <2>2, <2>3, LedFacts DEF Led, Entries
<1> QED
    BY <1>1, <1>4, <1>5, <1>6 DEF trie

\* Every step of a client that only calls scan().
LEMMA NextLed ==
    ScanInv /\ Ahead(rd, fr) /\ Paced(rd, fr) /\ Led(rd, fr) /\ (Scanning \/ Call) => Led(rd', fr')
<1> SUFFICES ASSUME ScanInv, Ahead(rd, fr), Paced(rd, fr), Led(rd, fr), Scanning \/ Call
             PROVE  Led(rd', fr')
    OBVIOUS
<1>1. CASE Call
    <2>1. fr'.pc = "scan"
        BY <1>1 DEF Call, Step, NoFrame
    <2> QED
        BY <2>1, BetweenTokens DEF Stage
<1>2. CASE scan
    <2>1. Stage(fr') = "scanned" /\ fr'.pc # "trie"
        BY <1>2 DEF scan, Step, Inc, Fresh, NoFrame, Stage
    <2> QED
        BY <2>1, BetweenTokens
<1>3. CASE scanIdentifierOrString
    BY <1>3 DEF Paced, scanIdentifierOrString, At
<1>4. CASE Scanning /\ ~scan /\ ~scanIdentifierOrString
    BY <1>4, ScannedLed, TrieLed, IncLed, GoingLed, NumbersLed, PrefixLed, BeginningLed,
       WordsLed, CommentingLed
       DEF Scanning, Going, Counting, Beginning, Commenting
<1> QED
    BY <1>1, <1>2, <1>3, <1>4

-----------------------------------------------------------------------------
(* Where a call goes on, and where it returns. *)

\* The labels that no literal is read at.
Outside == Slashing \cup {"star", "star2", "sharp", "idle", "scan", "scanned", "trie", "stub",
                          "xx", "bb", "nn", "quoted", "number", "string", "ident"}

\* The steps of a call, by the part of the token that they read.
Flows ==
    \/ incAsLongAs
    \/ Going /\ (Stage(fr') = "idle" \/ Stage(fr') \in Quoting \cup Stringing)
    \/ (Counting \/ scanFloat \/ exponent) /\ (Stage(fr') = "idle" \/ Stage(fr') \in Counted)
    \/ prefix /\ At("prefix")
    \/ Beginning /\ Stage(fr') \in {"prefix", "quotedLoop", "number2", "stringPeek"}
    \/ /\ (scanIdentifier /\ At("ident")) \/ (startWithNn /\ At("nn"))
       /\ Stage(fr') \in {"identEnd", "nnEnd"}
    \/ Stage(fr') \in Outside

\* Every step goes from one stage of a word or a number to one that follows it.
LEMMA NextFlows == ScanInv /\ Paced(rd, fr) /\ (Scanning \/ Call) => Flows
<1> SUFFICES ASSUME ScanInv, Paced(rd, fr), Scanning \/ Call
             PROVE  Flows
    OBVIOUS
<1>0. fr \in Frame
    BY Found
<1>1. CASE Call
    <2>1. fr'.pc = "scan"
        BY <1>1 DEF Call, Step, NoFrame
    <2> QED
        BY <2>1 DEF Flows, Outside, Stage
<1>2. CASE scan
    <2>1. Stage(fr') = "scanned"
        BY <1>2 DEF scan, Step, Inc, Fresh, NoFrame, Stage
    <2> QED
        BY <2>1 DEF Flows, Outside
<1>3. CASE scanned
    <2>1. fr' = NoFrame \/ fr' = Save("ident") \/ fr' = Save("trie")
        BY <1>3 DEF scanned, Return, Result, Step
    <2>2. Stage(fr') \in {"idle", "ident", "trie"}
        <3>1. \A l : Save(l).pc = l /\ Goto(l).pc = l
            BY <1>0 DEF Save, Goto, Frame
        <3>2. NoFrame.pc = "idle"
            BY DEF NoFrame
        <3> QED
            BY <2>1, <3>1, <3>2 DEF Stage
    <2> QED
        BY <2>2 DEF Flows, Outside
<1>4. CASE trie
    <2>1. \/ fr' = NoFrame
          \/ Handler(fr.ch) # "none" /\ fr' = Goto(Stub(Handler(fr.ch)))
          \/ fr.pc = "trie" /\ fr' = [fr EXCEPT !.node = Append(fr.node, fr.ch), !.ch = Peek(rd)]
        BY <1>4 DEF trie, Return, Result, Step, At
    <2>2. Stage(fr') \in {"idle", "trie"} \/ (Handler(fr.ch) # "none" /\ fr'.pc = Stub(Handler(fr.ch)))
        <3>1. /\ \A l : Goto(l).pc = l
              /\ [fr EXCEPT !.node = Append(fr.node, fr.ch), !.ch = Peek(rd)].pc = fr.pc
            BY <1>0 DEF Goto, Frame
        <3>2. NoFrame.pc = "idle"
            BY DEF NoFrame
        <3> QED
            BY <2>1, <3>1, <3>2 DEF Stage
    <2>3. Handler(fr.ch) # "none" =>
             Stub(Handler(fr.ch)) \in {"stub", "slash", "star", "sharp", "xx", "nn", "bb", "quoted",
                                       "number", "string", "ident"}
        BY HandlersFor DEF Stub
    <2>4. Stage(fr') \in {"idle", "trie", "stub", "slash", "star", "sharp", "xx", "nn", "bb",
                          "quoted", "number", "string", "ident"}
        BY <2>2, <2>3 DEF Stage
    <2> QED
        BY <2>4 DEF Flows, Outside, Slashing
<1>5. CASE Going
    <2>1. Keeps(Kin(fr.pc)) /\ fr.pc \in Steady
        BY <1>5, GoingKeeps
    <2>2. CASE fr' = NoFrame
        BY <1>5, <2>2 DEF Flows, NoFrame, Stage
    <2>3. CASE On(Kin(fr.pc), fr')
        <3>1. fr.pc \in Quoting \/ fr.pc \in Stringing
            BY <2>3, StagesApart DEF On, Kin
        <3>2. Stage(fr') \in Kin(fr.pc)
            BY <2>3, <3>1, KinFacts, StagesApart DEF On, Stage
        <3> QED
            BY <1>5, <3>1, <3>2, KinFacts DEF Flows
    <2> QED
        BY <2>1, <2>2, <2>3 DEF Keeps
<1>6. CASE Counting \/ scanFloat \/ exponent
    <2>1. fr' = NoFrame \/ On(Counted, fr')
        BY <1>6, NumbersStep
    <2>2. Stage(fr') = "idle" \/ Stage(fr') \in Counted
        <3>1. "inc" \notin Counted
            BY StagesApart, SMT DEF Counted, Numeric
        <3>2. NoFrame.pc = "idle"
            BY DEF NoFrame
        <3> QED
            BY <2>1, <3>1, <3>2 DEF Stage, On
    <2> QED
        BY <1>6, <2>2 DEF Flows
<1>7. CASE Beginning
    BY <1>7, BeginningStep DEF Flows
<1>8. CASE (scanIdentifier /\ At("ident")) \/ (startWithNn /\ At("nn"))
    BY <1>8, WordsStep DEF Flows
<1>9. CASE Commenting
    <2>1. Stage(fr') \in {"idle", "scan", "star2"} \cup Slashing
        BY <1>9, CommentingStep
    <2> QED
        BY <2>1 DEF Flows, Outside
<1>10. CASE scanIdentifierOrString
    BY <1>10 DEF Paced, scanIdentifierOrString, At
<1> QED
    BY <1>1, <1>2, <1>3, <1>4, <1>5, <1>6, <1>7, <1>8, <1>9, <1>10
       DEF Scanning, Going, Counting, Beginning, Commenting, Flows

\* Where calls return from: at the end of the text, or with their token.
Ends == {"trie"} \cup Steady \cup Numeric \cup PastFirst

\* A call that returns, at the end of the text or with the token it began.
Returning ==
    /\ rd'.slice = rd.slice
    /\ out'.to = rd'.index
    /\ \/ fr.pc = "scanned" /\ out'.begin = rd.index /\ Eof(rd)
       \/ fr.pc \in Ends /\ out'.begin = fr.pos.offset

\* A call returns at the end of the text or at the last label of a handler.
LEMMA CallReturns ==
    ScanInv /\ Ahead(rd, fr) /\ Paced(rd, fr) /\ (Scanning \/ Call) /\ fr'.pc = "idle" => Returning
<1> SUFFICES ASSUME ScanInv, Ahead(rd, fr), Paced(rd, fr), Scanning \/ Call, fr'.pc = "idle"
             PROVE  Returning
    OBVIOUS
<1>0. fr \in Frame /\ rd.pos.offset = rd.index
    BY Found
<1>1. CASE Call \/ scan
    BY <1>1 DEF Call, scan, Step, Inc, Fresh, NoFrame
<1>2. CASE scanned
    <2>1. fr' # Save("ident") /\ fr' # Save("trie")
        BY <1>0 DEF Save, Frame
    <2>2. At("scanned") /\ Eof(rd) /\ Return(rd, 0, rd.pos, << >>)
        BY <1>2, <2>1 DEF scanned, Step
    <2> QED
        BY <1>0, <2>2 DEF Returning, Return, Result, At
<1>3. CASE trie
    <2>1. \A f : f = Goto(Stub(Handler(fr.ch))) /\ Handler(fr.ch) # "none" => f.pc # "idle"
        BY <1>0, HandlersFor DEF Goto, Frame, Stub
    <2>2. fr.pc = "trie"
        BY <1>3 DEF trie, At
    <2>3. fr' # [fr EXCEPT !.node = Append(fr.node, fr.ch), !.ch = Peek(rd)]
        BY <1>0, <2>2 DEF Frame
    <2>4. Return(rd, NodeToken(fr.node), fr.pos, Data(rd, fr.pos))
        BY <1>3, <2>1, <2>3 DEF trie, Step
    <2> QED
        BY <2>2, <2>4 DEF Returning, Ends, Return, Result
<1>4. CASE incAsLongAs
    <2>1. fr.pc = "inc" /\ fr.ret \in Returns
        BY <1>4 DEF incAsLongAs, IncNext, IncErrored, IncStop, At, Ahead
    <2>2. \A c : [fr EXCEPT !.pc = fr.ret, !.ch = c].pc = fr.ret
        BY <1>0 DEF Frame
    <2>3. fr'.pc \in {"inc", fr.ret}
        BY <1>4, <2>1, <2>2 DEF incAsLongAs, IncNext, IncErrored, IncStop, Step
    <2> QED
        BY <2>1, <2>3 DEF Returns
<1>5. CASE Going \/ Counting
    <2>1. PICK L : Keeps(L) /\ fr.pc \in Ends /\ "idle" \notin L
        <3>1. CASE Going
            <4>1. Keeps(Kin(fr.pc)) /\ fr.pc \in Steady /\ Kin(fr.pc) \subseteq Steady
                BY <3>1, GoingKeeps, KinFacts
            <4> QED
                BY <4>1, SMT DEF Ends, Steady
        <3>2. CASE Counting
            <4>1. Keeps(Counted) /\ fr.pc \in Numeric
                BY <3>2, CountingKeeps
            <4>2. "idle" \notin Counted
                BY SMT DEF Counted, Numeric
            <4> QED
                BY <4>1, <4>2 DEF Ends
        <3> QED
            BY <1>5, <3>1, <3>2
    <2>2. rd' \in Onward /\ ~On(L, fr')
        BY <2>1 DEF Keeps, On
    <2> QED
        BY <2>1, <2>2, OnwardFacts DEF Keeps, Returning
<1>6. CASE (scanFloat /\ At("float")) \/ (exponent /\ At("power") /\ ~isDigit(Peek(rd)))
    <2>1. fr' = Inc(fr, "digit", "fraction") \/ fr' = Inc(fr, "identChar", "identEnd")
        BY <1>6 DEF scanFloat, exponent, Step, At
    <2> QED
        BY <1>0, <2>1 DEF Inc, Frame
<1>7. CASE prefix /\ At("prefix")
    <2>1. fr' = Goto("ident") \/ fr' = Inc(fr, fr.pred, "prefixEnd")
        BY <1>7 DEF prefix, Step, At
    <2> QED
        BY <1>0, <2>1 DEF Inc, Goto, Frame
<1>8. CASE Beginning
    <2>1. fr'.pc # "idle"
        BY <1>8, BeginningStep
    <2> QED
        BY <2>1
<1>9. CASE (scanIdentifier /\ At("ident")) \/ (startWithNn /\ At("nn"))
    <2>1. fr'.pc # "idle"
        BY <1>9, WordsStep
    <2> QED
        BY <2>1
<1>10. CASE Commenting
    <2>1. /\ fr.pc \in PastFirst /\ rd' \in Onward
          /\ out'.begin = fr.pos.offset /\ out'.to = rd'.index
        <3> USE <1>0 DEF PastFirst, Step, Rescan, Return, ReturnNothing, Result, Goto, Save, Inc,
                         Frame, At, Onward
        <3>1. CASE startWithSlash
            <4>1. CASE At("slash")
                BY <3>1, <4>1 DEF startWithSlash
            <4>2. CASE At("slash2")
                BY <3>1, <4>2 DEF startWithSlash
            <4>3. CASE At("slash3")
                BY <3>1, <4>3 DEF startWithSlash
            <4> QED
                BY <3>1, <4>1, <4>2, <4>3 DEF startWithSlash
        <3>2. CASE scanVersionDigits
            BY <3>2 DEF scanVersionDigits
        <3>3. CASE comment
            <4>1. CASE At("comment")
                BY <3>3, <4>1 DEF comment
            <4>2. CASE At("afterStar") /\ fr.ch = Star
                BY <3>3, <4>2 DEF comment
            <4>3. CASE At("afterStar") /\ fr.ch # Star
                BY <3>3, <4>3 DEF comment
            <4> QED
                BY <3>3, <4>1, <4>2, <4>3 DEF comment
        <3>4. CASE startWithStar
            <4>1. CASE At("star")
                BY <3>4, <4>1 DEF startWithStar
            <4>2. CASE At("star2") /\ inBang /\ Peek(rd) = Slash
                BY <3>4, <4>2 DEF startWithStar
            <4>3. CASE At("star2") /\ ~(inBang /\ Peek(rd) = Slash)
                BY <3>4, <4>3 DEF startWithStar
            <4> QED
                BY <3>4, <4>1, <4>2, <4>3 DEF startWithStar
        <3>5. CASE startWithSharp
            BY <3>5 DEF startWithSharp
        <3> QED
            BY <1>10, <3>1, <3>2, <3>3, <3>4, <3>5 DEF Commenting
    <2> QED
        BY <2>1, OnwardFacts DEF Returning, Ends
<1>11. CASE scanIdentifierOrString
    BY <1>11 DEF Paced, scanIdentifierOrString, At
<1> QED
    BY <1>1, <1>2, <1>3, <1>4, <1>5, <1>6, <1>7, <1>8, <1>9, <1>10, <1>11
       DEF Scanning, Going, Counting, Beginning, Commenting

\* The character that a returned token begins with is one of the handler that
\* returns it.
LEMMA ReturnedLed ==
    ASSUME ScanInv, Ahead(rd, fr), Paced(rd, fr), Led(rd, fr), Scanning \/ Call,
           fr'.pc = "idle", out'.begin < Len(text')
    PROVE  /\ fr.pc \in Ends /\ Stage(fr) = fr.pc
           /\ rd'.slice = rd.slice /\ out'.to = rd'.index
           /\ out'.begin = fr.pos.offset /\ fr.pos.offset < Len(rd.slice)
           /\ LedBy(fr.pc, Handler(FirstRune(rd, fr)))
           /\ fr.pc = "trie" => Handler(FirstRune(rd, fr)) = "none"
<1>0. fr \in Frame /\ ReaderInv(rd) /\ rd.index \in Nat
    BY Found
<1>1. Returning
    BY CallReturns
<1>2. text' = rd.slice
    BY <1>1 DEF text, Returning
<1>3. fr.pc \in Ends /\ out'.begin = fr.pos.offset
    <2>1. Eof(rd) => ~(rd.index < Len(rd.slice))
        BY <1>0, ReaderFields, SMT DEF ReaderInv, Eof
    <2> QED
        BY <1>1, <1>2, <2>1 DEF Returning
<1>4. Stage(fr) = fr.pc
    <2>1. "inc" \notin Ends
        BY SMT DEF Ends, Steady, Numeric, PastFirst
    <2> QED
        BY <1>3, <2>1 DEF Stage
<1>5. ASSUME fr.pc = "trie"
      PROVE  Handler(FirstRune(rd, fr)) = "none"
    <2>1. CASE fr.node # << >>
        BY <1>4, <1>5, <2>1 DEF Led
    <2>2. CASE fr.node = << >>
        <3>1. fr.ch = Peek(rd) /\ rd.index = fr.pos.offset
            BY <1>5, <2>2 DEF Paced
        <3>2. ~Eof(rd)
            BY <1>0, <1>2, <1>3, <3>1, ReaderFields, SMT DEF ReaderInv, Eof
        <3>3. FirstRune(rd, fr) = fr.ch /\ fr.ch \in Nat
            BY <1>0, <3>1, <3>2, ReadsByte DEF FirstRune
        <3> SUFFICES ASSUME Handler(fr.ch) # "none"
                     PROVE  FALSE
            BY <3>3
        <3>4. fr.ch \in 0 .. 255
            <4>1. fr.ch \in 1 .. 127
                BY <3>3, HandlerIsAscii
            <4> QED
                BY <4>1, SMT
        <3>5. HasChild(fr.node, fr.ch)
            BY <2>2 DEF HasChild
        <3>6. trie
            BY <1>5 DEF Scanning, Call, scan, scanned, incAsLongAs, IncNext, IncErrored, IncStop,
                startWithStub, startWithSlash, scanVersionDigits, comment, startWithStar,
                startWithSharp, startWithXx, startWithBb, prefix, scanIdentifier, startWithNn,
                openQuotedIdent, scanQuotedIdent, startWithNumber, radixEnd, numberTail, scanFloat,
                exponent, startString, scanString, afterQuote, handleEscape, writeString,
                scanIdentifierOrString, At
        <3>7. fr' = Goto(Stub(Handler(fr.ch)))
            BY <2>2, <3>2, <3>4, <3>5, <3>6 DEF trie, Step
        <3> QED
            BY <1>0, <3>7, HandlersFor DEF Goto, Frame, Stub
    <2> QED
        BY <2>1, <2>2
<1>6. fr.pos.offset < Len(rd.slice) /\ LedBy(fr.pc, Handler(FirstRune(rd, fr)))
    BY <1>2, <1>3, <1>4 DEF Led
<1> QED
    BY <1>1, <1>3, <1>4, <1>5, <1>6 DEF Returning

-----------------------------------------------------------------------------
(***************************************************************************)
(* x'...' and b'...' (lexer.cc:184-222).                                   *)
(***************************************************************************)
\* The offset after the longest run, from offset i, of runes of M: RunEnd of
\* the reference, for a set.
RunIn(s, i, M) ==
    LET end[k \in 0 .. Len(s)] ==
          IF k < Len(s) /\ RuneAt(s, k) \in M THEN end[k + DecodeWidth(s, k)] ELSE k
    IN  end[i]

\* A run goes on behind a rune of the set, and ends at any other.
LEMMA RunEquation ==
    ASSUME NEW s \in Seq(Byte), NEW M
    PROVE  \A i \in 0 .. Len(s) :
               RunIn(s, i, M) = IF i < Len(s) /\ RuneAt(s, i) \in M
                                THEN RunIn(s, i + DecodeWidth(s, i), M)
                                ELSE i
<1> DEFINE D == 0 .. Len(s)
           Goes(i) == i < Len(s) /\ RuneAt(s, i) \in M
           rank == [i \in D |-> Len(s) - i]
           onward == [i \in D |-> IF i = Len(s) THEN i ELSE i + DecodeWidth(s, i)]
           Stop == {i \in D : ~Goes(i)}
           base == [i \in D |-> i]
           step == [i \in D |-> [v \in Nat |-> v]]
<1>1. Len(s) \in Nat
    BY LenProperties
<1>2. \A i \in D : i # Len(s) => /\ DecodeWidth(s, i) \in 1 .. 4
                                 /\ i + DecodeWidth(s, i) \in D
    BY <1>1, DecodeWidthBounds
<1>3. Descends(D, rank, Len(s), Stop, onward)
    <2>1. rank \in [D -> Nat] /\ \A i \in D : rank[i] <= Len(s)
        BY <1>1
    <2>2. onward \in [D -> D]
        BY <1>1, <1>2
    <2>3. \A i \in D : i \notin Stop => rank[onward[i]] < rank[i]
        <3> SUFFICES ASSUME NEW i \in D, i \notin Stop
                     PROVE  rank[onward[i]] < rank[i]
            OBVIOUS
        <3> DEFINE j == i + DecodeWidth(s, i)
        <3>1. onward[i] = j /\ i < j /\ j \in D /\ i \in Nat
            BY <1>1, <1>2
        <3> HIDE DEF j
        <3>2. rank[j] = Len(s) - j /\ rank[i] = Len(s) - i
            BY <3>1
        <3>3. j \in Nat
            BY <1>1, <3>1
        <3>4. Len(s) - j < Len(s) - i
            BY <1>1, <3>1, <3>3
        <3> QED
            BY <3>1, <3>2, <3>4
    <2> QED
        BY <2>1, <2>2, <2>3 DEF Descends
<1>4. base \in [D -> Nat] /\ step \in [D -> [Nat -> Nat]]
    BY <1>1
<1>5. PICK f \in [D -> Nat] : Recurses(f, D, Stop, onward, base, step)
    <2> DEFINE n == Len(s)
    <2>1. n \in Nat /\ Descends(D, rank, n, Stop, onward)
        BY <1>1, <1>3
    <2> HIDE DEF D, rank, onward, Stop, base, step, n
    <2> QED
        BY <1>4, <2>1, Recursion
<1>6. f = [i \in D |-> IF Goes(i) THEN f[i + DecodeWidth(s, i)] ELSE i]
    <2>1. \A i \in D : i \in Stop <=> ~Goes(i)
        OBVIOUS
    <2>2. \A i \in D : Goes(i) => onward[i] = i + DecodeWidth(s, i) /\ onward[i] \in D
        BY <1>1, <1>2
    <2>3. \A i \in D : base[i] = i /\ \A v \in Nat : step[i][v] = v
        OBVIOUS
    <2> HIDE DEF D, Goes, Stop, onward, base, step
    <2> QED
        BY <1>5, <2>1, <2>2, <2>3 DEF Recurses
<1> DEFINE Equation(end) ==
        end = [i \in D |-> IF Goes(i) THEN end[i + DecodeWidth(s, i)] ELSE i]
           g == CHOOSE end : Equation(end)
<1>7. Equation(g)
    BY <1>6
<1>8. \A i : RunIn(s, i, M) = g[i]
    BY DEF RunIn
<1>9. g = [i \in D |-> IF Goes(i) THEN g[i + DecodeWidth(s, i)] ELSE i]
    BY <1>7
<1> HIDE DEF g
<1> QED
    BY <1>8, <1>9

\* The digits of a radix, by the handler of its letter.
Radix(h) == IF h = "xx" THEN HexDigits ELSE {48, 49}

\* incAsLongAs reads just these.
LEMMA HoldsRadix ==
    ASSUME NEW c
    PROVE  /\ Holds("hex", c) <=> c \in Radix("xx")
           /\ Holds("bit", c) <=> c \in Radix("bb")
           /\ \A h : c \in Radix(h) => c \in 1 .. 127 /\ ~is_errored(c) /\ c # Quote
<1>1. (Holds("hex", c) <=> c \in Radix("xx")) /\ (Holds("bit", c) <=> c \in Radix("bb"))
    BY Zenon DEF Holds, Radix, HexDigits
<1>2. ASSUME c \in HexDigits
      PROVE  c \in 1 .. 127 /\ ~is_errored(c) /\ c # Quote
    BY <1>2, SMT DEF HexDigits, is_errored, rune_eof, rune_invalid, Quote
<1>3. ASSUME c \in {48, 49}
      PROVE  c \in 1 .. 127 /\ ~is_errored(c) /\ c # Quote
    BY <1>3, SMT DEF is_errored, rune_eof, rune_invalid, Quote
<1> QED
    BY <1>1, <1>2, <1>3 DEF Radix

\* Inside x'...' and b'...' the handler knows what it reads, and the run of
\* digits from the quote on ends where that from the index on does.
Prefixed(r, f) ==
    LET at == Stage(f)
        h == Handler(FirstRune(r, f))
    IN  /\ at \in {"prefix", "prefixEnd"} =>
             /\ f.tok = IF h = "xx" THEN tok_hexLit ELSE tok_bitLit
             /\ f.pred = IF h = "xx" THEN "hex" ELSE "bit"
        /\ at = "prefixEnd" =>
             /\ QuoteNext(r, f)
             /\ f.pos.offset + 2 <= r.index
             /\ RunIn(r.slice, f.pos.offset + 2, Radix(h)) = RunIn(r.slice, r.index, Radix(h))
        /\ f.pc = "prefixEnd" => Peek(r) \notin Radix(h)

Known == ScanInv /\ Ahead(rd, fr) /\ Paced(rd, fr) /\ Led(rd, fr)

\* The letter is read.
LEMMA LetterPrefixed ==
    Known /\ (startWithXx \/ startWithBb) => Prefixed(rd', fr')
<1> SUFFICES ASSUME Known, startWithXx \/ startWithBb
             PROVE  Prefixed(rd', fr')
    OBVIOUS
<1>1. fr \in Frame /\ rd.pos.offset = rd.index /\ Led(rd, fr) /\ ScanInv
    BY Found DEF Known
<1>2. /\ rd' = Advance(rd) /\ fr'.pc = "prefix" /\ fr'.pos = rd.pos
      /\ fr.pc \in {"xx", "bb"} /\ Stage(fr) = fr.pc /\ Stage(fr') = "prefix"
      /\ fr.pc = "xx" => fr'.tok = tok_hexLit /\ fr'.pred = "hex"
      /\ fr.pc = "bb" => fr'.tok = tok_bitLit /\ fr'.pred = "bit"
    BY <1>1 DEF startWithXx, startWithBb, Step, Save, Frame, At, Stage
<1>3. rd.index = fr.pos.offset
    BY <1>1, <1>2 DEF Led, Entries
<1>4. rd'.slice = rd.slice
    BY <1>1, <1>2, OnwardFacts DEF Onward
<1>5. FirstRune(rd', fr') = FirstRune(rd, fr)
    BY <1>1, <1>2, <1>3, <1>4 DEF FirstRune
<1>6. Handler(FirstRune(rd, fr)) = fr.pc
    BY <1>1, <1>2, LedFacts DEF Led
<1> QED
    BY <1>2, <1>5, <1>6 DEF Prefixed

\* The quote is read.
LEMMA QuotePrefixed ==
    Known /\ Prefixed(rd, fr) /\ prefix /\ At("prefix") => Prefixed(rd', fr')
<1> SUFFICES ASSUME Known, Prefixed(rd, fr), prefix, At("prefix")
             PROVE  Prefixed(rd', fr')
    OBVIOUS
<1>1. /\ fr \in Frame /\ ScanInv /\ fr.pc = "prefix" /\ Stage(fr) = "prefix"
      /\ rd.index = fr.pos.offset + 1 /\ fr.pos.offset \in Nat
      /\ ReaderInv(rd) /\ ReaderInv(Peeked(rd))
    BY Found DEF Known, Led, Stage, At
<1>2. CASE Peek(rd) = Quote
    <2>1. rd' = Advance(Peeked(rd)) /\ fr' = Inc(fr, fr.pred, "prefixEnd")
        BY <1>2 DEF prefix, Step, At
    <2>2. /\ fr'.pc = "inc" /\ Stage(fr') = "prefixEnd" /\ fr'.pos = fr.pos
          /\ fr'.tok = fr.tok /\ fr'.pred = fr.pred
        BY <1>1, <2>1 DEF Inc, Frame, Stage
    <2>3. /\ rd'.slice = rd.slice /\ Peek(Peeked(rd)) = Quote
          /\ Peeked(rd).slice = rd.slice /\ Peeked(rd).index = rd.index
        BY <1>1, <1>2, <2>1, OnwardFacts, PeekedInv, PeekAgain DEF Onward
    <2>4. Quote \in 1 .. 127 /\ Quote # rune_eof
        BY SMT DEF Quote, rune_eof
    <2>5. ~Eof(Peeked(rd))
        BY <2>3, <2>4 DEF Peek
    <2>6. rd'.index = rd.index + 1 /\ rd.slice[rd.index + 1] = Quote /\ rd.index < Len(rd.slice)
        BY <1>1, <2>1, <2>3, <2>4, <2>5, ReadsByte
    <2>7. rd.index + 1 = fr.pos.offset + 2
        BY <1>1, SMT
    <2>8. QuoteNext(rd', fr') /\ FirstRune(rd', fr') = FirstRune(rd, fr)
        BY <1>1, <2>2, <2>3, <2>6, <2>7 DEF QuoteNext, FirstRune
    <2>9. fr'.pos.offset + 2 = rd'.index /\ fr'.pos.offset + 2 <= rd'.index
        BY <1>1, <2>2, <2>6, <2>7
    <2> QED
        BY <1>1, <2>2, <2>8, <2>9 DEF Prefixed
<1>3. CASE Peek(rd) # Quote
    <2>1. fr' = Goto("ident")
        BY <1>3 DEF prefix, Step, At
    <2>2. Stage(fr') = "ident" /\ fr'.pc = "ident"
        BY <1>1, <2>1 DEF Goto, Frame, Stage
    <2> QED
        BY <2>2 DEF Prefixed
<1> QED
    BY <1>2, <1>3

\* The digits are read.
LEMMA DigitsPrefixed ==
    Known /\ Prefixed(rd, fr) /\ incAsLongAs => Prefixed(rd', fr')
<1> SUFFICES ASSUME Known, Prefixed(rd, fr), incAsLongAs
             PROVE  Prefixed(rd', fr')
    OBVIOUS
<1>1. /\ fr \in Frame /\ ScanInv /\ fr.pc = "inc" /\ fr.ret \in Returns
      /\ Stage(fr) = fr.ret /\ fr.pos.offset \in Nat
      /\ ReaderInv(rd) /\ ReaderInv(Peeked(rd))
    <2>1. fr.pc = "inc"
        BY DEF incAsLongAs, IncNext, IncErrored, IncStop, At
    <2> QED
        BY <2>1, Found DEF Known, Ahead, Stage
<1> DEFINE h == Handler(FirstRune(rd, fr))
<1>2. /\ rd' \in Onward /\ fr'.pos = fr.pos /\ fr'.tok = fr.tok /\ fr'.pred = fr.pred
      /\ Stage(fr') = fr.ret /\ (fr' = fr \/ fr'.pc = fr.ret)
    <2>1. \A c : LET f == [fr EXCEPT !.pc = fr.ret, !.ch = c]
                 IN  f.pc = fr.ret /\ f.pos = fr.pos /\ f.tok = fr.tok /\ f.pred = fr.pred
        BY <1>1 DEF Frame
    <2>2. "inc" \notin Returns
        BY DEF Returns
    <2> QED
        BY <1>1, <2>1, <2>2 DEF incAsLongAs, IncNext, IncErrored, IncStop, Step, Onward, Stage
<1>3. rd'.slice = rd.slice /\ FirstRune(rd', fr') = FirstRune(rd, fr)
      /\ (QuoteNext(rd, fr) => QuoteNext(rd', fr'))
    BY <1>1, <1>2, OnwardFacts DEF FirstRune, QuoteNext
<1>4. CASE fr.ret # "prefixEnd"
    <2>1. fr.ret # "prefix"
        BY <1>1 DEF Returns
    <2>2. fr'.pc # "prefixEnd"
        BY <1>1, <1>2, <1>4
    <2> QED
        BY <1>2, <1>4, <2>1, <2>2 DEF Prefixed
<1>5. CASE fr.ret = "prefixEnd"
    <2>1. h \in {"xx", "bb"}
        BY <1>1, <1>5, LedFacts DEF Known, Led
    <2>2. /\ fr.tok = IF h = "xx" THEN tok_hexLit ELSE tok_bitLit
          /\ fr.pred = IF h = "xx" THEN "hex" ELSE "bit"
          /\ QuoteNext(rd, fr) /\ fr.pos.offset + 2 <= rd.index
          /\ RunIn(rd.slice, fr.pos.offset + 2, Radix(h)) = RunIn(rd.slice, rd.index, Radix(h))
        BY <1>1, <1>5 DEF Prefixed
    <2>3. \A c : Holds(fr.pred, c) <=> c \in Radix(h)
        BY <2>1, <2>2, HoldsRadix
    <2>4. \A c : c \in Radix(h) => ~is_errored(c)
        BY HoldsRadix
    <2>5. CASE IncNext
        <3>1. rd' = Advance(Peeked(rd)) /\ fr' = fr /\ Peek(rd) \in Radix(h)
            BY <1>1, <1>5, <2>3, <1>5, <2>5 DEF IncNext, Step
        <3>2. ~Eof(rd)
            BY <2>5, ReadableIsThere DEF IncNext
        <3>3. /\ rd.index \in 0 .. Len(rd.slice) /\ rd.index < Len(rd.slice)
              /\ Peek(rd) = RuneAt(rd.slice, rd.index) /\ rd.slice \in Seq(Byte)
            BY <1>1, <3>2, ReaderFields, SMT DEF ReaderInv, Eof, Peek
        <3>4. rd'.index = rd.index + DecodeWidth(rd.slice, rd.index)
            <4>1. Peeked(rd).slice = rd.slice /\ Peeked(rd).index = rd.index /\ ~Eof(Peeked(rd))
                BY <1>1, <3>2, PeekedInv, PeekAgain
            <4>2. EndsRune(Peeked(rd), PosAfterNext(Peeked(rd)))
                BY <1>1, <4>1, PosAfterEndsRune
            <4> QED
                BY <1>1, <3>1, <4>1, <4>2, ForwardInv DEF Advance, EndsRune
        <3>5. RunIn(rd.slice, rd.index, Radix(h)) = RunIn(rd.slice, rd'.index, Radix(h))
            BY <3>1, <3>3, <3>4, RunEquation
        <3>6. fr.pos.offset + 2 <= rd'.index
            <4>1. rd'.index \in Nat /\ rd.index <= rd'.index /\ rd.index \in Nat
                BY <1>1, <1>2, OnwardFacts, Found
            <4> QED
                BY <1>1, <2>2, <4>1, SMT
        <3> QED
            BY <1>1, <1>2, <1>3, <1>5, <2>2, <3>1, <3>5, <3>6 DEF Prefixed
    <2>6. CASE ~IncNext
        <3>1. rd' = Peeked(rd) /\ Peek(rd) \notin Radix(h)
            BY <2>3, <2>4, <2>6 DEF incAsLongAs, IncErrored, IncStop, Step
        <3>2. rd'.index = rd.index /\ Peek(rd') = Peek(rd)
            BY <1>1, <3>1, PeekAgain
        <3> QED
            BY <1>2, <1>3, <1>5, <2>2, <3>1, <3>2 DEF Prefixed
    <2> QED
        BY <2>5, <2>6
<1> QED
    BY <1>4, <1>5

\* Every step keeps what is known of x'...' and b'...'.
LEMMA NextPrefixed ==
    Known /\ Prefixed(rd, fr) /\ (Scanning \/ Call) => Prefixed(rd', fr')
<1> SUFFICES ASSUME Known, Prefixed(rd, fr), Scanning \/ Call
             PROVE  Prefixed(rd', fr')
    OBVIOUS
<1>1. Flows
    BY NextFlows DEF Known
<1>2. ASSUME Stage(fr') \notin {"prefix", "prefixEnd"}
      PROVE  Prefixed(rd', fr')
    <2>1. fr'.pc # "prefixEnd"
        BY <1>2 DEF Stage
    <2> QED
        BY <1>2, <2>1 DEF Prefixed
<1>3. CASE incAsLongAs
    BY <1>3, DigitsPrefixed
<1>4. CASE prefix /\ At("prefix")
    BY <1>4, QuotePrefixed
<1>5. CASE Beginning
    <2>1. CASE startWithXx \/ startWithBb
        BY <2>1, LetterPrefixed
    <2>2. CASE ~(startWithXx \/ startWithBb)
        <3>1. fr.pc \notin {"xx", "bb"}
            BY <1>5, <2>2 DEF Beginning, openQuotedIdent, At
        <3>2. Stage(fr') \notin {"prefix", "prefixEnd"}
            BY <1>5, <3>1, BeginningStep DEF Known
        <3> QED
            BY <1>2, <3>2
    <2> QED
        BY <2>1, <2>2
<1>6. CASE \/ Stage(fr') = "idle" \/ Stage(fr') \in Quoting \cup Stringing
           \/ Stage(fr') \in Counted \/ Stage(fr') \in {"identEnd", "nnEnd"}
           \/ Stage(fr') \in Outside
    <2>1. /\ "prefix" \notin Quoting \cup Stringing \cup Counted \cup Outside
          /\ "prefixEnd" \notin Quoting \cup Stringing \cup Counted \cup Outside
        BY SMT DEF Quoting, Stringing, Counted, Numeric, Outside, Slashing
    <2>2. Stage(fr') \notin {"prefix", "prefixEnd"}
        BY <1>6, <2>1
    <2> QED
        BY <1>2, <2>2
<1> QED
    BY <1>1, <1>3, <1>4, <1>5, <1>6 DEF Flows

\* PrefixedLiterals for the letters of one handler.
PrefixedToken(h, letters, tok) ==
    LET end == RunIn(text, out.begin + 2, Radix(h))
    IN  Returned /\ Introduces(out.begin, letters) =>
            IF Looks(text, end, <<Quote>>)
            THEN /\ out.tok = tok
                 /\ out.to = end + 1
                 /\ out.lit = SubSeq(text, out.begin + 1, out.to)
            ELSE out.tok = rune_invalid /\ out.to = end /\ out.lit = << >>

PrefixedTokens ==
    /\ PrefixedToken("xx", {120, 88}, tok_hexLit)
    /\ PrefixedToken("bb", {98, 66}, tok_bitLit)

\* The two prefixed literals one by one are the property.
LEMMA PrefixedKinds == PrefixedTokens => PrefixedLiterals
<1> DEFINE Kinds == {<<{120, 88}, HexDigits, tok_hexLit>>, <<{98, 66}, {48, 49}, tok_bitLit>>}
           Body(kind, end) ==
              Returned /\ Clean(text) /\ Introduces(out.begin, kind[1]) =>
                IF Looks(text, end, <<Quote>>)
                THEN /\ out.tok = kind[3]
                     /\ out.to = end + 1
                     /\ out.lit = SubSeq(text, out.begin + 1, out.to)
                ELSE out.tok = rune_invalid /\ out.to = end /\ out.lit = << >>
<1>1. ASSUME PrefixedTokens, NEW kind \in Kinds
      PROVE  Body(kind, RunIn(text, out.begin + 2, kind[2]))
    <2>1. CASE kind = <<{120, 88}, HexDigits, tok_hexLit>>
        BY <1>1, <2>1 DEF PrefixedTokens, PrefixedToken, Radix
    <2>2. CASE kind = <<{98, 66}, {48, 49}, tok_bitLit>>
        BY <1>1, <2>2 DEF PrefixedTokens, PrefixedToken, Radix
    <2> QED
        BY <1>1, <2>1, <2>2
<1>2. (\A kind \in Kinds : Body(kind, RunIn(text, out.begin + 2, kind[2]))) => PrefixedLiterals
    BY DEF PrefixedLiterals, RunEnd, RunIn
<1> QED
    BY <1>1, <1>2

\* A quote, or what is not one, at the end of the digits.
LEMMA LooksQuote ==
    ASSUME NEW r, ReaderInv(r)
    PROVE  Looks(r.slice, r.index, <<Quote>>) <=> Peek(r) = Quote
<1>1. /\ r.slice \in Seq(Byte) /\ r.index \in Nat /\ Len(r.slice) \in Nat
      /\ (Eof(r) <=> ~(r.index < Len(r.slice)))
    BY ReaderFields, SMT DEF ReaderInv, Eof
<1>2. Quote \in 1 .. 127 /\ Quote # rune_eof
    BY SMT DEF Quote, rune_eof
<1>3. Peek(r) = Quote <=> ~Eof(r) /\ r.slice[r.index + 1] = Quote
    <2>1. CASE Eof(r)
        BY <1>2, <2>1 DEF Peek
    <2>2. CASE ~Eof(r)
        BY <1>2, <2>2, ReadsByte
    <2> QED
        BY <2>1, <2>2
<1>4. Looks(r.slice, r.index, <<Quote>>) <=>
        r.index + 1 <= Len(r.slice) /\ SubSeq(r.slice, r.index + 1, r.index + 1) = <<Quote>>
    <2>1. Len(<<Quote>>) = 1
        BY SMT
    <2> QED
        BY <2>1 DEF Looks
<1>5. ASSUME r.index < Len(r.slice)
      PROVE  SubSeq(r.slice, r.index + 1, r.index + 1) = <<r.slice[r.index + 1]>>
    <2>1. 1 \in 1 .. 4 /\ r.index + 1 <= Len(r.slice)
        BY <1>1, <1>5, SMT
    <2> QED
        BY <1>1, <2>1, FewBytes
<1>6. r.index < Len(r.slice) <=> r.index + 1 <= Len(r.slice)
    BY <1>1, SMT
<1>7. \A a, b : <<a>> = <<b>> <=> a = b
    BY SMT
<1> QED
    BY <1>1, <1>3, <1>4, <1>5, <1>6, <1>7

\* What x and b return when a quote is right behind them.
LEMMA PrefixedReturn ==
    ASSUME Known, Prefixed(rd, fr), Scanning \/ Call, fr'.pc = "idle",
           NEW h \in {"xx", "bb"}, NEW letters, NEW tok,
           \A c \in letters : c \in 1 .. 127 /\ Handler(c) = h,
           tok = IF h = "xx" THEN tok_hexLit ELSE tok_bitLit
    PROVE  PrefixedToken(h, letters, tok)'
<1> DEFINE s == rd.slice
           b == fr.pos.offset
           end == RunIn(text', out'.begin + 2, Radix(h))
<1> SUFFICES ASSUME Introduces(out.begin, letters)'
             PROVE  IF Looks(text', end, <<Quote>>)
                    THEN /\ out'.tok = tok
                         /\ out'.to = end + 1
                         /\ out'.lit = SubSeq(text', out'.begin + 1, out'.to)
                    ELSE out'.tok = rune_invalid /\ out'.to = end /\ out'.lit = << >>
    BY DEF PrefixedToken
<1>0. /\ ScanInv /\ Ahead(rd, fr) /\ Paced(rd, fr) /\ Led(rd, fr)
      /\ ReaderInv(rd) /\ ReaderInv(Peeked(rd)) /\ s \in Seq(Byte) /\ b \in Nat /\ fr \in Frame
      /\ rd.index \in 0 .. Len(s)
    <2>1. ScanInv /\ Ahead(rd, fr) /\ Paced(rd, fr) /\ Led(rd, fr)
        BY DEF Known
    <2> QED
        BY <2>1, Found, ReaderFields, SMT DEF ReaderInv
<1>1. /\ out'.begin + 1 < Len(text') /\ text'[out'.begin + 1] \in letters
      /\ text'[out'.begin + 2] = Quote
    BY DEF Introduces
<1>2. out'.begin < Len(text')
    <2>1. Returning
        BY <1>0, CallReturns
    <2>2. out'.begin \in Nat
        BY <1>0, <2>1, Found DEF Returning
    <2>3. text' = s
        BY <2>1 DEF Returning, text
    <2>4. Len(s) \in Nat
        BY <1>0, LenProperties
    <2> QED
        BY <1>1, <2>2, <2>3, <2>4, SMT
<1>3. /\ fr.pc \in Ends /\ Stage(fr) = fr.pc
      /\ text' = s /\ out'.to = rd'.index /\ out'.begin = b /\ b < Len(s)
      /\ LedBy(fr.pc, Handler(FirstRune(rd, fr)))
      /\ fr.pc = "trie" => Handler(FirstRune(rd, fr)) = "none"
    BY <1>0, <1>2, ReturnedLed DEF text
<1>4. Handler(FirstRune(rd, fr)) = h
    <2>1. s[b + 1] \in letters /\ s[b + 1] \in 1 .. 127
        BY <1>1, <1>3
    <2>2. FirstRune(rd, fr) = s[b + 1]
        BY <1>0, <1>3, <2>1, AsciiRunes DEF FirstRune
    <2> QED
        BY <2>1, <2>2
<1>5. QuoteNext(rd, fr)
    BY <1>1, <1>3 DEF QuoteNext
<1>6. fr.pc = "prefixEnd"
    <2>1. fr.pc # "identEnd"
        BY <1>0, <1>3, <1>4, <1>5 DEF Led
    <2>2. fr.pc # "trie"
        BY <1>3, <1>4
    <2>3. fr.pc \notin Numeric \cup Quoting \cup Stringing \cup Slashing \cup {"star2", "nnEnd", "stub"}
        BY <1>3, <1>4, LedFacts
    <2> HIDE DEF s, b, end
    <2> QED
        BY <1>3, <2>1, <2>2, <2>3 DEF Ends, Steady, Quoting, Stringing, Slashing, PastFirst
<1>7. /\ fr.tok = tok
      /\ RunIn(s, b + 2, Radix(h)) = RunIn(s, rd.index, Radix(h))
      /\ Peek(rd) \notin Radix(h)
    BY <1>3, <1>4, <1>6 DEF Prefixed
<1>8. end = rd.index
    <2>1. rd.index < Len(s) => Peek(rd) = RuneAt(s, rd.index)
        BY <1>0, ReaderFields, SMT DEF Peek, Eof, ReaderInv
    <2>2. end = RunIn(s, rd.index, Radix(h))
        BY <1>3, <1>7
    <2> QED
        BY <1>0, <1>7, <2>1, <2>2, RunEquation
<1>9. Looks(text', end, <<Quote>>) <=> Peek(rd) = Quote
    BY <1>0, <1>3, <1>8, LooksQuote
<1>10. prefix
    BY <1>6 DEF Scanning, Call, scan, scanned, trie, incAsLongAs, IncNext, IncErrored, IncStop,
        startWithStub, startWithSlash, scanVersionDigits, comment, startWithStar,
        startWithSharp, startWithXx, startWithBb, scanIdentifier, startWithNn,
        openQuotedIdent, scanQuotedIdent, startWithNumber, radixEnd, numberTail, scanFloat,
        exponent, startString, scanString, afterQuote, handleEscape, writeString,
        scanIdentifierOrString, At
<1> HIDE DEF end
<1>11. CASE Peek(rd) = Quote
    <2> DEFINE closed == Advance(Peeked(rd))
    <2>1. Return(closed, fr.tok, fr.pos, Data(closed, fr.pos))
        BY <1>6, <1>10, <1>11 DEF prefix, At
    <2>2. out'.tok = fr.tok /\ out'.lit = SubSeq(closed.slice, b + 1, closed.index) /\ rd' = closed
        BY <2>1 DEF Return, Result, Data
    <2>3. Quote \in 1 .. 127 /\ Quote # rune_eof
        BY SMT DEF Quote, rune_eof
    <2>4. Peek(Peeked(rd)) = Quote /\ Peeked(rd).index = rd.index
        BY <1>0, <1>11, PeekAgain
    <2>5. ~Eof(Peeked(rd))
        BY <2>3, <2>4 DEF Peek
    <2>6. closed.index = rd.index + 1
        BY <1>0, <2>3, <2>4, <2>5, ReadsByte
    <2>7. closed.slice = s
        BY <1>0, OnwardFacts DEF Onward
    <2> QED
        BY <1>3, <1>7, <1>8, <1>9, <1>11, <2>2, <2>6, <2>7
<1>12. CASE Peek(rd) # Quote
    <2>1. Return(Peeked(rd), rune_invalid, fr.pos, << >>)
        BY <1>6, <1>10, <1>12 DEF prefix, At
    <2>2. out'.tok = rune_invalid /\ out'.lit = << >> /\ rd' = Peeked(rd)
        BY <2>1 DEF Return, Result
    <2>3. rd'.index = rd.index
        BY <1>0, <2>2, PeekAgain
    <2> QED
        BY <1>3, <1>8, <1>9, <1>12, <2>2, <2>3
<1> QED
    BY <1>11, <1>12

\* The letters' handlers.
LEMMA PrefixLetters ==
    /\ \A c \in {120, 88} : c \in 1 .. 127 /\ Handler(c) = "xx"
    /\ \A c \in {98, 66} : c \in 1 .. 127 /\ Handler(c) = "bb"
<1>1. Handler(120) = "xx" /\ Handler(88) = "xx" /\ Handler(98) = "bb" /\ Handler(66) = "bb"
    BY SMT DEF Handler, isDigit, isLetter, Slash, Star, Minus, Dot, Backquote, Quote, DQuote,
               Underscore
<1>2. 120 \in 1 .. 127 /\ 88 \in 1 .. 127 /\ 98 \in 1 .. 127 /\ 66 \in 1 .. 127
    BY SMT
<1> QED
    BY <1>1, <1>2

\* Every step keeps what is said of a returned literal, or is the one that returns it.
LEMMA NextPrefixedTokens ==
    Known /\ Prefixed(rd, fr) /\ (Scanning \/ Call) => PrefixedTokens'
<1> SUFFICES ASSUME Known, Prefixed(rd, fr), Scanning \/ Call
             PROVE  PrefixedTokens'
    OBVIOUS
<1>1. CASE fr'.pc # "idle"
    BY <1>1 DEF PrefixedTokens, PrefixedToken, Returned, At
<1>2. CASE fr'.pc = "idle"
    <2>1. PrefixedToken("xx", {120, 88}, tok_hexLit)'
        <3> DEFINE letters == {120, 88}
        <3>1. \A c \in letters : c \in 1 .. 127 /\ Handler(c) = "xx"
            BY PrefixLetters
        <3> HIDE DEF letters
        <3>2. PrefixedToken("xx", letters, tok_hexLit)'
            BY <1>2, <3>1, PrefixedReturn
        <3> QED
            BY <3>2 DEF letters
    <2>2. PrefixedToken("bb", {98, 66}, tok_bitLit)'
        <3> DEFINE letters == {98, 66}
        <3>1. \A c \in letters : c \in 1 .. 127 /\ Handler(c) = "bb"
            BY PrefixLetters
        <3> HIDE DEF letters
        <3>2. PrefixedToken("bb", letters, tok_bitLit)'
            BY <1>2, <3>1, PrefixedReturn
        <3> QED
            BY <3>2 DEF letters
    <2> QED
        BY <2>1, <2>2 DEF PrefixedTokens
<1> QED
    BY <1>1, <1>2

\* What is known of a call of scan() between any two of its steps.
LEMMA ScannerKnown == ScanSpec => []Known
<1> DEFINE K == Ahead(rd, fr) /\ Paced(rd, fr) /\ Led(rd, fr)
<1>1. Init => K
    <2> SUFFICES ASSUME Init
                 PROVE  K
        OBVIOUS
    <2>1. Ahead(rd, fr)
        BY DEF Init, NoFrame, Ahead, PastFirst
    <2>2. Paced(rd, fr)
        BY FreePaced DEF Init, NoFrame, Free
    <2>3. Led(rd, fr)
        BY BetweenTokens DEF Init, NoFrame, Stage
    <2> QED
        BY <2>1, <2>2, <2>3
<1>2. ScanInv /\ K /\ [Scanning \/ Call]_vars => K'
    <2>1. ScanInv /\ Ahead(rd, fr) /\ (Scanning \/ Call) => Ahead(rd, fr)'
        BY NextNests DEF Nests, Ahead, Next, Client
    <2>2. ScanInv /\ K /\ (Scanning \/ Call) => Paced(rd, fr)'
        BY NextPaces DEF Paces
    <2>3. ScanInv /\ K /\ (Scanning \/ Call) => Led(rd, fr)'
        BY NextLed
    <2>4. UNCHANGED vars => UNCHANGED <<rd, fr>>
        BY DEF vars
    <2>5. K /\ UNCHANGED <<rd, fr>> => K'
        OBVIOUS
    <2> QED
        BY <2>1, <2>2, <2>3, <2>4, <2>5
<1>3. ScanInv /\ K => Known
    BY DEF Known
<1> QED
    BY <1>1, <1>2, <1>3, ScannerInvariant, ScanSpecIsSpec, PTL DEF ScanSpec

\* A hexadecimal or bit literal takes in just the digits of its radix and the
\* quote behind them; where there is none the error stops right there and
\* leaves the rest to be read, whatever the statement: the handlers of x and b
\* have read their letter by then, and share their code with the identifiers
\* that begin with it.
THEOREM ScannerPrefixedLiterals == ScanSpec => []PrefixedLiterals
<1>1. Init => Prefixed(rd, fr) /\ PrefixedTokens
    <2> SUFFICES ASSUME Init
                 PROVE  Prefixed(rd, fr) /\ PrefixedTokens
        OBVIOUS
    <2>1. Prefixed(rd, fr)
        BY DEF Init, NoFrame, Stage, Prefixed
    <2>2. ~Returned
        BY DEF Init, Returned
    <2> QED
        BY <2>1, <2>2 DEF PrefixedTokens, PrefixedToken
<1>2. Known /\ Prefixed(rd, fr) /\ PrefixedTokens /\ [Scanning \/ Call]_vars
      => Prefixed(rd, fr)' /\ PrefixedTokens'
    <2>1. UNCHANGED vars => UNCHANGED <<rd, fr, out>>
        BY DEF vars
    <2>2. Prefixed(rd, fr) /\ UNCHANGED <<rd, fr, out>> => Prefixed(rd, fr)'
        OBVIOUS
    <2>3. PrefixedTokens /\ UNCHANGED <<rd, fr, out>> => PrefixedTokens'
        BY DEF PrefixedTokens, PrefixedToken, Returned, At, text, Introduces
    <2> QED
        BY <2>1, <2>2, <2>3, NextPrefixed, NextPrefixedTokens
<1> QED
    BY <1>1, <1>2, ScannerKnown, PrefixedKinds, PTL DEF ScanSpec

-----------------------------------------------------------------------------
(***************************************************************************)
(* Numbers (lexer.cc:270-349, scanner.cc:256-303).                         *)
(***************************************************************************)
\* The bytes of s between two offsets are of M.
AllIn(s, i, j, M) == i <= j /\ \A k \in i + 1 .. j : s[k] \in M

Digits == 48 .. 57

WordBytes == {c \in Byte : isIdentChar(c)}

\* Digits, and a fraction if there is a point: empty or not.
DecimalIn(s, b, e) ==
    \E d \in b + 1 .. e : /\ AllIn(s, b, d, Digits)
                          /\ \/ d = e
                             \/ s[d + 1] = Dot /\ AllIn(s, d + 1, e, Digits)

\* All before the digits of the exponent, which begin at x.
PowerIn(s, b, x) ==
    \E m \in b + 1 .. x : /\ DecimalIn(s, b, m) /\ s[m + 1] \in {101, 69}
                          /\ \/ x = m + 1 /\ (x < Len(s) => s[m + 2] \notin {Plus, Minus})
                             \/ x = m + 2 /\ s[m + 2] \in {Plus, Minus}

RadixLetters(tok) == IF tok = tok_hexLit THEN {120, 88} ELSE {98}

RadixDigits(tok) == IF tok = tok_hexLit THEN HexDigits ELSE {48, 49}

\* 0x or 0b and the digits so far.
RadixIn(s, b, e, tok) ==
    /\ tok \in {tok_hexLit, tok_bitLit}
    /\ s[b + 1] = 48 /\ s[b + 2] \in RadixLetters(tok)
    /\ AllIn(s, b + 2, e, RadixDigits(tok))

\* An integer, hexadecimal or bit literal.
LiteralIn(s, b, e, tok) ==
    \/ tok = tok_intLit /\ b < e /\ AllIn(s, b, e, Digits)
    \/ b + 2 < e /\ RadixIn(s, b, e, tok)

\* What incAsLongAs reads for a stage of a number.
PredFor(at, tok) ==
    CASE at = "digits"   -> "octal"
      [] at = "radixEnd" -> IF tok = tok_hexLit THEN "hex" ELSE "bit"
      [] at = "identEnd" -> "identChar"
      [] OTHER           -> "digit"

\* Where a number goes wrong is where its text, read as a word, is no number any
\* more: behind the digits of 0x or 0b, if there are any, or behind an integer a
\* character follows that only a word can hold ...
SpoiltRadix(s, b) ==
    \E tok \in {tok_hexLit, tok_bitLit}, m \in b + 2 .. Len(s) :
        /\ RadixIn(s, b, m, tok)
        /\ m < Len(s) => RuneAt(s, m) \notin RadixDigits(tok)
        /\ m = b + 2 \/ (m < Len(s) /\ isIdentChar(RuneAt(s, m)))

SpoiltInteger(s, b) ==
    \E m \in b + 1 .. Len(s) - 1 :
        /\ AllIn(s, b, m, Digits)
        /\ isIdentChar(RuneAt(s, m)) /\ RuneAt(s, m) \notin Digits \cup {Dot, 101, 69}
        /\ s[b + 1] = 48 /\ m = b + 1 => RuneAt(s, m) \notin {120, 88, 98}

\* ... or behind a decimal number an e without its digits.
SpoiltFloat(s, b) ==
    \E m \in b + 1 .. Len(s) - 1 :
        DecimalIn(s, b, m) /\ s[m + 1] \in {101, 69} /\ ~HasExponent(s, m + 1)

Spoilt(s, b) == SpoiltRadix(s, b) \/ SpoiltInteger(s, b) \/ SpoiltFloat(s, b)

\* A point or an e behind digits, for which the number is read as a float; those of
\* a hexadecimal or bit literal are not the digits that scanFloat then finds.
RadixAhead(s, b) == GoesOnAsFloat(s, b) /\ s[b + 1] = 48 /\ s[b + 2] \notin Digits

FloatAhead(s, b) ==
    \/ RadixAhead(s, b)
    \/ \E m \in b + 1 .. Len(s) - 1 : AllIn(s, b, m, Digits) /\ s[m + 1] \in {Dot, 101, 69}

Pointed(s, b, e) == \E k \in b + 1 .. e : s[k] = Dot

\* An integer is not the 0 of 0x or 0b.
NoPrefix(r, b) ==
    r.index = b + 1 /\ r.slice[b + 1] = 48 => Peek(r) \notin {120, 88, 98}

\* The text that a number has read, at each stage of its handler.  What is next
\* matters as well: behind 0x1 and 0b1 scanDigits is called where no digit is, and a
\* loop that has not begun has something to read.  A handler that goes back to the
\* start of the number has seen what is wrong with it, and remembers nothing else.
Numbered(r, f) ==
    LET at == Stage(f)
        s == r.slice
        b == f.pos.offset
        e == r.index
    IN  at \in Counted /\ isDigit(FirstRune(r, f)) =>
          /\ at = "number2" => f.tok = tok_intLit /\ e = b + 1 /\ f.ch = s[b + 1]
          /\ at \in {"digits", "numberTail"} =>
               /\ LiteralIn(s, b, e, f.tok)
               /\ f.tok = tok_intLit \/ f.pc # "inc" \/ at = "numberTail"
               /\ f.tok = tok_intLit \/ ~isDigit(Peek(r))
               /\ IF f.tok = tok_intLit THEN NoPrefix(r, b) ELSE Peek(r) \notin RadixDigits(f.tok)
          /\ at = "radixEnd" => /\ RadixIn(s, b, e, f.tok)
                                /\ e = b + 2 => r.pos = f.mark
                                /\ f.mark.offset = b + 2
          /\ f.pc = "radixEnd" => Peek(r) \notin RadixDigits(f.tok)
          /\ at = "identEnd" => AllIn(s, b, e, WordBytes) /\ Spoilt(s, b)
          /\ at \in {"float", "fraction"} => FloatAhead(s, b)
          /\ at = "fraction" => AllIn(s, b, e, Digits)
          /\ at = "exponent" => /\ DecimalIn(s, b, e)
                                /\ \/ Pointed(s, b, e)
                                   \/ e = b + 1 /\ RadixAhead(s, b)
                                   \/ f.pc = "exponent" /\ Peek(r) \in {101, 69}
          /\ at = "sign" => \E m \in b .. e : e = m + 1 /\ DecimalIn(s, b, m) /\ s[m + 1] \in {101, 69}
          /\ at = "power" => PowerIn(s, b, e)
          /\ at = "floatEnd" => \E x \in b .. e : /\ PowerIn(s, b, x) /\ AllIn(s, x, e, Digits)
                                                  /\ x < e \/ isDigit(Peek(r))
          /\ f.pc = "inc" => f.pred = PredFor(at, f.tok)
          /\ f.pc \in {"numberTail", "fraction", "exponent", "floatEnd"} => ~isDigit(Peek(r))
          /\ f.pc = "identEnd" => ~isIdentChar(Peek(r)) \/ is_errored(Peek(r))

\* Two stretches of bytes of a set, end to end, are one.
LEMMA AllInJoins ==
    ASSUME NEW s, NEW M, NEW i \in Nat, NEW j \in Nat, NEW k \in Nat,
           AllIn(s, i, j, M), AllIn(s, j, k, M)
    PROVE  AllIn(s, i, k, M)
<1>1. i <= k /\ \A n \in i + 1 .. k : n \in i + 1 .. j \/ n \in j + 1 .. k
    BY SMT DEF AllIn
<1> QED
    BY <1>1 DEF AllIn

\* One more byte.
LEMMA AllInGrows ==
    ASSUME NEW s, NEW M, NEW i \in Nat, NEW j \in Nat, AllIn(s, i, j, M), s[j + 1] \in M
    PROVE  AllIn(s, i, j + 1, M)
<1>1. i <= j + 1 /\ \A n \in i + 1 .. j + 1 : n \in i + 1 .. j \/ n = j + 1
    BY SMT DEF AllIn
<1> QED
    BY <1>1 DEF AllIn

\* Nothing.
LEMMA AllInEmpty ==
    ASSUME NEW s, NEW M, NEW i \in Nat
    PROVE  AllIn(s, i, i, M)
BY SMT DEF AllIn

\* A stretch of bytes of a set is one of any larger set.
LEMMA AllInOf ==
    ASSUME NEW s, NEW M, NEW L, NEW i, NEW j, AllIn(s, i, j, M), M \subseteq L
    PROVE  AllIn(s, i, j, L)
BY DEF AllIn

\* The part of a text between two offsets, as a text of its own.
LEMMA PartOfText ==
    ASSUME NEW s \in Seq(Byte), NEW b \in Nat, NEW e \in Nat, b <= e, e <= Len(s)
    PROVE  LET t == SubSeq(s, b + 1, e)
           IN  /\ t \in Seq(Byte) /\ Len(t) = e - b /\ DOMAIN t = 1 .. e - b
               /\ \A k \in 1 .. e - b : t[k] = s[b + k]
               /\ t # << >> <=> b < e
               /\ \A i \in Nat, j \in Nat : i <= j /\ b + j <= e =>
                     SubSeq(t, i + 1, j) = SubSeq(s, b + i + 1, b + j)
<1> DEFINE t == SubSeq(s, b + 1, e)
<1>1. t \in Seq(Byte) /\ Len(t) = e - b /\ \A k \in 1 .. e - b : t[k] = s[b + k]
    BY SMT
<1>2. DOMAIN t = 1 .. e - b
    BY <1>1, SMT
<1>3. t # << >> <=> b < e
    BY <1>1, SMT
<1> HIDE DEF t
<1>4. ASSUME NEW i \in Nat, NEW j \in Nat, i <= j, b + j <= e
      PROVE  SubSeq(t, i + 1, j) = SubSeq(s, b + i + 1, b + j)
    <2> DEFINE u == SubSeq(t, i + 1, j)
               v == SubSeq(s, b + i + 1, b + j)
    <2>1. u \in Seq(Byte) /\ Len(u) = j - i /\ \A k \in 1 .. j - i : u[k] = t[i + k]
        BY <1>1, <1>4, SMT
    <2>2. v \in Seq(Byte) /\ Len(v) = j - i /\ \A k \in 1 .. j - i : v[k] = s[b + i + k]
        <3>1. b + i \in Nat /\ b + j \in Nat /\ b + i <= b + j /\ b + j <= Len(s) /\ (b + j) - (b + i) = j - i
            BY <1>4, SMT
        <3>2. \A p, q \in Nat : p <= q /\ q <= Len(s) =>
                 /\ SubSeq(s, p + 1, q) \in Seq(Byte) /\ Len(SubSeq(s, p + 1, q)) = q - p
                 /\ \A k \in 1 .. q - p : SubSeq(s, p + 1, q)[k] = s[p + k]
            BY SMT
        <3> QED
            BY <3>1, <3>2
    <2>3. \A k \in 1 .. j - i : i + k \in 1 .. e - b /\ b + (i + k) = b + i + k
        BY <1>4, SMT
    <2>4. \A k \in 1 .. j - i : u[k] = v[k]
        BY <1>1, <2>1, <2>2, <2>3
    <2> HIDE DEF u, v
    <2>5. u = v
        BY <2>1, <2>2, <2>4, SMT
    <2> QED
        BY <2>5 DEF u, v
<1> QED
    BY <1>1, <1>2, <1>3, <1>4 DEF t

\* What a text goes on with behind its first k bytes.
LEMMA RestOfText ==
    ASSUME NEW t \in Seq(Byte), NEW k \in Nat, k \in 1 .. Len(t)
    PROVE  LET u == SubSeq(t, k + 1, Len(t))
           IN  /\ k < Len(t) => u[1] = t[k + 1] /\ 1 \in DOMAIN u
               /\ ~(k < Len(t)) => u = << >>
<1> DEFINE n == Len(t)
           u == SubSeq(t, k + 1, n)
<1>1. n \in Nat /\ k <= n
    BY LenProperties, SMT
<1>2. u \in Seq(Byte) /\ Len(u) = n - k /\ DOMAIN u = 1 .. n - k
    BY <1>1, PartOfText
<1>3. \A i \in 1 .. n - k : u[i] = t[k + i]
    BY <1>1, PartOfText
<1> HIDE DEF u, n
<1>4. k < n => 1 \in 1 .. n - k
    BY <1>1, SMT
<1>5. ~(k < n) => Len(u) = 0
    BY <1>1, <1>2, SMT
<1>6. Len(u) = 0 => u = << >>
    BY <1>2, EmptySeq
<1> QED
    BY <1>2, <1>3, <1>4, <1>5, <1>6 DEF u, n

\* A single byte of a text is a text.
LEMMA OneByte ==
    ASSUME NEW s \in Seq(Byte), NEW b \in Nat, b < Len(s)
    PROVE  SubSeq(s, b + 1, b + 1) = <<s[b + 1]>>
<1> DEFINE t == SubSeq(s, b + 1, b + 1)
<1>1. b + 1 \in Nat /\ b <= b + 1 /\ b + 1 <= Len(s) /\ (b + 1) - b = 1 /\ 1 \in 1 .. 1
    BY SMT
<1>2. t \in Seq(Byte) /\ Len(t) = (b + 1) - b /\ \A k \in 1 .. (b + 1) - b : t[k] = s[b + k]
    BY <1>1, PartOfText
<1> HIDE DEF t
<1>3. t \in Seq(Byte) /\ Len(t) = 1 /\ t[1] = s[b + 1]
    BY <1>1, <1>2
<1>4. t = <<t[1]>>
    BY <1>3, SMT
<1> QED
    BY <1>3, <1>4 DEF t

\* The bytes of a part.
LEMMA AllOfPart ==
    ASSUME NEW s \in Seq(Byte), NEW b \in Nat, NEW e \in Nat, NEW M, AllIn(s, b, e, M), e <= Len(s)
    PROVE  \A k \in DOMAIN SubSeq(s, b + 1, e) : SubSeq(s, b + 1, e)[k] \in M
<1>1. b <= e
    BY DEF AllIn
<1>2. \A k \in 1 .. e - b : b + k \in b + 1 .. e
    BY SMT
<1> QED
    BY <1>1, <1>2, PartOfText DEF AllIn

\* A stretch of digits, as a text.
LEMMA IntegerText ==
    ASSUME NEW s \in Seq(Byte), NEW b \in Nat, NEW e \in Nat, AllIn(s, b, e, Digits), e <= Len(s)
    PROVE  /\ AllDigits(SubSeq(s, b + 1, e))
           /\ b < e => IsInteger(SubSeq(s, b + 1, e))
<1>1. AllDigits(SubSeq(s, b + 1, e))
    BY AllOfPart DEF AllDigits, isDigit, Digits
<1>2. b <= e
    BY DEF AllIn
<1> QED
    BY <1>1, <1>2, PartOfText DEF IsInteger

\* A stretch with a point in it, as a text.
LEMMA PointedText ==
    ASSUME NEW s \in Seq(Byte), NEW b \in Nat, NEW e \in Nat, Pointed(s, b, e), b <= e, e <= Len(s)
    PROVE  ~AllDigits(SubSeq(s, b + 1, e))
<1>1. PICK k \in b + 1 .. e : s[k] = Dot
    BY DEF Pointed
<1>2. k - b \in 1 .. e - b /\ b + (k - b) = k
    BY SMT
<1>3. SubSeq(s, b + 1, e)[k - b] = Dot /\ k - b \in DOMAIN SubSeq(s, b + 1, e)
    BY <1>1, <1>2, PartOfText
<1>4. ~isDigit(Dot)
    BY SMT DEF isDigit, Dot
<1> QED
    BY <1>3, <1>4 DEF AllDigits

\* A stretch of identifier characters, as a text.
LEMMA WordText ==
    ASSUME NEW s \in Seq(Byte), NEW b \in Nat, NEW e \in Nat, AllIn(s, b, e, WordBytes),
           e <= Len(s), b < e
    PROVE  IsWord(SubSeq(s, b + 1, e))
<1> DEFINE t == SubSeq(s, b + 1, e)
<1>1. t # << >>
    <2>1. b <= e
        BY SMT
    <2> QED
        BY <2>1, PartOfText
<1>2. \A k \in DOMAIN t : t[k] \in WordBytes
    BY AllOfPart
<1> HIDE DEF t
<1>3. \A k \in DOMAIN t : isIdentChar(t[k])
    BY <1>2 DEF WordBytes
<1>4. IsWord(t)
    BY <1>1, <1>3 DEF IsWord
<1> QED
    BY <1>4 DEF t

\* A stretch that is a literal of a radix, as a text.
LEMMA RadixText ==
    ASSUME NEW s \in Seq(Byte), NEW b \in Nat, NEW e \in Nat, NEW tok, RadixIn(s, b, e, tok),
           b + 2 < e, e <= Len(s)
    PROVE  IsRadix(SubSeq(s, b + 1, e), RadixLetters(tok), RadixDigits(tok))
<1> DEFINE t == SubSeq(s, b + 1, e)
<1>1. Len(t) = e - b /\ \A k \in 1 .. e - b : t[k] = s[b + k]
    BY PartOfText, SMT
<1> HIDE DEF t
<1>2. 1 \in 1 .. e - b /\ 2 \in 1 .. e - b /\ Len(t) > 2
    BY <1>1, SMT
<1>3. \A k \in 3 .. Len(t) : k \in 1 .. e - b /\ b + k \in b + 2 + 1 .. e
    BY <1>1, SMT
<1> QED
    BY <1>1, <1>2, <1>3 DEF IsRadix, RadixIn, AllIn, t

\* A decimal number has a character.
LEMMA DecimalBounds ==
    ASSUME NEW s, NEW b \in Nat, NEW e \in Nat, DecimalIn(s, b, e)
    PROVE  b < e
BY SMT DEF DecimalIn, AllIn

\* A stretch that is a decimal number, as a text.
LEMMA DecimalText ==
    ASSUME NEW s \in Seq(Byte), NEW b \in Nat, NEW e \in Nat, DecimalIn(s, b, e), e <= Len(s)
    PROVE  IsDecimal(SubSeq(s, b + 1, e))
<1> DEFINE t == SubSeq(s, b + 1, e)
<1>0. b < e
    BY DecimalBounds
<1>1. /\ Len(t) = e - b /\ \A k \in 1 .. e - b : t[k] = s[b + k]
      /\ \A i \in Nat, j \in Nat : i <= j /\ b + j <= e =>
             SubSeq(t, i + 1, j) = SubSeq(s, b + i + 1, b + j)
    <2>1. b <= e
        BY <1>0, SMT
    <2> QED
        BY <2>1, PartOfText
<1>2. PICK d \in b + 1 .. e : /\ AllIn(s, b, d, Digits)
                       /\ \/ d = e
                          \/ s[d + 1] = Dot /\ AllIn(s, d + 1, e, Digits)
    BY DEF DecimalIn
<1> HIDE DEF t
<1> DEFINE k == d - b
<1>3. d <= e /\ k \in 1 .. Len(t) /\ k \in Nat /\ b + k = d
    BY <1>0, <1>1, <1>2, SMT DEF AllIn
<1>4. IsInteger(SubSeq(t, 1, k))
    <2>1. SubSeq(t, 0 + 1, k) = SubSeq(s, b + 0 + 1, b + k)
        BY <1>1, <1>3, SMT
    <2>2. SubSeq(t, 1, k) = SubSeq(s, b + 1, d)
        BY <1>3, <2>1, SMT
    <2>3. d \in Nat /\ b < d /\ d <= Len(s)
        BY <1>3, SMT
    <2> QED
        BY <1>2, <2>2, <2>3, IntegerText
<1>5. \/ k = Len(t)
      \/ t[k + 1] = Dot /\ AllDigits(SubSeq(t, k + 2, Len(t)))
    <2>1. CASE d = e
        BY <1>1, <2>1
    <2>2. CASE s[d + 1] = Dot /\ AllIn(s, d + 1, e, Digits)
        <3>1. d + 1 <= e
            BY <2>2 DEF AllIn
        <3>2. k + 1 \in 1 .. e - b /\ b + (k + 1) = d + 1
            BY <1>3, <3>1, SMT
        <3>3. SubSeq(t, (k + 1) + 1, Len(t)) = SubSeq(s, b + (k + 1) + 1, b + Len(t))
            <4>1. k + 1 \in Nat /\ Len(t) \in Nat /\ k + 1 <= Len(t) /\ b + Len(t) <= e
                BY <1>0, <1>1, <1>3, <3>1, SMT
            <4> HIDE DEF k
            <4> QED
                BY <1>1, <4>1
        <3>4. (k + 1) + 1 = k + 2 /\ b + (k + 1) + 1 = (d + 1) + 1 /\ b + Len(t) = e
            BY <1>1, <1>3, SMT
        <3>5. AllDigits(SubSeq(s, (d + 1) + 1, e))
            <4>1. d + 1 \in Nat
                OBVIOUS
            <4> QED
                BY <2>2, <4>1, IntegerText
        <3>6. t[k + 1] = Dot
            BY <1>1, <2>2, <3>2
        <3> QED
            BY <3>3, <3>4, <3>5, <3>6
    <2> QED
        BY <1>2, <2>1, <2>2
<1> HIDE DEF k
<1>6. IsDecimal(t)
    BY <1>3, <1>4, <1>5 DEF IsDecimal
<1> QED
    BY <1>6 DEF t

\* A stretch that is a float, as a text.
LEMMA FloatText ==
    ASSUME NEW s \in Seq(Byte), NEW b \in Nat, NEW x \in Nat, NEW e \in Nat,
           PowerIn(s, b, x), AllIn(s, x, e, Digits), x < e, e <= Len(s)
    PROVE  IsFloat(SubSeq(s, b + 1, e))
<1> DEFINE t == SubSeq(s, b + 1, e)
<1>2. PICK m \in b + 1 .. x : /\ DecimalIn(s, b, m) /\ s[m + 1] \in {101, 69}
                       /\ \/ x = m + 1
                          \/ x = m + 2 /\ s[m + 2] \in {Plus, Minus}
    BY Zenon DEF PowerIn
<1>0. b < m /\ m < x /\ b <= e /\ m <= e
    BY <1>2, DecimalBounds, SMT
<1>1. /\ Len(t) = e - b /\ \A k \in 1 .. e - b : t[k] = s[b + k]
      /\ \A i \in Nat, j \in Nat : i <= j /\ b + j <= e =>
             SubSeq(t, i + 1, j) = SubSeq(s, b + i + 1, b + j)
    BY <1>0, PartOfText
<1> HIDE DEF t
<1> DEFINE k == m - b + 1
<1>3. k \in 2 .. Len(t) /\ k - 1 \in Nat /\ b + (k - 1) = m /\ b + k = m + 1 /\ k \in 1 .. e - b
    BY <1>0, <1>1, SMT
<1> HIDE DEF k
<1>4. t[k] \in {101, 69}
    BY <1>1, <1>2, <1>3
<1>5. IsDecimal(SubSeq(t, 1, k - 1))
    <2>1. SubSeq(t, 0 + 1, k - 1) = SubSeq(s, b + 0 + 1, b + (k - 1))
        BY <1>0, <1>1, <1>3, SMT
    <2>2. SubSeq(t, 1, k - 1) = SubSeq(s, b + 1, m)
        BY <1>3, <2>1, SMT
    <2>3. m \in Nat /\ m <= Len(s)
        BY <1>0, SMT
    <2>4. DecimalIn(s, b, m)
        BY <1>2
    <2>5. IsDecimal(SubSeq(s, b + 1, m))
        BY <2>3, <2>4, DecimalText
    <2> QED
        BY <2>2, <2>5
<1>6. IsInteger(SubSeq(s, x + 1, e))
    BY IntegerText
<1>7. \/ IsInteger(SubSeq(t, k + 1, Len(t)))
      \/ /\ k < Len(t)
         /\ t[k + 1] \in {Plus, Minus}
         /\ IsInteger(SubSeq(t, k + 2, Len(t)))
    <2>1. CASE x = m + 1
        <3>1. SubSeq(t, k + 1, Len(t)) = SubSeq(s, b + k + 1, b + Len(t))
            <4>1. k \in Nat /\ Len(t) \in Nat /\ k <= Len(t) /\ b + Len(t) <= e
                BY <1>0, <1>1, <1>3, SMT
            <4> QED
                BY <1>1, <4>1
        <3>2. b + k + 1 = x + 1 /\ b + Len(t) = e
            BY <1>1, <1>3, <2>1, SMT
        <3> QED
            BY <1>6, <3>1, <3>2
    <2>2. CASE x = m + 2 /\ s[m + 2] \in {Plus, Minus}
        <3>1. k + 1 \in 1 .. e - b /\ b + (k + 1) = m + 2 /\ k < Len(t)
            BY <1>0, <1>1, <1>3, <2>2, SMT
        <3>2. SubSeq(t, (k + 1) + 1, Len(t)) = SubSeq(s, b + (k + 1) + 1, b + Len(t))
            <4>1. k + 1 \in Nat /\ Len(t) \in Nat /\ k + 1 <= Len(t) /\ b + Len(t) <= e
                BY <1>0, <1>1, <1>3, <3>1, SMT
            <4> HIDE DEF k
            <4> QED
                BY <1>1, <4>1
        <3>3. (k + 1) + 1 = k + 2 /\ b + (k + 1) + 1 = x + 1 /\ b + Len(t) = e
            BY <1>0, <1>1, <1>3, <2>2, SMT
        <3>4. t[k + 1] \in {Plus, Minus}
            BY <1>1, <2>2, <3>1
        <3> QED
            BY <1>6, <3>1, <3>2, <3>3, <3>4
    <2> QED
        BY <1>2, <2>1, <2>2
<1>8. IsFloat(t)
    BY <1>3, <1>4, <1>5, <1>7 DEF IsFloat
<1> QED
    BY <1>8 DEF t

\* The digits of all radixes are characters of words.
LEMMA ByteClasses ==
    /\ Digits \subseteq 1 .. 127 /\ Digits \subseteq WordBytes
    /\ \A c : isDigit(c) <=> c \in Digits
    /\ \A tok : RadixDigits(tok) \subseteq WordBytes /\ RadixLetters(tok) \subseteq WordBytes
    /\ {48, 49} \subseteq HexDigits /\ Digits \subseteq HexDigits
<1>1. \A c \in 1 .. 127 : c \in Byte
    BY SMT DEF Byte
<1>2. \A c \in Digits : c \in 1 .. 127 /\ isIdentChar(c)
    BY SMT DEF Digits, isIdentChar, isDigit
<1>3. \A c \in HexDigits : c \in 1 .. 127 /\ isIdentChar(c)
    BY SMT DEF HexDigits, isIdentChar, isDigit, isLetter
<1>4. \A c \in {120, 88, 98} : c \in 1 .. 127 /\ isIdentChar(c)
    BY SMT DEF isIdentChar, isDigit, isLetter
<1>5. {48, 49} \subseteq HexDigits /\ Digits \subseteq HexDigits
    BY SMT DEF HexDigits, Digits
<1>6. \A tok : RadixDigits(tok) \subseteq HexDigits /\ RadixLetters(tok) \subseteq {120, 88, 98}
    BY <1>5 DEF RadixDigits, RadixLetters
<1>7. HexDigits \subseteq WordBytes /\ {120, 88, 98} \subseteq WordBytes
    BY <1>1, <1>3, <1>4, Zenon DEF WordBytes
<1>8. \A c : isDigit(c) <=> c \in Digits
    BY DEF isDigit, Digits
<1> QED
    BY <1>1, <1>2, <1>5, <1>6, <1>7, <1>8

\* An ASCII rune that is consumed.
LEMMA ConsumesAscii ==
    ASSUME NEW r, ReaderInv(r), Peek(r) \in 1 .. 127
    PROVE  /\ Advance(Peeked(r)).index = r.index + 1
           /\ Advance(r).index = r.index + 1
           /\ r.slice[r.index + 1] = Peek(r)
           /\ r.index < Len(r.slice)
           /\ Advance(Peeked(r)).pos = Advance(r).pos
<1>1. ReaderInv(Peeked(r)) /\ Peek(Peeked(r)) = Peek(r) /\ Peeked(r).index = r.index
      /\ (Eof(Peeked(r)) <=> Eof(r)) /\ Peeked(r).slice = r.slice /\ Peeked(r).pos = r.pos
    BY PeekAgain, PeekedInv
<1>2. ~Eof(r)
    <2>1. rune_eof \notin 1 .. 127
        BY SMT DEF rune_eof
    <2> QED
        BY <2>1 DEF Peek
<1>3. Advance(Peeked(r)).pos = Advance(r).pos
    <2>1. PosAfterNext(Peeked(r)) = PosAfterNext(r)
        BY <1>1 DEF PosAfterNext
    <2>2. \A q, p : ReaderInv(q) => Forward(q, p).pos = p
        BY SMT DEF Forward, ReaderInv, ReaderOK
    <2> QED
        BY <1>1, <1>2, <2>1, <2>2 DEF Advance
<1> QED
    BY <1>1, <1>2, <1>3, ReadsByte

\* A rune of an identifier that is consumed: its bytes are those of one.
LEMMA ConsumesWord ==
    ASSUME NEW r, ReaderInv(r), isIdentChar(Peek(r)), ~is_errored(Peek(r))
    PROVE  AllIn(r.slice, r.index, Advance(Peeked(r)).index, WordBytes)
<1> DEFINE s == r.slice
           i == r.index
           w == DecodeWidth(s, i)
<1>1. ReaderInv(Peeked(r)) /\ Peeked(r).index = r.index
      /\ (Eof(Peeked(r)) <=> Eof(r)) /\ Peeked(r).slice = r.slice
    BY PeekAgain, PeekedInv
<1>2. ~Eof(r)
    BY DEF Peek, is_errored
<1>3. s \in Seq(Byte) /\ i \in Nat /\ i < Len(s) /\ Peek(r) = RuneAt(s, i)
    BY <1>2, ReaderFields, SMT DEF ReaderInv, Eof, Peek
<1>4. Advance(Peeked(r)).index = i + w
    <2>1. EndsRune(Peeked(r), PosAfterNext(Peeked(r)))
        BY <1>1, <1>2, PosAfterEndsRune
    <2> QED
        BY <1>1, <1>2, <2>1, ForwardInv DEF Advance, EndsRune
<1>5. w \in 1 .. 4 /\ i + w <= Len(s)
    BY <1>3, DecodeWidthBounds
<1>6. \A k \in 1 .. w : s[i + k] \in Byte
    <2>1. \A k \in 1 .. w : i + k \in DOMAIN s
        BY <1>3, <1>5, SMT
    <2>2. \A n \in DOMAIN s : s[n] \in Byte
        BY <1>3
    <2> QED
        BY <2>1, <2>2
<1>7. \A k \in 1 .. w : isIdentChar(s[i + k])
    <2>1. CASE IsMultibyte(s, i)
        <3>1. s[i + 1] \in \hC2 .. \hF4 /\ \A k \in 2 .. w : s[i + k] \in Continuation
            BY <1>3, <2>1, SequenceBytes
        <3>2. \A k \in 1 .. w : k = 1 \/ k \in 2 .. w
            BY <1>5, SMT
        <3>3. \A c : c \in \hC2 .. \hF4 \/ c \in Continuation => isIdentChar(c)
            <4>1. ASSUME NEW c, isIdentExtend(c)
                  PROVE  isIdentChar(c)
                BY <4>1 DEF isIdentChar
            <4>2. ASSUME NEW c \in \hC2 .. \hF4
                  PROVE  isIdentExtend(c)
                BY SMT DEF isIdentExtend
            <4>3. ASSUME NEW c \in Continuation
                  PROVE  isIdentExtend(c)
                BY SMT DEF isIdentExtend, Continuation
            <4> QED
                BY <4>1, <4>2, <4>3, Zenon
        <3> HIDE DEF s, i, w
        <3> QED
            BY <3>1, <3>2, <3>3
    <2>2. CASE ~IsMultibyte(s, i)
        <3>1. w = 1 /\ DecodeValue(s, i) = s[i + 1]
            BY <2>2 DEF DecodeWidth, DecodeValue
        <3>2. RuneAt(s, i) # rune_invalid
            BY <1>3 DEF is_errored
        <3>3. RuneAt(s, i) = s[i + 1]
            <4>1. \/ RuneAt(s, i) = rune_invalid
                  \/ RuneAt(s, i) = DecodeValue(s, i)
                BY DEF RuneAt
            <4> QED
                BY <3>1, <3>2, <4>1
        <3>4. \A k \in 1 .. w : k = 1
            BY <3>1, SMT
        <3> HIDE DEF s, i, w
        <3> QED
            BY <1>3, <3>3, <3>4
    <2> QED
        BY <2>1, <2>2
<1>8. \A n \in i + 1 .. i + w : n - i \in 1 .. w /\ n = i + (n - i)
    BY <1>3, <1>5, SMT
<1>9. i <= i + w
    BY <1>3, <1>5, SMT
<1>10. \A n \in i + 1 .. i + w : s[n] \in Byte /\ isIdentChar(s[n])
    <2> HIDE DEF s, i, w
    <2> QED
        BY <1>6, <1>7, <1>8
<1> HIDE DEF s, i, w
<1>11. AllIn(s, i, i + w, WordBytes)
    BY <1>9, <1>10, Zenon DEF AllIn, WordBytes
<1> QED
    BY <1>4, <1>11 DEF s, i

\* One more digit of a fraction, or of what is before the point.
LEMMA DecimalGrows ==
    ASSUME NEW s, NEW b \in Nat, NEW e \in Nat, DecimalIn(s, b, e), s[e + 1] \in Digits
    PROVE  DecimalIn(s, b, e + 1)
<1>1. PICK d \in b + 1 .. e : /\ AllIn(s, b, d, Digits)
                              /\ \/ d = e
                                 \/ s[d + 1] = Dot /\ AllIn(s, d + 1, e, Digits)
    BY DEF DecimalIn
<1>2. d \in Nat /\ d \in b + 1 .. e + 1 /\ e + 1 \in b + 1 .. e + 1
    BY <1>1, SMT
<1>3. CASE d = e
    <2>1. AllIn(s, b, e + 1, Digits)
        BY <1>1, <1>3, AllInGrows
    <2> QED
        BY <1>2, <2>1 DEF DecimalIn
<1>4. CASE s[d + 1] = Dot /\ AllIn(s, d + 1, e, Digits)
    <2>1. AllIn(s, d + 1, e + 1, Digits)
        BY <1>2, <1>4, AllInGrows
    <2> QED
        BY <1>1, <1>2, <1>4, <2>1 DEF DecimalIn
<1> QED
    BY <1>1, <1>3, <1>4

\* The literals so far are words as well.
LEMMA LiteralIsWord ==
    ASSUME NEW s, NEW b \in Nat, NEW e \in Nat, NEW tok,
           LiteralIn(s, b, e, tok) \/ RadixIn(s, b, e, tok)
    PROVE  AllIn(s, b, e, WordBytes)
<1>1. CASE AllIn(s, b, e, Digits)
    BY <1>1, AllInOf, ByteClasses
<1>2. CASE RadixIn(s, b, e, tok)
    <2>1. s[b + 1] \in WordBytes /\ s[b + 2] \in WordBytes
        <3>1. 48 \in Digits
            BY SMT DEF Digits
        <3> QED
            BY <1>2, <3>1, ByteClasses DEF RadixIn
    <2>2. AllIn(s, b + 2, e, WordBytes)
        BY <1>2, AllInOf, ByteClasses DEF RadixIn
    <2>3. AllIn(s, b, b, WordBytes)
        BY AllInEmpty
    <2>4. AllIn(s, b, b + 1, WordBytes)
        BY <2>1, <2>3, AllInGrows
    <2>5. b + 1 \in Nat /\ (b + 1) + 1 = b + 2 /\ b + 2 \in Nat
        BY SMT
    <2>6. AllIn(s, b, b + 2, WordBytes)
        <3>1. s[(b + 1) + 1] \in WordBytes
            BY <2>1, <2>5
        <3>2. AllIn(s, b, (b + 1) + 1, WordBytes)
            BY <2>4, <2>5, <3>1, AllInGrows
        <3> QED
            BY <2>5, <3>2
    <2> QED
        BY <2>2, <2>5, <2>6, AllInJoins
<1> QED
    BY <1>1, <1>2 DEF LiteralIn

\* A rune and the byte it begins with: the same for a character of ASCII.
LEMMA AsciiSame ==
    ASSUME NEW s \in Seq(Byte), NEW i \in Nat, i < Len(s)
    PROVE  RuneAt(s, i) = s[i + 1] \/ (RuneAt(s, i) \notin 1 .. 127 /\ s[i + 1] \notin 1 .. 127)
BY AsciiRunes

\* The characters that numbers and words share.
NumberBytes == HexDigits \cup {120, 88, 98}

\* What the characters of numbers are.
LEMMA NumberByteClasses ==
    /\ \A c \in NumberBytes : c \in 1 .. 127 /\ isIdentChar(c)
    /\ \A c \in Digits \cup {101, 69} : c \in NumberBytes
    /\ \A tok : \A c \in RadixDigits(tok) : c \in NumberBytes
    /\ \A tok : \A c \in RadixLetters(tok) : c \in {120, 88, 98}
    /\ Digits \subseteq NumberBytes
<1>1. \A c \in NumberBytes : c \in 1 .. 127 /\ isIdentChar(c)
    BY SMT DEF NumberBytes, HexDigits, isIdentChar, isDigit, isLetter
<1>2. {101, 69} \subseteq NumberBytes /\ HexDigits \subseteq NumberBytes
    BY SMT DEF NumberBytes, HexDigits
<1>3. Digits \subseteq NumberBytes
    BY <1>2, ByteClasses
<1>4. \A tok : RadixDigits(tok) \subseteq NumberBytes /\ RadixLetters(tok) \subseteq {120, 88, 98}
    <2>1. {48, 49} \subseteq HexDigits
        BY ByteClasses
    <2> QED
        BY <1>2, <2>1 DEF RadixDigits, RadixLetters
<1> QED
    BY <1>1, <1>2, <1>3, <1>4

\* The characters that keep the kinds of number apart.
LEMMA MarksApart ==
    /\ \A c \in {120, 88, 98} : c \notin Digits /\ c # Dot /\ c # 101 /\ c # 69 /\ c \in 1 .. 127
    /\ \A c \in {Dot, 101, 69} : c \notin Digits /\ c \in 1 .. 127
    /\ Dot # 101 /\ Dot # 69
    /\ \A c \in Digits : c \in 1 .. 127
    /\ \A c \in {Dot, Plus, Minus} : c \notin WordBytes
<1>1. \A c \in {120, 88, 98} : c \notin Digits /\ c # Dot /\ c # 101 /\ c # 69 /\ c \in 1 .. 127
    BY SMT DEF Digits, Dot
<1>2. (\A c \in {Dot, 101, 69} : c \notin Digits /\ c \in 1 .. 127) /\ Dot # 101 /\ Dot # 69
    BY SMT DEF Digits, Dot
<1>3. ~isIdentChar(46) /\ ~isIdentChar(43) /\ ~isIdentChar(45)
    BY SMT DEF isIdentChar, isDigit, isLetter, isIdentExtend
<1>4. \A c \in {Dot, Plus, Minus} : c \notin WordBytes
    BY <1>3 DEF WordBytes, Dot, Plus, Minus
<1> QED
    BY <1>1, <1>2, <1>4, ByteClasses

\* A word that has been read to its end takes in what of a number is before it,
\* and the identifier character behind that.
LEMMA WordReaches ==
    ASSUME NEW s \in Seq(Byte), NEW b \in Nat, NEW e \in Nat, NEW m \in Nat,
           b <= e, e <= Len(s), m <= Len(s), AllIn(s, b, m, NumberBytes),
           e < Len(s) => ~isIdentChar(RuneAt(s, e))
    PROVE  /\ m <= e
           /\ m < Len(s) /\ isIdentChar(RuneAt(s, m)) => m < e
<1>1. ASSUME e < m
      PROVE  FALSE
    <2>1. Len(s) \in Nat /\ e < Len(s) /\ e + 1 \in b + 1 .. m
        BY <1>1, SMT
    <2>2. s[e + 1] \in NumberBytes
        BY <2>1 DEF AllIn
    <2>3. RuneAt(s, e) \in NumberBytes
        BY <2>1, <2>2, AsciiSame, NumberByteClasses
    <2> QED
        BY <2>1, <2>3, NumberByteClasses
<1>2. m <= e
    BY <1>1, SMT
<1>3. m < Len(s) /\ isIdentChar(RuneAt(s, m)) => m # e
    OBVIOUS
<1> QED
    BY <1>2, <1>3, SMT

\* The bytes of a decimal number that is the front of a text.
LEMMA DecimalBytes ==
    ASSUME NEW t \in Seq(Byte), NEW n \in 1 .. Len(t), IsDecimal(SubSeq(t, 1, n))
    PROVE  \E j \in 1 .. n : /\ \A i \in 1 .. j : t[i] \in Digits
                             /\ j = n \/ (j < n /\ t[j + 1] = Dot)
<1> DEFINE u == SubSeq(t, 1, n)
<1>0. n \in Nat /\ n <= Len(t)
    BY SMT
<1>1. u \in Seq(Byte) /\ Len(u) = n /\ \A i \in 1 .. n : u[i] = t[i]
    BY <1>0, SMT
<1> HIDE DEF u
<1>2. PICK j \in 1 .. Len(u) : /\ IsInteger(SubSeq(u, 1, j))
                               /\ \/ j = Len(u)
                                  \/ u[j + 1] = Dot /\ AllDigits(SubSeq(u, j + 2, Len(u)))
    BY DEF IsDecimal, u
<1>3. j \in Nat /\ j <= n /\ j \in 1 .. n
    BY <1>0, <1>1, <1>2, SMT
<1>4. DOMAIN SubSeq(u, 1, j) = 1 .. j /\ \A i \in 1 .. j : SubSeq(u, 1, j)[i] = u[i]
    BY <1>1, <1>3, SMT
<1>5. \A i \in 1 .. j : SubSeq(u, 1, j)[i] \in Digits
    BY <1>2, <1>4, ByteClasses DEF IsInteger, AllDigits
<1>6. \A i \in 1 .. j : i \in 1 .. n
    BY <1>3, SMT
<1>7. \A i \in 1 .. j : t[i] \in Digits
    BY <1>1, <1>4, <1>5, <1>6
<1>8. j = n \/ (j < n /\ t[j + 1] = Dot)
    <2>1. ASSUME j # n
          PROVE  j < n /\ j + 1 \in 1 .. n
        BY <1>0, <1>3, <2>1, SMT
    <2> QED
        BY <1>1, <1>2, <2>1
<1> QED
    BY <1>3, <1>7, <1>8

\* A character that no number holds, behind nothing but digits.
LEMMA BreaksNumber ==
    ASSUME NEW t \in Seq(Byte), NEW p \in 1 .. Len(t), t[p] \notin Digits \cup {Dot, 101, 69},
           \A i \in 1 .. p - 1 : t[i] \in Digits
    PROVE  ~IsInteger(t) /\ ~IsFloat(t)
<1>1. ~IsInteger(t)
    <2>1. p \in DOMAIN t
        BY SMT
    <2> QED
        BY <2>1, ByteClasses DEF IsInteger, AllDigits
<1>2. ASSUME NEW k \in 2 .. Len(t), t[k] \in {101, 69}, IsDecimal(SubSeq(t, 1, k - 1))
      PROVE  FALSE
    <2>1. k - 1 \in 1 .. Len(t) /\ k \in Nat /\ p \in Nat
        BY SMT
    <2>2. PICK j \in 1 .. k - 1 : /\ \A i \in 1 .. j : t[i] \in Digits
                                  /\ j = k - 1 \/ (j < k - 1 /\ t[j + 1] = Dot)
        BY <1>2, <2>1, DecimalBytes
    <2>3. k \notin 1 .. p - 1 /\ k # p
        BY <1>2, MarksApart
    <2>4. p \notin 1 .. j
        BY <2>2
    <2>5. (j + 1 \notin 1 .. p - 1 /\ j + 1 # p) \/ j = k - 1
        BY <2>2, MarksApart
    <2> QED
        BY <2>1, <2>2, <2>3, <2>4, <2>5, SMT
<1> QED
    BY <1>1, <1>2 DEF IsFloat

\* A word whose beginning is 0x or 0b and goes wrong after it.
LEMMA SpoiltRadixWord ==
    ASSUME NEW s \in Seq(Byte), NEW b \in Nat, NEW e \in Nat, b < e, e <= Len(s), SpoiltRadix(s, b),
           e < Len(s) => ~isIdentChar(RuneAt(s, e))
    PROVE  LET t == SubSeq(s, b + 1, e)
           IN  /\ \A tok \in {tok_hexLit, tok_bitLit} : ~IsRadix(t, RadixLetters(tok), RadixDigits(tok))
               /\ ~IsFloat(t) /\ ~IsInteger(t)
<1> DEFINE t == SubSeq(s, b + 1, e)
<1>1. t \in Seq(Byte) /\ Len(t) = e - b /\ \A k \in 1 .. e - b : t[k] = s[b + k]
    BY PartOfText, SMT
<1> HIDE DEF t
<1>2. PICK tok \in {tok_hexLit, tok_bitLit}, m \in b + 2 .. Len(s) :
            /\ RadixIn(s, b, m, tok)
            /\ m < Len(s) => RuneAt(s, m) \notin RadixDigits(tok)
            /\ m = b + 2 \/ (m < Len(s) /\ isIdentChar(RuneAt(s, m)))
    BY DEF SpoiltRadix
<1>3. m \in Nat /\ m <= Len(s) /\ b + 2 <= m /\ Len(s) \in Nat
    BY SMT
<1>4. AllIn(s, b, m, NumberBytes)
    <2>1. s[b + 1] \in NumberBytes /\ s[b + 2] \in NumberBytes
        <3>1. 48 \in NumberBytes
            BY SMT DEF NumberBytes, HexDigits
        <3> QED
            BY <1>2, <3>1, NumberByteClasses DEF RadixIn, NumberBytes
    <2>2. \A k \in b + 1 .. m : k = b + 1 \/ k = b + 2 \/ k \in b + 2 + 1 .. m
        BY <1>3, SMT
    <2>3. \A k \in b + 2 + 1 .. m : s[k] \in NumberBytes
        BY <1>2, NumberByteClasses DEF RadixIn, AllIn
    <2>4. b <= m
        BY <1>3, SMT
    <2> QED
        BY <2>1, <2>2, <2>3, <2>4 DEF AllIn
<1>5. m <= e /\ (m < Len(s) /\ isIdentChar(RuneAt(s, m)) => m < e)
    BY <1>3, <1>4, WordReaches
<1>6. 2 \in 1 .. e - b /\ 1 \in 1 .. e - b
    BY <1>3, <1>5, SMT
<1>7. t[2] = s[b + 2] /\ t[1] = s[b + 1] /\ 2 \in 1 .. Len(t)
    BY <1>1, <1>6
<1>8. ~IsInteger(t) /\ ~IsFloat(t)
    <2>1. t[2] \notin Digits \cup {Dot, 101, 69}
        BY <1>2, <1>7, NumberByteClasses, MarksApart DEF RadixIn
    <2>2. \A i \in 1 .. 2 - 1 : t[i] \in Digits
        <3>1. 48 \in Digits /\ \A i \in 1 .. 2 - 1 : i = 1
            BY SMT DEF Digits
        <3> QED
            BY <1>2, <1>7, <3>1 DEF RadixIn
    <2> QED
        BY <1>1, <1>7, <2>1, <2>2, BreaksNumber
<1>9. ASSUME NEW kind \in {tok_hexLit, tok_bitLit}, IsRadix(t, RadixLetters(kind), RadixDigits(kind))
      PROVE  FALSE
    <2>1. Len(t) > 2 /\ t[2] \in RadixLetters(kind) /\ \A k \in 3 .. Len(t) : t[k] \in RadixDigits(kind)
        BY <1>9 DEF IsRadix
    <2>2. kind = tok
        <3>1. tok_hexLit # tok_bitLit
            BY SMT DEF tok_hexLit, tok_bitLit
        <3>2. RadixLetters(tok_hexLit) \cap RadixLetters(tok_bitLit) = {}
            BY <3>1, SMT DEF RadixLetters
        <3>3. s[b + 2] \in RadixLetters(tok)
            BY <1>2 DEF RadixIn
        <3> QED
            BY <1>2, <1>7, <1>9, <2>1, <3>2, <3>3
    <2>3. m < e
        BY <1>1, <1>2, <1>3, <1>5, <2>1, SMT
    <2>4. m + 1 - b \in 3 .. Len(t) /\ m + 1 - b \in 1 .. e - b /\ b + (m + 1 - b) = m + 1 /\ m < Len(s)
        BY <1>1, <1>3, <2>3, SMT
    <2>5. s[m + 1] \in RadixDigits(tok)
        BY <1>1, <2>1, <2>2, <2>4
    <2>6. RuneAt(s, m) \in RadixDigits(tok)
        <3>1. s[m + 1] \in 1 .. 127
            <4>1. s[m + 1] \in NumberBytes
                <5>1. \A c \in RadixDigits(tok) : c \in NumberBytes
                    BY NumberByteClasses
                <5> QED
                    BY <2>5, <5>1
            <4> QED
                BY <4>1, NumberByteClasses
        <3> QED
            BY <1>3, <2>4, <2>5, <3>1, AsciiSame
    <2> QED
        BY <1>2, <2>4, <2>6
<1> QED
    BY <1>8, <1>9 DEF t

\* A word whose beginning is an integer and goes wrong after it.
LEMMA SpoiltIntegerWord ==
    ASSUME NEW s \in Seq(Byte), NEW b \in Nat, NEW e \in Nat, b < e, e <= Len(s), SpoiltInteger(s, b),
           e < Len(s) => ~isIdentChar(RuneAt(s, e))
    PROVE  LET t == SubSeq(s, b + 1, e)
           IN  /\ \A tok \in {tok_hexLit, tok_bitLit} : ~IsRadix(t, RadixLetters(tok), RadixDigits(tok))
               /\ ~IsFloat(t) /\ ~IsInteger(t)
<1> DEFINE t == SubSeq(s, b + 1, e)
<1>1. t \in Seq(Byte) /\ Len(t) = e - b /\ \A k \in 1 .. e - b : t[k] = s[b + k]
    BY PartOfText, SMT
<1> HIDE DEF t
<1>2. PICK m \in b + 1 .. Len(s) - 1 :
            /\ AllIn(s, b, m, Digits)
            /\ isIdentChar(RuneAt(s, m)) /\ RuneAt(s, m) \notin Digits \cup {Dot, 101, 69}
            /\ s[b + 1] = 48 /\ m = b + 1 => RuneAt(s, m) \notin {120, 88, 98}
    BY DEF SpoiltInteger
<1>3. m \in Nat /\ m < Len(s) /\ m <= Len(s) /\ b + 1 <= m
    BY SMT
<1>4. m < e
    <2>1. AllIn(s, b, m, NumberBytes)
        BY <1>2, AllInOf, NumberByteClasses
    <2>2. b <= e
        BY SMT
    <2> QED
        BY <1>2, <1>3, <2>1, <2>2, WordReaches
<1>5. s[m + 1] \notin Digits \cup {Dot, 101, 69}
    <2>1. ASSUME s[m + 1] \in Digits \cup {Dot, 101, 69}
          PROVE  FALSE
        <3>1. s[m + 1] \in Digits \/ s[m + 1] \in {Dot, 101, 69}
            BY <2>1
        <3>2. s[m + 1] \in 1 .. 127
            <4>1. \A c \in Digits : c \in 1 .. 127
                BY MarksApart
            <4>2. \A c \in {Dot, 101, 69} : c \in 1 .. 127
                BY MarksApart
            <4> QED
                BY <3>1, <4>1, <4>2
        <3>3. RuneAt(s, m) = s[m + 1]
            BY <1>3, <3>2, AsciiSame
        <3> QED
            BY <1>2, <2>1, <3>3
    <2> QED
        BY <2>1
<1>6. s[b + 1] = 48 => s[b + 2] \notin {120, 88, 98}
    <2>1. CASE m = b + 1
        <3>1. m + 1 = b + 2
            BY <2>1, SMT
        <3> QED
            BY <1>2, <1>3, <2>1, <3>1, AsciiSame, MarksApart
    <2>2. CASE m # b + 1
        <3>1. b + 2 \in b + 1 .. m
            BY <1>3, <2>2, SMT
        <3>2. s[b + 2] \in Digits
            BY <1>2, <3>1 DEF AllIn
        <3> QED
            BY <3>2, MarksApart
    <2> QED
        BY <2>1, <2>2
<1>7. ASSUME NEW tok, IsRadix(t, RadixLetters(tok), RadixDigits(tok))
      PROVE  FALSE
    <2>1. 1 \in 1 .. e - b /\ 2 \in 1 .. e - b
        BY <1>1, <1>7, SMT DEF IsRadix
    <2>2. s[b + 1] = 48 /\ s[b + 2] \in RadixLetters(tok)
        BY <1>1, <1>7, <2>1 DEF IsRadix
    <2> QED
        BY <1>6, <2>2, NumberByteClasses
<1>8. ~IsInteger(t) /\ ~IsFloat(t)
    <2>1. m + 1 - b \in 1 .. Len(t) /\ m + 1 - b \in 1 .. e - b /\ b + (m + 1 - b) = m + 1
        BY <1>1, <1>3, <1>4, SMT
    <2>2. t[m + 1 - b] \notin Digits \cup {Dot, 101, 69}
        BY <1>1, <1>5, <2>1
    <2>3. \A i \in 1 .. (m + 1 - b) - 1 : i \in 1 .. e - b /\ b + i \in b + 1 .. m
        BY <1>3, <1>4, SMT
    <2>4. \A i \in 1 .. (m + 1 - b) - 1 : t[i] \in Digits
        <3>1. \A i \in b + 1 .. m : s[i] \in Digits
            BY <1>2 DEF AllIn
        <3> QED
            BY <1>1, <2>3, <3>1, Zenon
    <2> QED
        BY <1>1, <2>1, <2>2, <2>4, BreaksNumber
<1> QED
    BY <1>7, <1>8 DEF t

\* A word before an e of a decimal number that has no exponent.
LEMMA SpoiltFloatWord ==
    ASSUME NEW s \in Seq(Byte), NEW b \in Nat, NEW e \in Nat, b < e, e <= Len(s), SpoiltFloat(s, b),
           AllIn(s, b, e, WordBytes),
           e < Len(s) => ~isIdentChar(RuneAt(s, e))
    PROVE  LET t == SubSeq(s, b + 1, e)
           IN  /\ \A tok \in {tok_hexLit, tok_bitLit} : ~IsRadix(t, RadixLetters(tok), RadixDigits(tok))
               /\ ~IsFloat(t)
               /\ IsInteger(t) => e < Len(s) /\ RuneAt(s, e) = Dot /\ LacksExponent(s, b)
<1> DEFINE t == SubSeq(s, b + 1, e)
<1>1. t \in Seq(Byte) /\ Len(t) = e - b /\ DOMAIN t = 1 .. e - b /\ \A k \in 1 .. e - b : t[k] = s[b + k]
    BY PartOfText, SMT
<1> HIDE DEF t
<1>2. PICK m \in b + 1 .. Len(s) - 1 :
            DecimalIn(s, b, m) /\ s[m + 1] \in {101, 69} /\ ~HasExponent(s, m + 1)
    BY DEF SpoiltFloat
<1>3. m \in Nat /\ m < Len(s) /\ m <= Len(s) /\ b + 1 <= m
    BY SMT
<1>4. PICK d \in b + 1 .. m : AllIn(s, b, d, Digits) /\ (d = m \/ s[d + 1] = Dot)
    BY <1>2 DEF DecimalIn
<1>5. d \in Nat /\ b + 1 <= d /\ d <= m /\ d < Len(s) /\ d <= Len(s)
    BY <1>3, SMT
<1>6. s[d + 1] \in {Dot, 101, 69} /\ s[d + 1] \notin Digits
    BY <1>2, <1>4, MarksApart
<1>7. d <= e
    <2>1. AllIn(s, b, d, NumberBytes)
        BY <1>4, AllInOf, NumberByteClasses
    <2>2. b <= e
        BY SMT
    <2> QED
        BY <1>5, <2>1, <2>2, WordReaches
<1>8. ASSUME NEW tok, IsRadix(t, RadixLetters(tok), RadixDigits(tok))
      PROVE  FALSE
    <2>1. 2 \in 1 .. e - b
        BY <1>1, <1>8, SMT DEF IsRadix
    <2>2. s[b + 2] \in {120, 88, 98}
        BY <1>1, <1>8, <2>1, NumberByteClasses DEF IsRadix
    <2>3. CASE d = b + 1
        <3>1. d + 1 = b + 2
            BY <2>3, SMT
        <3> QED
            BY <1>6, <2>2, <3>1, MarksApart
    <2>4. CASE d # b + 1
        <3>1. b + 2 \in b + 1 .. d
            BY <1>5, <2>4, SMT
        <3> QED
            BY <1>4, <2>2, <3>1, MarksApart DEF AllIn
    <2> QED
        BY <2>3, <2>4
<1>9. \A k \in 1 .. e - b : t[k] \in WordBytes
    <2>1. \A k \in 1 .. e - b : b + k \in b + 1 .. e
        BY SMT
    <2> QED
        BY <1>1, <2>1 DEF AllIn
<1>10. ASSUME NEW k \in 2 .. Len(t), t[k] \in {101, 69}, IsDecimal(SubSeq(t, 1, k - 1)),
              \/ IsInteger(SubSeq(t, k + 1, Len(t)))
              \/ k < Len(t) /\ t[k + 1] \in {Plus, Minus}
       PROVE  FALSE
    <2>1. k - 1 \in 1 .. Len(t) /\ k \in Nat /\ k \in 1 .. e - b /\ Len(t) \in Nat
        BY <1>1, <1>10, SMT
    <2>2. PICK j \in 1 .. k - 1 : /\ \A i \in 1 .. j : t[i] \in Digits
                                  /\ j = k - 1 \/ (j < k - 1 /\ t[j + 1] = Dot)
        BY <1>1, <1>10, <2>1, DecimalBytes
    <2>3. j = k - 1
        <3>1. ASSUME j < k - 1
              PROVE  j + 1 \in 1 .. e - b
            BY <2>1, <2>2, <3>1, SMT
        <3> QED
            BY <1>9, <2>2, <3>1, MarksApart
    <2>4. b + k = d + 1
        <3>1. b + k \notin b + 1 .. d
            <4>1. s[b + k] \in {101, 69}
                BY <1>1, <1>10, <2>1
            <4> QED
                BY <1>4, <4>1, MarksApart DEF AllIn
        <3>2. ASSUME d + 1 < b + k
              PROVE  FALSE
            <4>1. d + 1 - b \in 1 .. j /\ d + 1 - b \in 1 .. e - b /\ b + (d + 1 - b) = d + 1
                BY <1>1, <1>5, <2>1, <2>3, <3>2, SMT
            <4> QED
                <5>1. t[d + 1 - b] \in Digits
                    BY <2>2, <4>1
                <5>2. t[d + 1 - b] = s[b + (d + 1 - b)]
                    BY <1>1, <4>1
                <5> QED
                    BY <1>6, <4>1, <5>1, <5>2
        <3> QED
            BY <1>5, <2>1, <3>1, <3>2, SMT
    <2>5. d = m
        <3>1. s[d + 1] \in {101, 69}
            <4>1. s[b + k] \in {101, 69}
                BY <1>1, <1>10, <2>1, Zenon
            <4> QED
                BY <2>4, <4>1
        <3> QED
            BY <1>4, <3>1, MarksApart
    <2>6. k < Len(t) => k + 1 \in 1 .. e - b /\ b + (k + 1) = m + 2 /\ m + 1 < Len(s)
        BY <1>1, <2>1, <2>4, <2>5, SMT
    <2>7. CASE k < Len(t) /\ t[k + 1] \in {Plus, Minus}
        BY <1>9, <2>6, <2>7, MarksApart
    <2>8. CASE IsInteger(SubSeq(t, k + 1, Len(t)))
        <3> DEFINE u == SubSeq(t, k + 1, Len(t))
        <3>1. k < Len(t) => u[1] = t[k + 1] /\ 1 \in DOMAIN u
            BY <1>1, <2>1, RestOfText
        <3>2. ~(k < Len(t)) => u = << >>
            BY <1>1, <2>1, RestOfText
        <3>3. u # << >> /\ \A n \in DOMAIN u : isDigit(u[n])
            BY <2>8 DEF IsInteger, AllDigits
        <3> HIDE DEF u
        <3>4. k < Len(t) /\ isDigit(t[k + 1])
            BY <3>1, <3>2, <3>3
        <3>5. m + 1 < Len(s) /\ isDigit(s[m + 2])
            BY <1>1, <2>6, <3>4
        <3>6. m + 1 + 1 = m + 2
            BY <1>3, SMT
        <3> QED
            BY <1>2, <3>5, <3>6 DEF HasExponent
    <2> QED
        BY <1>10, <2>7, <2>8
<1>11. ASSUME IsInteger(t)
       PROVE  e < Len(s) /\ RuneAt(s, e) = Dot
    <2>1. ASSUME d < e
          PROVE  FALSE
        <3>1. d + 1 - b \in 1 .. e - b /\ b + (d + 1 - b) = d + 1
            BY <1>5, <2>1, SMT
        <3>2. s[d + 1] \in Digits
            BY <1>1, <1>11, <3>1, ByteClasses DEF IsInteger, AllDigits
        <3> QED
            BY <1>6, <3>2
    <2>2. e = d
        BY <1>5, <1>7, <2>1, SMT
    <2>3. ~isIdentChar(RuneAt(s, d))
        BY <1>5, <2>2
    <2>4. s[d + 1] \notin {101, 69}
        <3>1. RuneAt(s, d) \notin {101, 69}
            BY <2>3, NumberByteClasses
        <3> QED
            BY <1>5, <3>1, AsciiSame, MarksApart
    <2>5. s[d + 1] = Dot
        BY <1>6, <2>4
    <2>6. RuneAt(s, d) = Dot
        BY <1>5, <2>5, AsciiSame, MarksApart
    <2> QED
        BY <1>5, <2>2, <2>6
<1>12. LacksExponent(s, b)
    BY <1>2, <1>3, DecimalText DEF LacksExponent
<1> QED
    BY <1>8, <1>10, <1>11, <1>12 DEF IsFloat, t

\* What is next, in the text.
LEMMA NextByte ==
    ASSUME NEW r, ReaderInv(r)
    PROVE  /\ r.index < Len(r.slice) => Peek(r) = RuneAt(r.slice, r.index)
           /\ isIdentChar(Peek(r)) => r.index < Len(r.slice)
           /\ Peek(r) \in 1 .. 127 => r.index < Len(r.slice) /\ r.slice[r.index + 1] = Peek(r)
           /\ r.index < Len(r.slice) /\ r.slice[r.index + 1] \in 1 .. 127
                 => Peek(r) = r.slice[r.index + 1]
<1>1. r.slice \in Seq(Byte) /\ Len(r.slice) \in Nat /\ r.index \in Nat /\ r.index <= Len(r.slice)
    BY ReaderFields DEF ReaderInv
<1>2. r.index < Len(r.slice) <=> ~Eof(r)
    BY <1>1, SMT DEF Eof
<1>3. Peek(r) \in 1 .. 127 => ~Eof(r)
    <2>1. rune_eof \notin 1 .. 127
        BY SMT DEF rune_eof
    <2> QED
        BY <2>1 DEF Peek
<1> QED
    BY <1>1, <1>2, <1>3, ReadsByte, ReadableIsThere

\* What a step inside a number finds.
LEMMA NumberFound ==
    ASSUME Known, Stage(fr) \in Counted, isDigit(FirstRune(rd, fr))
    PROVE  /\ rd.slice \in Seq(Byte) /\ Len(rd.slice) \in Nat
           /\ rd.index \in Nat /\ rd.index <= Len(rd.slice)
           /\ fr.pos.offset \in Nat /\ fr.pos.offset <= rd.index
           /\ fr.pos.offset < Len(rd.slice)
           /\ rd.slice[fr.pos.offset + 1] \in Digits
           /\ rd.index = fr.pos.offset => isDigit(Peek(rd))
<1>1. /\ rd.slice \in Seq(Byte) /\ Len(rd.slice) \in Nat
      /\ rd.index \in Nat /\ rd.index <= Len(rd.slice)
      /\ fr.pos.offset \in Nat /\ fr.pos.offset <= rd.index /\ ReaderInv(rd)
    BY Found, ReaderFields DEF Known, ReaderInv
<1>2. fr.pos.offset < Len(rd.slice)
    <2>1. Stage(fr) \notin {"idle", "scan", "scanned", "trie"}
        BY SMT DEF Counted, Numeric
    <2> QED
        BY <2>1 DEF Known, Led
<1>3. rd.slice[fr.pos.offset + 1] \in Digits
    <2>1. FirstRune(rd, fr) \in 1 .. 127 /\ FirstRune(rd, fr) \in Digits
        BY ByteClasses
    <2> QED
        BY <1>1, <1>2, <2>1, AsciiRunes DEF FirstRune
<1>4. ASSUME rd.index = fr.pos.offset
      PROVE  isDigit(Peek(rd))
    <2>1. ~Eof(rd)
        BY <1>1, <1>2, <1>4, SMT DEF Eof
    <2> QED
        BY <1>4, <2>1 DEF Peek, FirstRune
<1> QED
    BY <1>1, <1>2, <1>3, <1>4

\* reader.cc:140-151: a step of incAsLongAs consumes a rune, or is the last.
LEMMA IncStep ==
    ASSUME ScanInv, Ahead(rd, fr), incAsLongAs
    PROVE  /\ fr \in Frame /\ fr.pc = "inc" /\ fr.ret \in Returns /\ Stage(fr) = fr.ret
           /\ rd'.slice = rd.slice /\ fr'.pos = fr.pos /\ Stage(fr') = fr.ret
           /\ fr'.tok = fr.tok /\ fr'.pred = fr.pred /\ fr'.mark = fr.mark
           /\ \/ /\ fr'.pc = "inc" /\ rd' = Advance(Peeked(rd))
                 /\ Holds(fr.pred, Peek(rd)) /\ ~is_errored(Peek(rd))
              \/ /\ fr'.pc = fr.ret /\ rd' = Peeked(rd)
                 /\ ~Holds(fr.pred, Peek(rd)) \/ is_errored(Peek(rd))
<1>1. /\ fr \in Frame /\ fr.pc = "inc" /\ fr.ret \in Returns /\ Stage(fr) = fr.ret
    <2>1. fr.pc = "inc"
        BY DEF incAsLongAs, IncNext, IncErrored, IncStop, At
    <2> QED
        BY <2>1, Found DEF Ahead, Stage
<1>2. \A c : LET f == [fr EXCEPT !.pc = fr.ret, !.ch = c]
             IN  f.pc = fr.ret /\ f.pos = fr.pos /\ f.tok = fr.tok /\ f.pred = fr.pred
                 /\ f.mark = fr.mark
    BY <1>1 DEF Frame
<1>3. "inc" \notin Returns
    BY DEF Returns
<1>4. rd' \in Onward
    BY DEF incAsLongAs, IncNext, IncErrored, IncStop, Step, Onward
<1>5. \/ fr' = fr /\ rd' = Advance(Peeked(rd)) /\ Holds(fr.pred, Peek(rd)) /\ ~is_errored(Peek(rd))
      \/ /\ \E c : fr' = [fr EXCEPT !.pc = fr.ret, !.ch = c]
         /\ rd' = Peeked(rd) /\ (~Holds(fr.pred, Peek(rd)) \/ is_errored(Peek(rd)))
    BY DEF incAsLongAs, IncNext, IncErrored, IncStop, Step
<1> QED
    BY ZenonT(60), <1>1, <1>2, <1>3, <1>4, <1>5, OnwardFacts DEF Stage

\* What incAsLongAs reads for numbers.
LEMMA HoldsNumber ==
    ASSUME NEW c
    PROVE  /\ Holds("digit", c) <=> c \in Digits
           /\ Holds("octal", c) => c \in Digits
           /\ Holds("hex", c) <=> c \in HexDigits
           /\ Holds("bit", c) <=> c \in {48, 49}
           /\ Holds("identChar", c) <=> isIdentChar(c)
           /\ c \in HexDigits => c \in 1 .. 127
<1>1. Holds("octal", c) => c \in 48 .. 55
    BY Zenon DEF Holds
<1>2. c \in 48 .. 55 => c \in Digits
    BY SMT DEF Digits
<1>3. Holds("digit", c) <=> c \in Digits
    BY Zenon DEF Holds, isDigit, Digits
<1>4. Holds("hex", c) <=> c \in HexDigits
    BY Zenon DEF Holds, HexDigits
<1>5. (Holds("bit", c) <=> c \in {48, 49}) /\ (Holds("identChar", c) <=> isIdentChar(c))
    BY Zenon DEF Holds
<1>6. c \in HexDigits => c \in 1 .. 127
    BY HoldsRadix DEF Radix
<1> QED
    BY <1>1, <1>2, <1>3, <1>4, <1>5, <1>6

\* incAsLongAs comes to the end of its run.
LEMMA RunStopsNumber ==
    Known /\ Numbered(rd, fr) /\ incAsLongAs /\ fr'.pc # "inc" => Numbered(rd', fr')
<1> SUFFICES ASSUME Known, Numbered(rd, fr), incAsLongAs, fr'.pc # "inc"
             PROVE  Numbered(rd', fr')
    OBVIOUS
<1>1. /\ fr \in Frame /\ fr.pc = "inc" /\ fr.ret \in Returns /\ Stage(fr) = fr.ret
      /\ rd'.slice = rd.slice /\ fr'.pos = fr.pos /\ Stage(fr') = fr.ret
      /\ fr'.tok = fr.tok /\ fr'.pred = fr.pred /\ fr'.mark = fr.mark
      /\ fr'.pc = fr.ret /\ rd' = Peeked(rd)
      /\ ~Holds(fr.pred, Peek(rd)) \/ is_errored(Peek(rd))
    BY IncStep DEF Known
<1>2. rd'.index = rd.index /\ Peek(rd') = Peek(rd) /\ rd'.pos = rd.pos
    BY <1>1, Found, PeekAgain, PeekedInv DEF Known
<1>3. FirstRune(rd', fr') = FirstRune(rd, fr)
    BY <1>1 DEF FirstRune
<1> SUFFICES ASSUME fr.ret \in Counted, isDigit(FirstRune(rd, fr))
             PROVE  Numbered(rd', fr')
    BY <1>1, <1>3 DEF Numbered
<1>4. fr.pred = PredFor(fr.ret, fr.tok)
    BY <1>1 DEF Numbered
<1>5. fr.ret \in {"numberTail", "fraction", "exponent", "floatEnd"} => ~isDigit(Peek(rd))
    <2> SUFFICES ASSUME fr.ret \in {"numberTail", "fraction", "exponent", "floatEnd"}
                 PROVE  ~isDigit(Peek(rd))
        OBVIOUS
    <2>1. fr.pred = "digit"
        BY <1>4 DEF PredFor
    <2> QED
        BY <1>1, <2>1, Readable
<1>6. fr.ret = "identEnd" => ~isIdentChar(Peek(rd)) \/ is_errored(Peek(rd))
    <2> SUFFICES ASSUME fr.ret = "identEnd"
                 PROVE  ~isIdentChar(Peek(rd)) \/ is_errored(Peek(rd))
        OBVIOUS
    <2>1. fr.pred = "identChar"
        BY <1>4 DEF PredFor
    <2> QED
        BY <1>1, <2>1, Readable
<1>7. fr.ret # "number2" /\ fr.ret # "sign" /\ fr.ret # "power"
    BY <1>1 DEF Returns
<1>8. fr.ret = "radixEnd" => Peek(rd) \notin RadixDigits(fr.tok)
    <2> SUFFICES ASSUME fr.ret = "radixEnd", Peek(rd) \in RadixDigits(fr.tok)
                 PROVE  FALSE
        OBVIOUS
    <2>1. Holds(fr.pred, Peek(rd))
        BY <1>4, HoldsNumber DEF PredFor, RadixDigits
    <2>2. Peek(rd) \in 1 .. 127
        BY NumberByteClasses
    <2>3. ~is_errored(Peek(rd))
        BY <2>2, SMT DEF is_errored, rune_eof, rune_invalid
    <2> QED
        BY <1>1, <2>1, <2>3
<1>9. NoPrefix(rd', fr.pos.offset) <=> NoPrefix(rd, fr.pos.offset)
    BY <1>1, <1>2 DEF NoPrefix
<1> QED
    BY <1>1, <1>2, <1>3, <1>5, <1>6, <1>7, <1>8, <1>9 DEF Numbered

\* incAsLongAs consumes a rune of the number.
LEMMA RunGoesNumber ==
    Known /\ Numbered(rd, fr) /\ incAsLongAs /\ fr'.pc = "inc" => Numbered(rd', fr')
<1> SUFFICES ASSUME Known, Numbered(rd, fr), incAsLongAs, fr'.pc = "inc"
             PROVE  Numbered(rd', fr')
    OBVIOUS
<1> DEFINE s == rd.slice
           b == fr.pos.offset
           e == rd.index
           c == Peek(rd)
<1>1. /\ fr \in Frame /\ fr.pc = "inc" /\ fr.ret \in Returns /\ Stage(fr) = fr.ret
      /\ rd'.slice = s /\ fr'.pos = fr.pos /\ Stage(fr') = fr.ret
      /\ fr'.tok = fr.tok /\ fr'.pred = fr.pred /\ fr'.mark = fr.mark
      /\ rd' = Advance(Peeked(rd)) /\ Holds(fr.pred, c) /\ ~is_errored(c)
    <2>1. "inc" \notin Returns
        BY DEF Returns
    <2> QED
        BY <2>1, IncStep DEF Known
<1>2. FirstRune(rd', fr') = FirstRune(rd, fr)
    BY <1>1 DEF FirstRune
<1> SUFFICES ASSUME fr.ret \in Counted, isDigit(FirstRune(rd, fr))
             PROVE  Numbered(rd', fr')
    BY <1>1, <1>2 DEF Numbered
<1>3. fr.pred = PredFor(fr.ret, fr.tok)
    BY <1>1 DEF Numbered
<1>4. /\ s \in Seq(Byte) /\ b \in Nat /\ e \in Nat /\ b <= e /\ e <= Len(s) /\ ReaderInv(rd)
      /\ s[b + 1] \in Digits
    BY <1>1, Found, NumberFound DEF Known
<1>5. ASSUME c \in 1 .. 127
      PROVE  rd'.index = e + 1 /\ s[e + 1] = c
    BY <1>1, <1>4, <1>5, ConsumesAscii
<1> USE <1>1, <1>2, <1>4
<1>6. CASE fr.ret = "digits"
    <2>1. fr.tok = tok_intLit /\ AllIn(s, b, e, Digits) /\ b < e
        <3>1. tok_intLit # tok_hexLit /\ tok_intLit # tok_bitLit
            BY SMT DEF tok_intLit, tok_hexLit, tok_bitLit
        <3> QED
            BY <1>6, <3>1 DEF Numbered, LiteralIn, RadixIn
    <2>2. c \in Digits
        BY <1>3, <1>6, HoldsNumber DEF PredFor
    <2>3. rd'.index = e + 1 /\ s[e + 1] \in Digits
        BY <1>5, <2>2, ByteClasses
    <2>4. AllIn(s, b, e + 1, Digits) /\ b < e + 1
        BY <2>1, <2>3, AllInGrows
    <2>5. NoPrefix(rd', b)
        BY <2>1, <2>3, SMT DEF NoPrefix
    <2> QED
        BY <1>3, <1>6, <2>1, <2>3, <2>4, <2>5 DEF Numbered, LiteralIn
<1>7. CASE fr.ret = "numberTail"
    <2>1. c \in Digits
        BY <1>3, <1>7, HoldsNumber DEF PredFor
    <2>2. fr.tok = tok_intLit /\ AllIn(s, b, e, Digits) /\ b < e
        <3>1. tok_intLit # tok_hexLit /\ tok_intLit # tok_bitLit
            BY SMT DEF tok_intLit, tok_hexLit, tok_bitLit
        <3>2. isDigit(c)
            BY <2>1, ByteClasses
        <3> QED
            BY <1>7, <3>1, <3>2 DEF Numbered, LiteralIn, RadixIn
    <2>3. rd'.index = e + 1 /\ s[e + 1] \in Digits
        BY <1>5, <2>1, ByteClasses
    <2>4. AllIn(s, b, e + 1, Digits) /\ b < e + 1
        BY <2>2, <2>3, AllInGrows
    <2>5. NoPrefix(rd', b)
        BY <2>2, <2>3, SMT DEF NoPrefix
    <2> QED
        BY <1>3, <1>7, <2>2, <2>3, <2>4, <2>5 DEF Numbered, LiteralIn
<1>8. CASE fr.ret = "radixEnd"
    <2>1. RadixIn(s, b, e, fr.tok)
        BY <1>8 DEF Numbered
    <2>2. c \in RadixDigits(fr.tok)
        BY <1>3, <1>8, HoldsNumber DEF PredFor, RadixDigits
    <2>3. c \in 1 .. 127
        <3>1. c \in HexDigits
            BY <2>2, ByteClasses DEF RadixDigits
        <3> QED
            BY <3>1, HoldsNumber
    <2>4. rd'.index = e + 1 /\ s[e + 1] \in RadixDigits(fr.tok)
        BY <1>5, <2>2, <2>3
    <2>5. RadixIn(s, b, e + 1, fr.tok) /\ e + 1 # b + 2
        <3>1. b + 2 \in Nat /\ b + 2 <= e /\ e + 1 # b + 2
            BY <2>1, SMT DEF RadixIn, AllIn
        <3>2. AllIn(s, b + 2, e + 1, RadixDigits(fr.tok))
            BY <2>1, <2>4, <3>1, AllInGrows DEF RadixIn
        <3> QED
            BY <2>1, <3>1, <3>2 DEF RadixIn
    <2>6. fr.mark.offset = b + 2
        BY <1>8 DEF Numbered
    <2> QED
        BY <1>3, <1>8, <2>4, <2>5, <2>6 DEF Numbered
<1>9. CASE fr.ret = "identEnd"
    <2>1. AllIn(s, b, e, WordBytes) /\ isIdentChar(c) /\ Spoilt(s, b)
        BY <1>3, <1>9, HoldsNumber DEF Numbered, PredFor
    <2>2. AllIn(s, e, rd'.index, WordBytes) /\ rd'.index \in Nat
        BY <2>1, ConsumesWord, OnwardFacts DEF Onward, Known
    <2>3. AllIn(s, b, rd'.index, WordBytes)
        BY <2>1, <2>2, AllInJoins
    <2> QED
        BY <1>3, <1>9, <2>1, <2>3 DEF Numbered
<1>10. CASE fr.ret \in {"fraction", "exponent", "floatEnd"}
    <2>1. c \in Digits
        BY <1>3, <1>10, HoldsNumber DEF PredFor
    <2>2. rd'.index = e + 1 /\ s[e + 1] \in Digits
        BY <1>5, <2>1, ByteClasses
    <2>3. CASE fr.ret = "fraction"
        <3>1. AllIn(s, b, e + 1, Digits) /\ FloatAhead(s, b)
            BY <2>2, <2>3, AllInGrows DEF Numbered
        <3> QED
            BY <1>3, <2>2, <2>3, <3>1 DEF Numbered
    <2>4. CASE fr.ret = "exponent"
        <3>1. DecimalIn(s, b, e) /\ (Pointed(s, b, e) \/ (e = b + 1 /\ RadixAhead(s, b)))
            BY <2>4 DEF Numbered
        <3>2. DecimalIn(s, b, e + 1)
            BY <2>2, <3>1, DecimalGrows
        <3>3. Pointed(s, b, e + 1)
            <4>1. \A k \in b + 1 .. e : k \in b + 1 .. e + 1
                BY SMT
            <4>2. CASE Pointed(s, b, e)
                BY <4>1, <4>2 DEF Pointed
            <4>3. CASE e = b + 1 /\ RadixAhead(s, b)
                <5>1. s[b + 2] \notin Digits /\ b + 2 = e + 1
                    BY <4>3, SMT DEF RadixAhead
                <5> QED
                    BY <2>2, <5>1
            <4> QED
                BY <3>1, <4>2, <4>3
        <3> QED
            BY <1>3, <2>2, <2>4, <3>2, <3>3 DEF Numbered
    <2>5. CASE fr.ret = "floatEnd"
        <3>1. PICK x \in b .. e : PowerIn(s, b, x) /\ AllIn(s, x, e, Digits)
            BY <2>5 DEF Numbered
        <3>2. x \in Nat /\ x \in b .. e + 1 /\ x < e + 1
            BY <3>1, SMT
        <3>3. AllIn(s, x, e + 1, Digits)
            BY <2>2, <3>1, <3>2, AllInGrows
        <3> QED
            BY <1>3, <2>2, <2>5, <3>1, <3>2, <3>3 DEF Numbered
    <2> QED
        BY <1>10, <2>3, <2>4, <2>5
<1> QED
    BY <1>6, <1>7, <1>8, <1>9, <1>10 DEF Returns, Counted, Numeric

\* lexer.cc:270-276
LEMMA BeginsNumber ==
    Known /\ startWithNumber /\ At("number") => Numbered(rd', fr')
<1> SUFFICES ASSUME Known, startWithNumber, At("number")
             PROVE  Numbered(rd', fr')
    OBVIOUS
<1>1. /\ ScanInv /\ Led(rd, fr) /\ fr \in Frame /\ ReaderInv(rd) /\ rd.pos.offset = rd.index
      /\ rd.index \in Nat
    BY Found DEF Known
<1>2. /\ rd' = Advance(rd) /\ fr'.pc = "number2" /\ fr'.pos = rd.pos /\ fr'.tok = tok_intLit
      /\ fr'.ch = Peek(rd) /\ fr.pc = "number" /\ Stage(fr) = "number"
    BY <1>1 DEF startWithNumber, Step, Save, Frame, At, Stage
<1>3. rd.index = fr.pos.offset /\ fr.pos.offset < Len(rd.slice) /\ isDigit(FirstRune(rd, fr))
    <2>1. rd.index = fr.pos.offset /\ fr.pos.offset < Len(rd.slice)
        BY <1>1, <1>2 DEF Led, Entries
    <2>2. Handler(FirstRune(rd, fr)) = "number"
        BY <1>1, <1>2, LedFacts DEF Led
    <2> QED
        BY <2>1, <2>2, NumberHandler
<1>4. Peek(rd) \in 1 .. 127
    <2>1. ~Eof(rd)
        BY <1>1, <1>3, ReaderFields, SMT DEF Eof, ReaderInv
    <2>2. Peek(rd) = FirstRune(rd, fr)
        BY <1>3, <2>1 DEF Peek, FirstRune
    <2> QED
        BY <1>3, <2>2, ByteClasses
<1>5. rd'.index = rd.index + 1 /\ rd.slice[rd.index + 1] = Peek(rd) /\ rd'.slice = rd.slice
    BY <1>1, <1>2, <1>4, ConsumesAscii, OnwardFacts DEF Onward
<1> QED
    BY <1>1, <1>2, <1>3, <1>5 DEF Numbered, Stage

\* lexer.cc:277-316
LEMMA BranchesNumber ==
    Known /\ Numbered(rd, fr) /\ startWithNumber /\ At("number2") => Numbered(rd', fr')
<1> SUFFICES ASSUME Known, Numbered(rd, fr), startWithNumber, At("number2")
             PROVE  Numbered(rd', fr')
    OBVIOUS
<1> DEFINE s == rd.slice
           b == fr.pos.offset
           e == rd.index
           c == Peek(rd)
<1>1. fr \in Frame /\ fr.pc = "number2" /\ Stage(fr) = "number2" /\ ReaderInv(rd)
    BY Found DEF Known, At, Stage
<1>2. rd'.slice = s /\ fr'.pos = fr.pos
    <2>1. rd' \in Onward /\ fr'.pos = fr.pos
        BY ZenonT(60), <1>1 DEF startWithNumber, Step, Inc, Goto, Frame, At, Onward
    <2> QED
        BY <2>1, OnwardFacts DEF Known
<1>3. FirstRune(rd', fr') = FirstRune(rd, fr)
    BY <1>2 DEF FirstRune
<1> SUFFICES ASSUME isDigit(FirstRune(rd, fr))
             PROVE  Numbered(rd', fr')
    BY <1>3 DEF Numbered
<1>4. /\ s \in Seq(Byte) /\ b \in Nat /\ e \in Nat /\ s[b + 1] \in Digits
      /\ fr.tok = tok_intLit /\ e = b + 1 /\ fr.ch = s[b + 1]
      /\ b + 1 \in Nat /\ e + 1 = b + 2 /\ b < e /\ b < e + 1
    <2>1. "number2" \in Counted
        BY DEF Counted, Numeric
    <2>2. s \in Seq(Byte) /\ b \in Nat /\ e \in Nat /\ s[b + 1] \in Digits
        BY <1>1, <2>1, NumberFound
    <2>3. fr.tok = tok_intLit /\ e = b + 1 /\ fr.ch = s[b + 1]
        BY <1>1, <2>1 DEF Numbered
    <2> QED
        BY <2>2, <2>3, SMT
<1>5. AllIn(s, b, e, Digits)
    BY <1>4, AllInEmpty, AllInGrows
<1>6. Peeked(rd).index = e
    BY <1>1, PeekAgain
<1>7. ASSUME c \in 1 .. 127
      PROVE  /\ Advance(Peeked(rd)).index = e + 1 /\ s[e + 1] = c
             /\ Advance(Peeked(rd)).pos = Advance(rd).pos
    BY <1>1, <1>7, ConsumesAscii
<1>8. ASSUME fr' = Goto("digits"), rd'.index = e, NoPrefix(rd', b)
      PROVE  Numbered(rd', fr')
    <2>1. fr'.pc = "digits" /\ fr'.tok = fr.tok
        BY <1>1, <1>8 DEF Goto, Frame
    <2> QED
        BY <1>2, <1>4, <1>5, <1>8, <2>1 DEF Numbered, Stage, LiteralIn
<1>9. CASE fr.ch # 48 /\ Step(rd, Goto("digits"))
    <2>1. NoPrefix(rd', b)
        BY <1>4, <1>9 DEF Step, NoPrefix
    <2> QED
        BY <1>8, <1>9, <2>1 DEF Step
<1>10. CASE c \notin {120, 88, 98} /\ Step(Peeked(rd), Goto("digits"))
    <2>1. Peek(Peeked(rd)) = c
        BY <1>1, PeekAgain
    <2>2. NoPrefix(rd', b)
        BY <1>10, <2>1 DEF Step, NoPrefix
    <2> QED
        BY <1>6, <1>8, <1>10, <2>2 DEF Step
<1>11. CASE c \in 48 .. 55 /\ Step(Advance(Peeked(rd)), Inc(fr, "octal", "digits"))
    <2>1. c \in Digits /\ c \in 1 .. 127
        BY <1>11, SMT DEF Digits
    <2>2. rd'.index = e + 1 /\ AllIn(s, b, e + 1, Digits)
        BY <1>4, <1>5, <1>7, <1>11, <2>1, AllInGrows DEF Step
    <2>3. fr'.pc = "inc" /\ fr'.ret = "digits" /\ fr'.tok = fr.tok /\ fr'.pred = "octal"
        BY <1>1, <1>11 DEF Step, Inc, Frame
    <2>4. NoPrefix(rd', b)
        BY <1>4, <2>2, SMT DEF NoPrefix
    <2> QED
        BY <1>2, <1>4, <2>2, <2>3, <2>4 DEF Numbered, Stage, LiteralIn, PredFor
<1>12. ASSUME fr.ch = 48, NEW tok \in {tok_hexLit, tok_bitLit}, c \in RadixLetters(tok),
              Step(Advance(Peeked(rd)),
                   Inc([fr EXCEPT !.tok = tok, !.mark = Advance(rd).pos],
                       IF tok = tok_hexLit THEN "hex" ELSE "bit", "radixEnd"))
       PROVE  Numbered(rd', fr')
    <2>1. c \in 1 .. 127
        BY <1>12, SMT DEF RadixLetters
    <2>2. rd'.index = b + 2 /\ s[b + 2] \in RadixLetters(tok) /\ rd'.pos = Advance(rd).pos
        BY <1>4, <1>7, <1>12, <2>1 DEF Step
    <2>3. /\ fr'.pc = "inc" /\ fr'.ret = "radixEnd" /\ fr'.tok = tok
          /\ fr'.mark = Advance(rd).pos
          /\ fr'.pred = IF tok = tok_hexLit THEN "hex" ELSE "bit"
        BY <1>1, <1>12 DEF Step, Inc, Frame
    <2>4. RadixIn(s, b, b + 2, tok)
        <3>1. b + 2 \in Nat
            BY <1>4
        <3> QED
            BY <1>4, <1>12, <2>2, <3>1, AllInEmpty DEF RadixIn
    <2>5. Advance(rd).pos.offset = b + 2
        <3>1. ReaderInv(Advance(rd))
            BY <1>1, AdvanceInv
        <3>2. Advance(rd).pos.offset = Advance(rd).index
            BY <3>1 DEF ReaderInv, Recorded
        <3>3. Advance(rd).index = e + 1
            BY <1>1, <2>1, ConsumesAscii
        <3> QED
            BY <1>4, <3>2, <3>3
    <2> QED
        BY <1>2, <2>2, <2>3, <2>4, <2>5 DEF Numbered, Stage, PredFor
<1>13. CASE /\ fr.ch = 48 /\ c \in {120, 88}
            /\ Step(Advance(Peeked(rd)),
                    Inc([fr EXCEPT !.tok = tok_hexLit, !.mark = Advance(rd).pos], "hex", "radixEnd"))
    BY <1>12, <1>13 DEF RadixLetters
<1>14. CASE /\ fr.ch = 48 /\ c = 98
            /\ Step(Advance(Peeked(rd)),
                    Inc([fr EXCEPT !.tok = tok_bitLit, !.mark = Advance(rd).pos], "bit", "radixEnd"))
    <2>1. tok_bitLit # tok_hexLit
        BY SMT DEF tok_bitLit, tok_hexLit
    <2>2. c \in RadixLetters(tok_bitLit)
        BY <1>14, <2>1 DEF RadixLetters
    <2> QED
        BY <1>12, <1>14, <2>1, <2>2
<1>15. CASE c = Dot /\ Step(Peeked(rd), Goto("float"))
    <2>1. fr'.pc = "float"
        BY <1>1, <1>15 DEF Step, Goto, Frame
    <2>2. FloatAhead(s, b)
        <3>1. e < Len(s) /\ s[e + 1] = Dot
            BY <1>1, <1>15, NextByte, MarksApart
        <3>2. e \in b + 1 .. Len(s) - 1
            BY <1>4, <3>1, SMT
        <3> QED
            BY <1>5, <3>1, <3>2 DEF FloatAhead
    <2> QED
        BY <1>2, <2>1, <2>2 DEF Numbered, Stage
<1>16. CASE c = 66 /\ Step(Peeked(rd), Inc(fr, "identChar", "identEnd"))
    <2>1. rd'.index = e /\ AllIn(s, b, e, WordBytes)
        <3>1. rd'.index = e
            BY <1>6, <1>16 DEF Step
        <3> QED
            BY <1>5, <3>1, AllInOf, ByteClasses
    <2>2. fr'.pc = "inc" /\ fr'.ret = "identEnd" /\ fr'.pred = "identChar"
        BY <1>1, <1>16 DEF Step, Inc, Frame
    <2>3. SpoiltInteger(s, b)
        <3>1. isIdentChar(66) /\ 66 \notin Digits \cup {Dot, 101, 69} /\ 66 \notin {120, 88, 98}
            BY SMT DEF isIdentChar, isLetter, Digits, Dot
        <3>2. e < Len(s) /\ RuneAt(s, e) = 66
            BY <1>1, <1>16, <3>1, NextByte
        <3>3. e \in b + 1 .. Len(s) - 1
            BY <1>4, <3>2, SMT
        <3> QED
            BY <1>5, <3>1, <3>2, <3>3 DEF SpoiltInteger
    <2> QED
        BY <1>2, <2>1, <2>2, <2>3 DEF Numbered, Stage, PredFor, Spoilt
<1> QED
    BY <1>1, <1>9, <1>10, <1>11, <1>13, <1>14, <1>15, <1>16 DEF startWithNumber, At

\* A step that reads on as a word: what has been read are bytes of one.
LEMMA WordNumber ==
    ASSUME fr \in Frame, NEW r, r.slice = rd.slice, AllIn(rd.slice, fr.pos.offset, r.index, WordBytes),
           Spoilt(rd.slice, fr.pos.offset)
    PROVE  Numbered(r, Inc(fr, "identChar", "identEnd"))
<1> DEFINE f == Inc(fr, "identChar", "identEnd")
<1>1. f.pc = "inc" /\ f.ret = "identEnd" /\ f.pred = "identChar" /\ f.pos = fr.pos
    BY DEF Inc, Frame
<1> HIDE DEF f
<1>2. Numbered(r, f)
    BY <1>1 DEF Numbered, Stage, PredFor
<1> QED
    BY <1>2 DEF f

\* lexer.cc:286-304, 318-349
LEMMA TailNumber ==
    Known /\ Numbered(rd, fr) /\ (radixEnd \/ numberTail) => Numbered(rd', fr')
<1> SUFFICES ASSUME Known, Numbered(rd, fr), radixEnd \/ numberTail
             PROVE  Numbered(rd', fr')
    OBVIOUS
<1> DEFINE s == rd.slice
           b == fr.pos.offset
           e == rd.index
<1>1. /\ fr \in Frame /\ fr.pc \in {"radixEnd", "digits", "numberTail"} /\ Stage(fr) = fr.pc
      /\ ReaderInv(rd) /\ Stage(fr) \in Counted
    BY Found DEF Known, At, Stage, radixEnd, numberTail, Counted, Numeric
<1>2. Handler(FirstRune(rd, fr)) = "number"
    BY <1>1, LedFacts DEF Known, Led, Numeric
<1>3. isDigit(FirstRune(rd, fr))
    BY <1>2, NumberHandler
<1>4. b \in Nat /\ e \in Nat /\ Peeked(rd).index = e /\ Peeked(rd).slice = s
      /\ Peek(Peeked(rd)) = Peek(rd) /\ Peeked(rd).pos = rd.pos
    BY <1>1, <1>3, NumberFound, PeekAgain, PeekedInv
<1>5. fr.pc \in {"digits", "numberTail"} =>
        /\ LiteralIn(s, b, e, fr.tok) /\ (fr.tok = tok_intLit \/ ~isDigit(Peek(rd)))
        /\ IF fr.tok = tok_intLit THEN NoPrefix(rd, b) ELSE Peek(rd) \notin RadixDigits(fr.tok)
    BY <1>1, <1>3 DEF Numbered
<1>6. fr.pc = "radixEnd" => /\ RadixIn(s, b, e, fr.tok) /\ (e = b + 2 => rd.pos = fr.mark)
                            /\ fr.mark.offset = b + 2 /\ Peek(rd) \notin RadixDigits(fr.tok)
    BY <1>1, <1>3 DEF Numbered
<1>7. AllIn(s, b, e, WordBytes)
    BY <1>1, <1>4, <1>5, <1>6, LiteralIsWord
<1>13. /\ e < Len(s) => Peek(rd) = RuneAt(s, e)
       /\ isIdentChar(Peek(rd)) => e < Len(s)
       /\ e <= Len(s) /\ Len(s) \in Nat /\ s \in Seq(Byte)
    BY <1>1, <1>3, NextByte, NumberFound
<1>8. ASSUME Spoilt(s, b), fr' = Inc(fr, "identChar", "identEnd"), rd' \in {rd, Peeked(rd)}
      PROVE  Numbered(rd', fr')
    BY <1>1, <1>4, <1>7, <1>8, WordNumber
<1>14. ASSUME fr.tok # tok_intLit, RadixIn(s, b, e, fr.tok), Peek(rd) \notin RadixDigits(fr.tok),
              e = b + 2 \/ isIdentChar(Peek(rd))
       PROVE  Spoilt(s, b)
    <2>1. e \in b + 2 .. Len(s) /\ fr.tok \in {tok_hexLit, tok_bitLit}
        BY <1>4, <1>13, <1>14, SMT DEF RadixIn, AllIn
    <2>2. e < Len(s) => RuneAt(s, e) \notin RadixDigits(fr.tok)
        BY <1>13, <1>14
    <2>3. e = b + 2 \/ (e < Len(s) /\ isIdentChar(RuneAt(s, e)))
        BY <1>13, <1>14
    <2> HIDE DEF s, b, e
    <2> QED
        BY <1>14, <2>1, <2>2, <2>3 DEF Spoilt, SpoiltRadix
<1>15. ~(tok_intLit \in {tok_hexLit, tok_bitLit})
    BY SMT DEF tok_intLit, tok_hexLit, tok_bitLit
<1>16. CASE /\ radixEnd /\ fr.pc = "radixEnd" /\ (rd.pos = fr.mark \/ isDigit(Peek(rd)))
            /\ fr' = Inc(fr, "identChar", "identEnd") /\ rd' \in {rd, Peeked(rd)}
    <2>1. rd.pos.offset = e
        BY Found DEF Known
    <2>2. e = b + 2 \/ isIdentChar(Peek(rd))
        BY <1>6, <1>16, <2>1, Readable
    <2>3. fr.tok # tok_intLit
        BY <1>6, <1>15, <1>16 DEF RadixIn
    <2> QED
        BY <1>6, <1>8, <1>14, <1>16, <2>2, <2>3
<1>17. CASE /\ fr.pc = "numberTail" /\ Peek(rd) \notin {Dot, 101, 69} /\ isIdentChar(Peek(rd))
            /\ fr' = Inc(fr, "identChar", "identEnd") /\ rd' \in {rd, Peeked(rd)}
    <2>1. CASE fr.tok # tok_intLit
        <3>1. RadixIn(s, b, e, fr.tok) /\ Peek(rd) \notin RadixDigits(fr.tok)
            BY <1>5, <1>17, <2>1 DEF LiteralIn
        <3> QED
            BY <1>8, <1>14, <1>17, <2>1, <3>1
    <2>2. CASE fr.tok = tok_intLit
        <3>1. AllIn(s, b, e, Digits) /\ b < e /\ NoPrefix(rd, b)
            BY <1>5, <1>15, <1>17, <2>2 DEF LiteralIn, RadixIn
        <3>2. ~isDigit(Peek(rd))
            BY <1>1, <1>3, <1>17 DEF Numbered
        <3>3. e \in b + 1 .. Len(s) - 1 /\ RuneAt(s, e) = Peek(rd)
            BY <1>4, <1>13, <1>17, <3>1, SMT
        <3>4. RuneAt(s, e) \notin Digits \cup {Dot, 101, 69}
            BY <1>17, <3>2, <3>3, ByteClasses
        <3>5. s[b + 1] = 48 /\ e = b + 1 => RuneAt(s, e) \notin {120, 88, 98}
            BY <3>1, <3>3 DEF NoPrefix
        <3>6. isIdentChar(RuneAt(s, e))
            BY <1>17, <3>3
        <3> HIDE DEF s, b, e
        <3>7. SpoiltInteger(s, b)
            BY <3>1, <3>3, <3>4, <3>5, <3>6 DEF SpoiltInteger
        <3> QED
            BY <1>8, <1>17, <3>7 DEF Spoilt
    <2> QED
        BY <2>1, <2>2
<1>9. CASE radixEnd /\ fr.pc = "radixEnd" /\ rd.pos # fr.mark /\ ~isDigit(Peek(rd))
           /\ Step(Peeked(rd), Goto("digits"))
    <2>1. fr'.pc = "digits" /\ fr'.pos = fr.pos /\ fr'.tok = fr.tok
        BY <1>1, <1>9 DEF Step, Goto, Frame
    <2>2. b + 2 < e
        BY <1>4, <1>6, <1>9, SMT DEF RadixIn, AllIn
    <2>3. LiteralIn(s, b, e, fr.tok)
        BY <1>6, <1>9, <2>2 DEF LiteralIn
    <2>4. fr.tok # tok_intLit /\ Peek(rd) \notin RadixDigits(fr.tok)
        BY <1>6, <1>9, <1>15 DEF RadixIn
    <2> QED
        BY <1>4, <1>9, <2>1, <2>3, <2>4 DEF Numbered, Stage, Step
<1>10. CASE fr.pc = "digits" /\ Step(rd, Inc(fr, "digit", "numberTail"))
    <2>1. /\ fr'.pc = "inc" /\ fr'.ret = "numberTail" /\ fr'.pred = "digit"
          /\ fr'.pos = fr.pos /\ fr'.tok = fr.tok
        BY <1>1, <1>10 DEF Step, Inc, Frame
    <2> QED
        BY <1>5, <1>10, <2>1 DEF Numbered, Stage, Step, PredFor
<1>11. CASE fr.pc = "numberTail" /\ Peek(rd) \in {Dot, 101, 69} /\ Step(Peeked(rd), Goto("float"))
    <2>1. fr'.pc = "float" /\ fr'.pos = fr.pos
        BY <1>1, <1>11 DEF Step, Goto, Frame
    <2>2. e < Len(s) /\ s[e + 1] = Peek(rd)
        BY <1>1, <1>11, NextByte, MarksApart
    <2>3. FloatAhead(s, b)
        <3>1. CASE b < e /\ AllIn(s, b, e, Digits)
            <4>1. e \in b + 1 .. Len(s) - 1 /\ s[e + 1] \in {Dot, 101, 69}
                BY <1>4, <1>11, <1>13, <2>2, <3>1, SMT
            <4> HIDE DEF s, b, e
            <4> QED
                BY <3>1, <4>1 DEF FloatAhead
        <3>2. CASE b + 2 < e /\ RadixIn(s, b, e, fr.tok)
            <4>1. fr.tok \in {tok_hexLit, tok_bitLit} /\ Peek(rd) \notin RadixDigits(fr.tok)
                BY <1>5, <1>11, <1>15, <3>2 DEF RadixIn
            <4>2. IsRadix(SubSeq(s, b + 1, e), RadixLetters(fr.tok), RadixDigits(fr.tok))
                BY <1>4, <1>13, <3>2, RadixText
            <4>3. e \in b + 3 .. Len(s) - 1
                BY <1>4, <1>13, <2>2, <3>2, SMT
            <4>4. GoesOnAsFloat(s, b)
                <5>1. CASE fr.tok = tok_hexLit
                    <6>1. 101 \in HexDigits /\ 69 \in HexDigits
                        BY SMT DEF HexDigits
                    <6>2. s[e + 1] = Dot
                        BY <1>11, <2>2, <4>1, <5>1, <6>1 DEF RadixDigits
                    <6> HIDE DEF s, b, e
                    <6> QED
                        BY <4>2, <4>3, <5>1, <6>2 DEF GoesOnAsFloat, RadixLetters, RadixDigits
                <5>2. CASE fr.tok = tok_bitLit
                    <6>1. tok_bitLit # tok_hexLit
                        BY SMT DEF tok_bitLit, tok_hexLit
                    <6>2. s[e + 1] \in {Dot, 101, 69}
                        BY <1>11, <2>2
                    <6> HIDE DEF s, b, e
                    <6> QED
                        BY <4>2, <4>3, <5>2, <6>1, <6>2 DEF GoesOnAsFloat, RadixLetters, RadixDigits
                <5> QED
                    BY <4>1, <5>1, <5>2
            <4>5. s[b + 1] = 48 /\ s[b + 2] \notin Digits
                BY <3>2, NumberByteClasses, MarksApart DEF RadixIn
            <4> QED
                BY <4>4, <4>5 DEF FloatAhead, RadixAhead
        <3> QED
            BY <1>5, <1>11, <3>1, <3>2 DEF LiteralIn
    <2> QED
        BY <1>4, <1>11, <2>1, <2>3 DEF Numbered, Stage, Step
<1>12. CASE fr' = NoFrame
    <2>1. Stage(fr') \notin Counted
        BY <1>12 DEF NoFrame, Stage, Counted, Numeric
    <2> QED
        BY <2>1 DEF Numbered
<1> QED
    BY <1>9, <1>10, <1>11, <1>12, <1>16, <1>17 DEF radixEnd, numberTail, Step, Return, Result, At

\* Behind an e, and a sign if there is one, is no digit.
LEMMA PowerSpoilt ==
    ASSUME NEW r, ReaderInv(r), NEW b \in Nat, PowerIn(r.slice, b, r.index), ~isDigit(Peek(r))
    PROVE  SpoiltFloat(r.slice, b)
<1> DEFINE s == r.slice
           e == r.index
<1>1. e \in Nat /\ e <= Len(s) /\ Len(s) \in Nat
    BY ReaderFields DEF ReaderInv
<1>2. PICK m \in b + 1 .. e : /\ DecimalIn(s, b, m) /\ s[m + 1] \in {101, 69}
                              /\ \/ e = m + 1 /\ (e < Len(s) => s[m + 2] \notin {Plus, Minus})
                                 \/ e = m + 2 /\ s[m + 2] \in {Plus, Minus}
    BY Zenon DEF PowerIn
<1>3. m \in Nat /\ m < e /\ m \in b + 1 .. Len(s) - 1 /\ m + 1 + 1 = m + 2 /\ m + 1 + 2 = m + 3
    BY <1>1, <1>2, SMT
<1>4. e < Len(s) => ~isDigit(s[e + 1])
    BY NextByte, ByteClasses
<1>5. ASSUME HasExponent(s, m + 1)
      PROVE  FALSE
    <2>1. CASE e = m + 1 /\ (e < Len(s) => s[m + 2] \notin {Plus, Minus})
        <3>1. m + 1 < Len(s) => ~isDigit(s[m + 2])
            BY <1>3, <1>4, <2>1
        <3>2. m + 1 + 1 < Len(s) => e < Len(s)
            BY <1>1, <1>3, <2>1, SMT
        <3> QED
            BY <1>3, <1>5, <2>1, <3>1, <3>2 DEF HasExponent
    <2>2. CASE e = m + 2 /\ s[m + 2] \in {Plus, Minus}
        <3>1. ~isDigit(s[m + 2])
            BY <2>2, SMT DEF isDigit, Plus, Minus
        <3>2. m + 2 < Len(s) => ~isDigit(s[m + 3])
            <4>1. e + 1 = m + 3
                BY <1>3, <2>2, SMT
            <4> QED
                BY <1>4, <2>2, <4>1
        <3> QED
            BY <1>3, <1>5, <3>1, <3>2 DEF HasExponent
    <2> QED
        BY <1>2, <2>1, <2>2
<1> QED
    BY <1>2, <1>3, <1>5 DEF SpoiltFloat

\* scanner.cc:256-303
LEMMA FloatNumber ==
    Known /\ Numbered(rd, fr) /\ (scanFloat \/ exponent) => Numbered(rd', fr')
<1> SUFFICES ASSUME Known, Numbered(rd, fr), scanFloat \/ exponent
             PROVE  Numbered(rd', fr')
    OBVIOUS
<1> DEFINE s == rd.slice
           b == fr.pos.offset
           e == rd.index
           c == Peek(rd)
<1>1. /\ fr \in Frame /\ fr.pc \in {"float", "fraction", "exponent", "sign", "power", "floatEnd"}
      /\ Stage(fr) = fr.pc /\ ReaderInv(rd) /\ Stage(fr) \in Counted /\ Saved(rd, fr.pos)
    <2>1. fr.pc \in {"float", "fraction", "exponent", "sign", "power", "floatEnd"}
        BY DEF At, scanFloat, exponent
    <2>2. fr \in Frame /\ ReaderInv(rd) /\ Saved(rd, fr.pos)
        BY Found DEF Known, ScanInv, GoodFrame
    <2> QED
        BY <2>1, <2>2 DEF Stage, Counted, Numeric
<1>2. Handler(FirstRune(rd, fr)) = "number"
    BY <1>1, LedFacts DEF Known, Led, Numeric
<1>3. isDigit(FirstRune(rd, fr))
    BY <1>2, NumberHandler
<1>4. /\ b \in Nat /\ e \in Nat /\ b <= e /\ (e = b => isDigit(c))
      /\ ReaderInv(Peeked(rd)) /\ Peeked(rd).index = e /\ Peeked(rd).slice = s /\ Peek(Peeked(rd)) = c
      /\ Saved(Peeked(rd), fr.pos)
    BY <1>1, <1>3, NumberFound, PeekAgain, PeekedInv DEF Saved
<1>5. ASSUME c \in 1 .. 127
      PROVE  Advance(Peeked(rd)).index = e + 1 /\ s[e + 1] = c /\ e + 1 \in Nat
    BY <1>1, <1>4, <1>5, ConsumesAscii
<1>6. Advance(Peeked(rd)).slice = s
    BY OnwardFacts DEF Onward, Known
<1>7. CASE fr' = NoFrame
    <2>1. Stage(fr') \notin Counted
        BY <1>7 DEF NoFrame, Stage, Counted, Numeric
    <2> QED
        BY <2>1 DEF Numbered
<1>8. CASE fr.pc = "float" /\ Step(UpdatePos(rd, fr.pos), Inc(fr, "digit", "fraction"))
    <2>1. /\ fr'.pc = "inc" /\ fr'.ret = "fraction" /\ fr'.pred = "digit" /\ fr'.pos = fr.pos
        BY <1>1, <1>8 DEF Step, Inc, Frame
    <2>2. rd'.index = b /\ AllIn(rd'.slice, b, b, Digits)
        BY <1>1, <1>4, <1>8, UpdatePosLands, AllInEmpty DEF Step
    <2>3. FloatAhead(s, b) /\ rd'.slice = s
        BY <1>1, <1>3, <1>8, UpdatePosLands DEF Numbered, Step
    <2> QED
        BY <2>1, <2>2, <2>3 DEF Numbered, Stage, PredFor
<1>9. ASSUME fr.pc = "fraction"
      PROVE  /\ AllIn(s, b, e, Digits) /\ b < e /\ e \in b + 1 .. e /\ ~isDigit(c)
             /\ FloatAhead(s, b)
    <2>1. AllIn(s, b, e, Digits) /\ ~isDigit(c) /\ FloatAhead(s, b)
        BY <1>1, <1>3, <1>9 DEF Numbered
    <2> QED
        BY <1>4, <2>1, SMT
<1>10. CASE fr.pc = "fraction" /\ c = Dot /\ Step(Advance(Peeked(rd)), Inc(fr, "digit", "exponent"))
    <2>1. /\ fr'.pc = "inc" /\ fr'.ret = "exponent" /\ fr'.pred = "digit" /\ fr'.pos = fr.pos
        BY <1>1, <1>10 DEF Step, Inc, Frame
    <2>2. c \in 1 .. 127
        BY <1>10, SMT DEF Dot
    <2>3. rd'.index = e + 1 /\ s[e + 1] = Dot /\ AllIn(s, e + 1, e + 1, Digits)
        BY <1>5, <1>10, <2>2, AllInEmpty DEF Step
    <2>4. e \in b + 1 .. e + 1
        BY <1>4, <1>9, <1>10, SMT
    <2>5. DecimalIn(s, b, e + 1)
        BY <1>9, <1>10, <2>3, <2>4 DEF DecimalIn
    <2>6. Pointed(s, b, e + 1)
        <3>1. e + 1 \in b + 1 .. e + 1
            BY <1>4, SMT
        <3> QED
            BY <2>3, <3>1 DEF Pointed
    <2> QED
        BY <1>6, <1>10, <2>1, <2>3, <2>5, <2>6 DEF Numbered, Stage, PredFor, Step
<1>11. CASE fr.pc = "fraction" /\ c # Dot /\ Step(Peeked(rd), Goto("exponent"))
    <2>1. fr'.pc = "exponent" /\ fr'.pos = fr.pos
        BY <1>1, <1>11 DEF Step, Goto, Frame
    <2>2. DecimalIn(s, b, e)
        BY <1>9, <1>11 DEF DecimalIn
    <2>3. c \in {101, 69} \/ (e = b + 1 /\ RadixAhead(s, b))
        <3>1. CASE RadixAhead(s, b)
            <4>1. ASSUME e # b + 1
                  PROVE  b + 2 \in b + 1 .. e
                BY <1>4, <1>9, <1>11, <4>1, SMT
            <4>2. s[b + 2] \notin Digits
                BY <3>1 DEF RadixAhead
            <4> QED
                BY <1>9, <1>11, <3>1, <4>1, <4>2 DEF AllIn
        <3>2. ASSUME NEW m \in b + 1 .. Len(s) - 1, AllIn(s, b, m, Digits), s[m + 1] \in {Dot, 101, 69}
              PROVE  c \in {101, 69}
            <4>1. s[m + 1] \notin Digits /\ s[m + 1] \in 1 .. 127
                <5>1. \A n \in {Dot, 101, 69} : n \notin Digits /\ n \in 1 .. 127
                    BY MarksApart
                <5> QED
                    BY <3>2, <5>1
            <4>2. m \in Nat /\ m < Len(s) /\ Len(s) \in Nat
                BY <1>4, SMT
            <4>3. m + 1 \notin b + 1 .. e
                BY <1>9, <1>11, <4>1 DEF AllIn
            <4>4. ASSUME e < m
                  PROVE  FALSE
                <5>1. e + 1 \in b + 1 .. m /\ e < Len(s)
                    BY <1>4, <4>2, <4>4, SMT
                <5>2. s[e + 1] \in Digits
                    BY <3>2, <5>1 DEF AllIn
                <5>3. c = s[e + 1]
                    BY <1>1, <5>1, <5>2, NextByte, MarksApart
                <5> QED
                    BY <1>9, <1>11, <5>2, <5>3, ByteClasses
            <4>5. m = e
                BY <1>4, <4>2, <4>3, <4>4, SMT
            <4>6. c = s[e + 1]
                BY <1>1, <4>1, <4>2, <4>5, NextByte
            <4> QED
                BY <1>11, <3>2, <4>5, <4>6
        <3> QED
            BY <1>9, <1>11, <3>1, <3>2 DEF FloatAhead
    <2> QED
        BY <1>4, <1>9, <1>11, <2>1, <2>2, <2>3 DEF Numbered, Stage, Step
<1>12. CASE fr.pc = "exponent" /\ c \in {101, 69} /\ Step(Advance(Peeked(rd)), Goto("sign"))
    <2>1. fr'.pc = "sign" /\ fr'.pos = fr.pos
        BY <1>1, <1>12 DEF Step, Goto, Frame
    <2>2. c \in 1 .. 127
        BY <1>12, SMT
    <2>3. rd'.index = e + 1 /\ s[e + 1] \in {101, 69} /\ e \in b .. e + 1
        BY <1>4, <1>5, <1>12, <2>2 DEF Step
    <2>4. DecimalIn(s, b, e)
        BY <1>1, <1>3, <1>12 DEF Numbered
    <2> QED
        BY <1>6, <1>12, <2>1, <2>3, <2>4 DEF Numbered, Stage, Step
<1>13. CASE fr.pc = "sign" /\ exponent
    <2>1. fr'.pc = "power" /\ fr'.pos = fr.pos
        BY <1>1, <1>13 DEF exponent, At, Step, Goto, Frame
    <2>2. PICK m \in b .. e : e = m + 1 /\ DecimalIn(s, b, m) /\ s[m + 1] \in {101, 69}
        BY <1>1, <1>3, <1>13 DEF Numbered
    <2>3. m \in Nat /\ m \in b + 1 .. e /\ m \in b + 1 .. e + 1 /\ e + 1 = m + 2
        <3>1. m \in Nat
            BY <1>4, <2>2, SMT
        <3>2. b < m
            BY <1>4, <2>2, <3>1, DecimalBounds
        <3> QED
            BY <1>4, <2>2, <3>1, <3>2, SMT
    <2>4. CASE c \in {Minus, Plus}
        <3>1. c \in 1 .. 127
            BY <2>4, SMT DEF Minus, Plus
        <3>2. rd' = Advance(Peeked(rd))
            BY <1>13, <2>4 DEF exponent, At, Step
        <3>3. rd'.index = e + 1 /\ s[m + 2] \in {Plus, Minus}
            BY <1>5, <2>3, <2>4, <3>1, <3>2
        <3>4. PowerIn(s, b, e + 1)
            BY <2>2, <2>3, <3>3 DEF PowerIn
        <3> QED
            BY <1>6, <2>1, <3>2, <3>3, <3>4 DEF Numbered, Stage
    <2>5. CASE c \notin {Minus, Plus}
        <3>1. rd' = Peeked(rd)
            BY <1>13, <2>5 DEF exponent, At, Step
        <3>2. e < Len(s) => s[m + 2] \notin {Plus, Minus}
            <4>1. Plus \in 1 .. 127 /\ Minus \in 1 .. 127
                BY SMT DEF Plus, Minus
            <4>2. e < Len(s) => s[e + 1] \notin {Plus, Minus}
                BY <1>1, <2>5, <4>1, NextByte
            <4> QED
                BY <2>3, <4>2
        <3>3. PowerIn(s, b, e)
            BY <2>2, <2>3, <3>2 DEF PowerIn
        <3> QED
            BY <1>4, <2>1, <3>1, <3>3 DEF Numbered, Stage
    <2> QED
        BY <2>4, <2>5
<1>14. CASE fr.pc = "power" /\ isDigit(c) /\ Step(Peeked(rd), Inc(fr, "digit", "floatEnd"))
    <2>1. /\ fr'.pc = "inc" /\ fr'.ret = "floatEnd" /\ fr'.pred = "digit" /\ fr'.pos = fr.pos
        BY <1>1, <1>14 DEF Step, Inc, Frame
    <2>2. PowerIn(s, b, e) /\ AllIn(s, e, e, Digits) /\ e \in b .. e
        BY <1>1, <1>3, <1>4, <1>14, AllInEmpty DEF Numbered
    <2> QED
        BY <1>4, <1>14, <2>1, <2>2 DEF Numbered, Stage, PredFor, Step
<1>15. CASE /\ fr.pc = "power" /\ ~isDigit(c)
            /\ Step(UpdatePos(Peeked(rd), fr.pos), Inc(fr, "identChar", "identEnd"))
    <2>1. rd'.slice = s /\ rd'.index = b
        BY <1>4, <1>15, UpdatePosLands DEF Step
    <2>2. AllIn(s, b, b, WordBytes)
        BY <1>4, AllInEmpty
    <2>3. PowerIn(s, b, e)
        BY <1>1, <1>3, <1>15 DEF Numbered
    <2>4. SpoiltFloat(s, b)
        BY <1>1, <1>4, <1>15, <2>3, PowerSpoilt
    <2> QED
        BY <1>1, <1>15, <2>1, <2>2, <2>4, WordNumber DEF Step, Spoilt
<1> QED
    BY <1>1, <1>7, <1>8, <1>10, <1>11, <1>12, <1>13, <1>14, <1>15
       DEF scanFloat, exponent, Step, Return, Result, At

\* Every step keeps what is known of numbers.
LEMMA NextNumbered ==
    Known /\ Numbered(rd, fr) /\ (Scanning \/ Call) => Numbered(rd', fr')
<1> SUFFICES ASSUME Known, Numbered(rd, fr), Scanning \/ Call
             PROVE  Numbered(rd', fr')
    OBVIOUS
<1>0. ScanInv /\ Paced(rd, fr) /\ Led(rd, fr) /\ fr \in Frame /\ rd.pos.offset = rd.index
    BY Found DEF Known
<1>1. Flows
    BY NextFlows DEF Known
<1>2. ASSUME Stage(fr') \notin Counted
      PROVE  Numbered(rd', fr')
    BY <1>2 DEF Numbered
<1>3. CASE incAsLongAs
    BY <1>3, RunStopsNumber, RunGoesNumber
<1>4. CASE Counting \/ scanFloat \/ exponent
    <2>1. startWithNumber /\ ~At("number") => At("number2")
        BY DEF startWithNumber
    <2> QED
        BY <1>4, <2>1, BranchesNumber, TailNumber, FloatNumber DEF Counting
<1>5. CASE prefix /\ At("prefix")
    <2>1. fr' = Goto("ident") \/ fr' = Inc(fr, fr.pred, "prefixEnd")
        BY <1>5 DEF prefix, Step, At
    <2>2. Stage(fr') \in {"ident", "prefixEnd"}
        BY <1>0, <2>1 DEF Goto, Inc, Frame, Stage
    <2> QED
        BY <1>2, <2>2 DEF Counted, Numeric
<1>6. CASE Beginning
    <2>1. CASE startWithNumber /\ At("number")
        BY <2>1, BeginsNumber
    <2>2. CASE ~(startWithNumber /\ At("number"))
        <3>1. fr.pc # "number"
            BY <1>6, <2>2 DEF Beginning, startWithXx, startWithBb, openQuotedIdent, startString, At
        <3>2. Stage(fr') \in {"prefix", "quotedLoop", "stringPeek"}
            BY <1>0, <1>6, <3>1, BeginningStep
        <3> QED
            BY <1>2, <3>2 DEF Counted, Numeric
    <2> QED
        BY <2>1, <2>2
<1>7. CASE (scanIdentifier /\ At("ident")) \/ (startWithNn /\ At("nn"))
    <2>1. /\ rd' = rd /\ fr'.pos = rd.pos /\ fr'.pc = "inc" /\ Stage(fr) = fr.pc
          /\ \/ fr.pc = "ident" /\ Stage(fr') = "identEnd"
             \/ fr.pc = "nn" /\ Stage(fr') = "nnEnd"
        BY <1>0, <1>7, WordsStep
    <2>2. CASE fr.pc = "ident"
        <3>1. rd.index = fr.pos.offset /\ Handler(FirstRune(rd, fr)) # "number"
            BY <1>0, <2>1, <2>2, LedFacts DEF Led, Entries
        <3>2. FirstRune(rd', fr') = FirstRune(rd, fr)
            BY <1>0, <2>1, <3>1 DEF FirstRune
        <3> QED
            BY <3>1, <3>2, NumberHandler DEF Numbered
    <2>3. CASE Stage(fr') = "nnEnd"
        BY <1>2, <2>3 DEF Counted, Numeric
    <2> QED
        BY <2>1, <2>2, <2>3
<1>8. CASE Stage(fr') = "idle" \/ Stage(fr') \in Quoting \cup Stringing \/ Stage(fr') \in Outside
    <2>1. Counted \cap ({"idle"} \cup Quoting \cup Stringing \cup Outside) = {}
        BY SMT DEF Quoting, Stringing, Counted, Numeric, Outside, Slashing
    <2> QED
        BY <1>2, <1>8, <2>1
<1> QED
    BY <1>1, <1>3, <1>4, <1>5, <1>6, <1>7, <1>8 DEF Flows

\* What a kind of number promises of its text and of the rune behind it.
NumberForm(tok, lit, next, s, b) ==
    CASE tok = tok_intLit   -> IsInteger(lit) /\ ~isIdentChar(next) /\ next # Dot
      [] tok = tok_hexLit   -> IsRadix(lit, {120, 88}, HexDigits) /\ ~isIdentChar(next) /\ next # Dot
      [] tok = tok_bitLit   -> IsRadix(lit, {98}, {48, 49}) /\ ~isIdentChar(next) /\ next # Dot
      [] tok = tok_decLit   -> \/ IsDecimal(lit) /\ ~AllDigits(lit) /\ next \notin {101, 69}
                               \/ lit = <<48>> /\ GoesOnAsFloat(s, b)
      [] tok = tok_floatLit -> IsFloat(lit)
      [] OTHER              ->
           /\ tok = tok_identifier
           /\ IsWord(lit) /\ ~isIdentChar(next)
           /\ ~IsRadix(lit, {120, 88}, HexDigits) /\ ~IsRadix(lit, {98}, {48, 49})
           /\ ~IsFloat(lit)
           /\ IsInteger(lit) => next = Dot /\ LacksExponent(s, b)

\* The forms of numbers, by the kind of the token.
LEMMA NumberForms ==
    ASSUME NEW lit, NEW next, NEW s, NEW b
    PROVE  /\ IsInteger(lit) /\ ~isIdentChar(next) /\ next # Dot => NumberForm(tok_intLit, lit, next, s, b)
           /\ \A tok \in {tok_hexLit, tok_bitLit} :
                 IsRadix(lit, RadixLetters(tok), RadixDigits(tok)) /\ ~isIdentChar(next) /\ next # Dot
                    => NumberForm(tok, lit, next, s, b)
           /\ \/ IsDecimal(lit) /\ ~AllDigits(lit) /\ next \notin {101, 69}
              \/ lit = <<48>> /\ GoesOnAsFloat(s, b)
              => NumberForm(tok_decLit, lit, next, s, b)
           /\ IsFloat(lit) => NumberForm(tok_floatLit, lit, next, s, b)
           /\ /\ IsWord(lit) /\ ~isIdentChar(next)
              /\ \A tok \in {tok_hexLit, tok_bitLit} : ~IsRadix(lit, RadixLetters(tok), RadixDigits(tok))
              /\ ~IsFloat(lit)
              /\ IsInteger(lit) => next = Dot /\ LacksExponent(s, b)
              => NumberForm(tok_identifier, lit, next, s, b)
<1>1. /\ tok_intLit = 1881 /\ tok_hexLit = 1882 /\ tok_bitLit = 1883 /\ tok_floatLit = 1884
      /\ tok_decLit = 1885 /\ tok_identifier = 1355
    BY DEF tok_intLit, tok_hexLit, tok_bitLit, tok_floatLit, tok_decLit, tok_identifier
<1>2. NumberForm(1881, lit, next, s, b) <=> IsInteger(lit) /\ ~isIdentChar(next) /\ next # Dot
    BY <1>1, SMT DEF NumberForm
<1>3. NumberForm(1882, lit, next, s, b)
        <=> IsRadix(lit, {120, 88}, HexDigits) /\ ~isIdentChar(next) /\ next # Dot
    BY <1>1, SMT DEF NumberForm
<1>4. NumberForm(1883, lit, next, s, b)
        <=> IsRadix(lit, {98}, {48, 49}) /\ ~isIdentChar(next) /\ next # Dot
    BY <1>1, SMT DEF NumberForm
<1>5. NumberForm(1885, lit, next, s, b)
        <=> \/ IsDecimal(lit) /\ ~AllDigits(lit) /\ next \notin {101, 69}
            \/ lit = <<48>> /\ GoesOnAsFloat(s, b)
    BY <1>1, SMT DEF NumberForm
<1>6. NumberForm(1884, lit, next, s, b) <=> IsFloat(lit)
    BY <1>1, SMT DEF NumberForm
<1>7. NumberForm(1355, lit, next, s, b)
        <=> /\ IsWord(lit) /\ ~isIdentChar(next)
            /\ ~IsRadix(lit, {120, 88}, HexDigits) /\ ~IsRadix(lit, {98}, {48, 49})
            /\ ~IsFloat(lit)
            /\ IsInteger(lit) => next = Dot /\ LacksExponent(s, b)
    BY <1>1, SMT DEF NumberForm
<1>8. /\ RadixLetters(1882) = {120, 88} /\ RadixDigits(1882) = HexDigits
      /\ RadixLetters(1883) = {98} /\ RadixDigits(1883) = {48, 49}
    BY <1>1, SMT DEF RadixLetters, RadixDigits
<1>9. ASSUME NEW tok \in {tok_hexLit, tok_bitLit}
      PROVE  IsRadix(lit, RadixLetters(tok), RadixDigits(tok)) /\ ~isIdentChar(next) /\ next # Dot
                => NumberForm(tok, lit, next, s, b)
    <2>1. CASE tok = 1882
        BY <1>3, <1>8, <2>1
    <2>2. CASE tok = 1883
        BY <1>4, <1>8, <2>2
    <2> QED
        BY <1>1, <1>9, <2>1, <2>2
<1>10. (\A tok \in {tok_hexLit, tok_bitLit} : ~IsRadix(lit, RadixLetters(tok), RadixDigits(tok)))
         => ~IsRadix(lit, {120, 88}, HexDigits) /\ ~IsRadix(lit, {98}, {48, 49})
    <2>1. 1882 \in {tok_hexLit, tok_bitLit} /\ 1883 \in {tok_hexLit, tok_bitLit}
        BY <1>1
    <2> QED
        BY <1>8, <2>1
<1> QED
    BY <1>1, <1>2, <1>5, <1>6, <1>7, <1>9, <1>10

\* What a call that returns from inside a number returns: what it has read.
NumberReturns(tok) ==
    /\ out'.tok = tok /\ out'.lit = Data(rd, fr.pos) /\ rd'.index = rd.index
    /\ \/ /\ fr.pc = "numberTail" /\ tok = fr.tok
          /\ Peek(rd) # Dot /\ (Eof(rd) \/ ~isIdentChar(Peek(rd)))
       \/ fr.pc = "exponent" /\ tok = tok_decLit /\ Peek(rd) \notin {101, 69}
       \/ fr.pc = "floatEnd" /\ tok = tok_floatLit
       \/ fr.pc = "identEnd" /\ tok = tok_identifier

\* The token a number's handler returns, by its last label.
LEMMA NumberReturned ==
    ASSUME ScanInv, Scanning \/ Call, fr'.pc = "idle", fr.pc \in Counted
    PROVE  \E tok : NumberReturns(tok)
<1>1. fr \in Frame /\ Peeked(rd).index = rd.index
    BY Found, PeekAgain
<1>2. \/ (startWithNumber /\ ~At("number")) \/ radixEnd \/ numberTail \/ scanFloat \/ exponent
      \/ (scanIdentifier /\ ~At("ident"))
    <2>1. ~(Call \/ scan \/ scanned \/ trie \/ incAsLongAs \/ startWithStub)
        BY DEF Counted, Numeric, Call, scan, scanned, trie, incAsLongAs, IncNext, IncErrored,
               IncStop, startWithStub, At
    <2>2. ~(startWithSlash \/ scanVersionDigits \/ comment \/ startWithStar \/ startWithSharp)
        BY DEF Counted, Numeric, startWithSlash, scanVersionDigits, comment, startWithStar,
               startWithSharp, At
    <2>3. ~(startWithXx \/ startWithBb \/ prefix \/ startWithNn \/ openQuotedIdent \/ scanQuotedIdent)
        BY DEF Counted, Numeric, startWithXx, startWithBb, prefix, startWithNn, openQuotedIdent,
               scanQuotedIdent, At
    <2>4. ~(startString \/ scanString \/ afterQuote \/ handleEscape \/ writeString
            \/ scanIdentifierOrString)
        BY DEF Counted, Numeric, startString, scanString, afterQuote, handleEscape, writeString,
               scanIdentifierOrString, At
    <2>5. ~At("number") /\ ~At("ident")
        BY DEF Counted, Numeric, At
    <2> QED
        BY <2>1, <2>2, <2>3, <2>4, <2>5 DEF Scanning
<1>3. \A l : Goto(l).pc = l
    BY <1>1 DEF Goto, Frame
<1>4. \A f, p, l : f \in Frame => Inc(f, p, l).pc = "inc"
    BY DEF Inc, Frame
<1>6. CASE startWithNumber /\ ~At("number")
    <2>1. fr'.pc \in {"digits", "inc", "float"}
        BY <1>1, <1>6 DEF startWithNumber, Step, Inc, Goto, Frame, At
    <2> QED
        BY <2>1
<1>7. CASE radixEnd
    BY <1>1, <1>3, <1>4, <1>7 DEF radixEnd, Step
<1>8. CASE numberTail
    BY <1>1, <1>3, <1>4, <1>8 DEF numberTail, Step, Return, Result, NumberReturns, At
<1>9. CASE scanFloat
    BY <1>1, <1>3, <1>4, <1>9 DEF scanFloat, Step, Return, Result, NumberReturns, At
<1>10. CASE exponent
    BY <1>1, <1>3, <1>4, <1>10 DEF exponent, Step, Return, Result, NumberReturns, At
<1>11. CASE scanIdentifier /\ ~At("ident")
    BY <1>1, <1>11 DEF scanIdentifier, Return, Result, NumberReturns, At
<1> QED
    BY <1>2, <1>6, <1>7, <1>8, <1>9, <1>10, <1>11

\* A call that returns a number.
LEMMA NumberReturn ==
    ASSUME Known, Numbered(rd, fr), Scanning \/ Call, fr'.pc = "idle"
    PROVE  NumberTokens'
<1> DEFINE s == rd.slice
           b == fr.pos.offset
           e == rd.index
           c == Peek(rd)
<1> SUFFICES ASSUME out'.begin < Len(text'), Clean(text'), isDigit(text'[out'.begin + 1])
             PROVE  /\ out'.lit = SubSeq(text', out'.begin + 1, out'.to)
                    /\ NumberForm(out'.tok, out'.lit, Follows', text', out'.begin)
                    /\ ~isDigit(Follows')
    BY DEF NumberTokens, NumberForm, IntegerToken, HexToken, BitToken, DecimalToken, DigitWord
<1>0. /\ ScanInv /\ Ahead(rd, fr) /\ Paced(rd, fr) /\ Led(rd, fr)
      /\ ReaderInv(rd) /\ s \in Seq(Byte) /\ Len(s) \in Nat /\ b \in Nat /\ fr \in Frame
      /\ e \in Nat /\ e <= Len(s)
    <2>1. ScanInv /\ Ahead(rd, fr) /\ Paced(rd, fr) /\ Led(rd, fr)
        BY DEF Known
    <2> QED
        BY <2>1, Found, ReaderFields DEF ReaderInv
<1>1. /\ fr.pc \in Ends /\ Stage(fr) = fr.pc
      /\ text' = s /\ out'.to = rd'.index /\ out'.begin = b /\ b < Len(s)
      /\ LedBy(fr.pc, Handler(FirstRune(rd, fr)))
      /\ fr.pc = "trie" => Handler(FirstRune(rd, fr)) = "none"
    BY <1>0, ReturnedLed DEF text
<1>2. isDigit(FirstRune(rd, fr))
    <2>1. s[b + 1] \in 1 .. 127 /\ isDigit(s[b + 1])
        BY <1>1, ByteClasses
    <2>2. FirstRune(rd, fr) = s[b + 1]
        BY <1>0, <1>1, <2>1, AsciiRunes DEF FirstRune
    <2> QED
        BY <2>1, <2>2
<1>3. fr.pc \in Counted
    <2>1. Handler(FirstRune(rd, fr)) = "number"
        BY <1>2, NumberHandler
    <2>2. fr.pc # "trie"
        BY <1>1, <2>1
    <2>3. fr.pc \notin Quoting \cup Stringing \cup Slashing \cup {"star2", "nnEnd", "stub", "prefixEnd"}
        BY <1>1, <2>1, LedFacts
    <2> HIDE DEF s, b, e, c
    <2> QED
        BY <1>1, <2>2, <2>3 DEF Ends, Steady, Quoting, Stringing, Slashing, PastFirst, Counted
<1>4. PICK tok : NumberReturns(tok)
    BY <1>0, <1>3, NumberReturned
<1>5. out'.lit = SubSeq(s, b + 1, e) /\ out'.to = e /\ out'.tok = tok
    BY <1>1, <1>4 DEF NumberReturns, Data
<1>6. Follows' = c
    BY <1>0, <1>1, <1>5, SMT DEF Follows, Peek, Eof
<1>7. c # rune_invalid
    <2>1. CASE Eof(rd)
        BY <2>1 DEF Peek, rune_eof, rune_invalid
    <2>2. CASE ~Eof(rd)
        <3>1. e < Len(s) /\ e + 1 \in DOMAIN s /\ e \in 0 .. Len(s) - 1 /\ c = RuneAt(s, e)
            BY <1>0, <2>2, SMT DEF Eof, Peek
        <3>2. s[e + 1] # 0 /\ (IsMultibyte(s, e) => DecodeValue(s, e) # rune_invalid)
            BY <1>1, <3>1 DEF Clean
        <3>3. ~IsMultibyte(s, e) => DecodeValue(s, e) = s[e + 1] /\ s[e + 1] \in Byte
            <4>1. s[e + 1] \in Byte
                BY <1>0, <3>1
            <4> QED
                BY <4>1 DEF DecodeValue, DecodeWidth
        <3>4. rune_invalid \notin Byte /\ rune_bom \notin Byte
            BY SMT DEF rune_invalid, rune_bom, Byte
        <3>5. IsMultibyte(s, e) => DecodeValue(s, e) # rune_bom
            BY <1>1, <3>1 DEF Clean
        <3>6. DecodeValue(s, e) # rune_invalid /\ DecodeValue(s, e) # rune_bom
            BY <3>2, <3>3, <3>4, <3>5
        <3> QED
            BY <3>1, <3>2, <3>6 DEF RuneAt
    <2> QED
        BY <2>1, <2>2
<1>8. isIdentChar(c) => ~is_errored(c)
    BY <1>7, Readable
<1>9. e = b => isDigit(c)
    BY <1>0, <1>2, <1>3, NumberFound, <1>1
<1>10. b <= e
    BY <1>0, Found
<1>11. CASE fr.pc = "numberTail"
    <2>1. LiteralIn(s, b, e, tok) /\ ~isDigit(c)
        BY <1>1, <1>2, <1>3, <1>4, <1>11 DEF Numbered, NumberReturns
    <2>3. c # Dot /\ ~isIdentChar(c)
        <3>1. ~isIdentChar(rune_eof)
            BY SMT DEF isIdentChar, isLetter, isDigit, isIdentExtend, rune_eof
        <3>2. Eof(rd) => c = rune_eof
            BY DEF Peek
        <3> QED
            BY <1>4, <1>11, <3>1, <3>2 DEF NumberReturns
    <2>2. NumberForm(tok, SubSeq(s, b + 1, e), c, s, b)
        <3>1. CASE tok = tok_intLit /\ b < e /\ AllIn(s, b, e, Digits)
            BY <1>0, <2>3, <3>1, IntegerText, NumberForms
        <3>2. CASE b + 2 < e /\ RadixIn(s, b, e, tok)
            <4>1. tok \in {tok_hexLit, tok_bitLit}
                BY <3>2 DEF RadixIn
            <4>2. IsRadix(SubSeq(s, b + 1, e), RadixLetters(tok), RadixDigits(tok))
                BY <1>0, <3>2, RadixText
            <4> QED
                BY <2>3, <4>1, <4>2, NumberForms
        <3> QED
            BY <2>1, <3>1, <3>2 DEF LiteralIn
    <2> QED
        BY <1>1, <1>5, <1>6, <2>1, <2>2
<1>12. CASE fr.pc = "exponent"
    <2>1. /\ DecimalIn(s, b, e) /\ ~isDigit(c) /\ tok = tok_decLit /\ c \notin {101, 69}
          /\ Pointed(s, b, e) \/ (e = b + 1 /\ RadixAhead(s, b))
        BY <1>1, <1>2, <1>3, <1>4, <1>12 DEF Numbered, NumberReturns
    <2>2. NumberForm(tok, SubSeq(s, b + 1, e), c, s, b)
        <3>1. CASE Pointed(s, b, e)
            <4>1. IsDecimal(SubSeq(s, b + 1, e))
                BY <1>0, <2>1, DecimalText
            <4>2. ~AllDigits(SubSeq(s, b + 1, e))
                BY <1>0, <1>10, <3>1, PointedText
            <4> QED
                BY <2>1, <4>1, <4>2, NumberForms
        <3>2. CASE e = b + 1 /\ RadixAhead(s, b)
            <4>1. SubSeq(s, b + 1, e) = <<s[b + 1]>>
                <5>1. SubSeq(s, b + 1, b + 1) = <<s[b + 1]>>
                    BY <1>0, <1>1, OneByte
                <5> QED
                    BY <3>2, <5>1
            <4>2. SubSeq(s, b + 1, e) = <<48>> /\ GoesOnAsFloat(s, b)
                BY <3>2, <4>1 DEF RadixAhead
            <4> QED
                BY <2>1, <4>2, NumberForms
        <3> QED
            BY <2>1, <3>1, <3>2
    <2> QED
        BY <1>1, <1>5, <1>6, <2>1, <2>2
<1>13. CASE fr.pc = "floatEnd"
    <2>1. ~isDigit(c) /\ tok = tok_floatLit
        BY <1>1, <1>2, <1>3, <1>4, <1>13 DEF Numbered, NumberReturns
    <2>2. PICK x \in b .. e : PowerIn(s, b, x) /\ AllIn(s, x, e, Digits) /\ x < e
        BY <1>1, <1>2, <1>3, <1>13, <2>1 DEF Numbered
    <2>3. x \in Nat
        BY <1>0, <2>2, SMT
    <2>4. NumberForm(tok, SubSeq(s, b + 1, e), c, s, b)
        BY <1>0, <2>1, <2>2, <2>3, FloatText, NumberForms
    <2> QED
        BY <1>1, <1>5, <1>6, <2>1, <2>4
<1>14. CASE fr.pc = "identEnd"
    <2>1. AllIn(s, b, e, WordBytes) /\ Spoilt(s, b) /\ ~isIdentChar(c) /\ tok = tok_identifier
        BY <1>1, <1>2, <1>3, <1>4, <1>8, <1>14 DEF Numbered, NumberReturns
    <2>2. ~isDigit(c)
        BY <2>1, Readable
    <2>3. b < e
        BY <1>0, <1>9, <1>10, <2>2, SMT
    <2>4. e < Len(s) => c = RuneAt(s, e)
        BY <1>0, NextByte
    <2>5. LET lit == SubSeq(s, b + 1, e)
          IN  /\ \A k \in {tok_hexLit, tok_bitLit} : ~IsRadix(lit, RadixLetters(k), RadixDigits(k))
              /\ ~IsFloat(lit)
              /\ IsInteger(lit) => c = Dot /\ LacksExponent(s, b)
        BY <1>0, <2>1, <2>3, <2>4, SpoiltRadixWord, SpoiltIntegerWord, SpoiltFloatWord DEF Spoilt
    <2>6. IsWord(SubSeq(s, b + 1, e))
        BY <1>0, <2>1, <2>3, WordText
    <2>7. NumberForm(tok, SubSeq(s, b + 1, e), c, s, b)
        BY <2>1, <2>5, <2>6, NumberForms
    <2> QED
        BY <1>1, <1>5, <1>6, <2>1, <2>2, <2>7
<1> QED
    BY <1>4, <1>11, <1>12, <1>13, <1>14 DEF NumberReturns

\* A token that begins with a digit has the form its kind promises and stops where
\* that kind must, whatever the statement: through each of the nine stages of the
\* handler, those that give back what they have read included.  What comes out
\* otherwise - a decimal 0 for 0x1. and 0b1e, an identifier of digits for 1.e - comes
\* out on no other texts.
THEOREM ScannerNumberTokens == ScanSpec => []NumberTokens
<1>1. Init => Numbered(rd, fr) /\ NumberTokens
    <2> SUFFICES ASSUME Init
                 PROVE  Numbered(rd, fr) /\ NumberTokens
        OBVIOUS
    <2>1. Stage(fr) = "idle"
        BY DEF Init, NoFrame, Stage
    <2>2. Numbered(rd, fr)
        BY <2>1 DEF Numbered, Counted, Numeric
    <2>3. ~Returned
        BY DEF Init, Returned
    <2> QED
        BY <2>2, <2>3 DEF NumberTokens
<1>2. Known /\ Numbered(rd, fr) /\ NumberTokens /\ [Scanning \/ Call]_vars
      => Numbered(rd, fr)' /\ NumberTokens'
    <2>1. UNCHANGED vars => UNCHANGED <<rd, fr, out>>
        BY DEF vars
    <2>2. Numbered(rd, fr) /\ UNCHANGED <<rd, fr, out>> => Numbered(rd, fr)'
        OBVIOUS
    <2>3. NumberTokens /\ UNCHANGED <<rd, fr, out>> => NumberTokens'
        BY DEF NumberTokens, IntegerToken, HexToken, BitToken, DecimalToken, DigitWord, Returned,
               At, text, Follows
    <2>4. Known /\ Numbered(rd, fr) /\ (Scanning \/ Call) => NumberTokens'
        <3>1. fr'.pc # "idle" => NumberTokens'
            BY DEF NumberTokens, Returned, At
        <3> QED
            BY <3>1, NumberReturn
    <2> QED
        BY <2>1, <2>2, <2>3, <2>4, NextNumbered
<1> QED
    BY <1>1, <1>2, ScannerKnown, PTL DEF ScanSpec
=============================================================================
