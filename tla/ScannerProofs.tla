--------------------------- MODULE ScannerProofs ---------------------------
(***************************************************************************)
(* What holds of every step of Scanner, for every set of statements.  The  *)
(* first part has the inductive invariant, what a step may do with the     *)
(* reader and with the frame of the running call, and the theorems about   *)
(* positions and the refinement.  The second is about the way of a call to *)
(* its token: a handler that calls scan() again has read something first,  *)
(* a bang comment is open only where the statement has opened one, a call  *)
(* consumes something unless what is next starts no token, and it comes to *)
(* an end.                                                                 *)
(***************************************************************************)
EXTENDS ScannerProps, TextLaws

\* A reader that can also go back to its start, and whose columns are right:
\* the scanner never calls move_next.
Lives(r) == ReaderInv(r) /\ Columned(r) /\ Saved(r, Origin)

\* fr.pos is where the running call takes its token to begin.
Begun(f) ==
    /\ f.pc \notin {"idle", "scan", "scanned"}
    /\ f.pc = "inc" => f.ret \notin {"scan", "scanned"}

\* The frame of a call beside the reader: the position it saved can be gone
\* back to, so can the mark of a version comment, which lies behind it, and the
\* call has moved on from where it started.  Without a call nothing is saved.
GoodFrame(r, f) ==
    /\ f \in Frame
    /\ f.pc = "idle" => f.pos = Origin /\ f.from = 0
    /\ Saved(r, f.pos)
    /\ f.pc = "version" => Saved(r, f.mark) /\ f.pos.offset <= f.mark.offset
    /\ f.pc = "inc" => f.ret \notin {"idle", "version"}
    /\ f.from <= r.index
    /\ Begun(f) => f.from <= f.pos.offset

\* What is left of the state has its type.
Settled ==
    /\ inBang \in BOOLEAN
    /\ sqlMode \in SQLMode
    /\ buf \in Seq(Byte)
    /\ out \in Token

ScanInv == Lives(rd) /\ GoodFrame(rd, fr) /\ Settled

\* A reader that the running call can go on with: over the same text, past
\* where the call started, and able to go back to the position it saved.
OnCourse(r) ==
    /\ Lives(r)
    /\ Saved(r, fr.pos)
    /\ r.slice = rd.slice
    /\ fr.from <= r.index

\* A frame that goes on with the same token.
Continues(f) ==
    /\ f \in Frame
    /\ f.pos = fr.pos
    /\ f.from = fr.from
    /\ f.pc \notin {"idle", "version"}
    /\ f.pc = "inc" => f.ret \notin {"idle", "version"}

\* A frame that takes the token to begin at the index.
Begins(f) ==
    /\ f \in Frame
    /\ f.pos = rd.pos
    /\ f.from = fr.from
    /\ f.pc \notin {"idle", "version"}
    /\ f.pc = "inc" => f.ret \notin {"idle", "version"}

\* A step is good if it keeps the invariant and yields, at most, the next
\* extent of the stream of tokens.
Good == ScanInv' /\ [Stream!Next]_(Stream!vars)

-----------------------------------------------------------------------------
(* The reader. *)

\* The start of the text is a position.
LEMMA OriginFacts == Origin \in Pos /\ Origin.offset = 0
BY SMT DEF Origin, Pos

\* Looking ahead and reading on stay on course.
LEMMA OnCourseMoves ==
    ASSUME fr \in Frame, NEW r, OnCourse(r)
    PROVE  OnCourse(Peeked(r)) /\ OnCourse(Advance(r))
<1>1. ReaderInv(r) /\ Columned(r) /\ Saved(r, Origin) /\ Saved(r, fr.pos)
    BY DEF OnCourse, Lives
<1>2. OnCourse(Peeked(r))
    <2>1. /\ ReaderInv(Peeked(r)) /\ Peeked(r).slice = r.slice /\ Peeked(r).index = r.index
          /\ Peeked(r).idx2pos = r.idx2pos
        BY <1>1, PeekedInv
    <2>2. Saved(Peeked(r), Origin) /\ Saved(Peeked(r), fr.pos)
        BY <1>1, <2>1 DEF Saved
    <2> QED
        BY <1>1, <2>1, <2>2, PeekedColumned DEF OnCourse, Lives
<1>3. OnCourse(Advance(r))
    <2>1. /\ ReaderInv(Advance(r)) /\ Advance(r).slice = r.slice
          /\ r.index <= Advance(r).index
          /\ Saved(Advance(r), Origin) /\ Saved(Advance(r), fr.pos)
        BY <1>1, AdvanceInv
    <2>2. fr.from \in Nat /\ r.index \in Nat /\ Advance(r).index \in Nat
        BY <1>1, <2>1, ReaderFields DEF ReaderInv, Frame
    <2>3. fr.from <= r.index
        BY DEF OnCourse
    <2>4. fr.from <= Advance(r).index
        BY <2>1, <2>2, <2>3, SMT
    <2> QED
        BY <1>1, <2>1, <2>4, AdvanceColumned DEF OnCourse, Lives
<1> QED
    BY <1>2, <1>3

\* So does going back to the position saved.
LEMMA OnCourseBack ==
    ASSUME fr \in Frame, fr.from <= fr.pos.offset, NEW r, OnCourse(r)
    PROVE  OnCourse(UpdatePos(r, fr.pos))
<1>1. ReaderInv(r) /\ Columned(r) /\ Saved(r, Origin) /\ Saved(r, fr.pos)
    BY DEF OnCourse, Lives
<1>2. fr.pos \in Pos /\ fr.pos.offset \in Nat
    BY <1>1 DEF Saved, Pos
<1>3. Origin.offset <= fr.pos.offset /\ fr.pos.offset <= fr.pos.offset
    BY <1>2, OriginFacts, SMT
<1> DEFINE new == UpdatePos(r, fr.pos)
<1>4. /\ ReaderInv(new) /\ new.slice = r.slice /\ new.index = fr.pos.offset
      /\ Saved(new, Origin) /\ Saved(new, fr.pos) /\ Columned(new)
    BY <1>1, <1>3, UpdatePosLands, UpdatePosColumned
<1> HIDE DEF new
<1>5. fr.from <= new.index
    BY <1>4
<1>6. OnCourse(new)
    BY <1>4, <1>5 DEF OnCourse, Lives
<1> QED
    BY <1>6 DEF new

\* The reader is on course between any two steps.
LEMMA OnCourseNow ==
    ASSUME ScanInv
    PROVE  /\ OnCourse(rd)
           /\ Saved(rd, rd.pos)
           /\ rd.pos.offset = rd.index
           /\ fr \in Frame
<1>1. ReaderInv(rd)
    BY DEF ScanInv, Lives
<1> QED
    BY <1>1, PosSaved DEF ScanInv, GoodFrame, OnCourse

-----------------------------------------------------------------------------
(* The frame. *)

\* The labels that a handler can go to by name.
Plain == Labels \ {"idle", "version", "inc"}

\* A handler goes to another label, with or without a new rune in ch.
LEMMA GotoContinues ==
    ASSUME fr \in Frame, NEW label \in Plain, NEW c \in Rune
    PROVE  /\ Continues(Goto(label))
           /\ Continues([Goto(label) EXCEPT !.ch = c])
<1>1. Continues(Goto(label))
    BY DEF Plain, Goto, Continues, Frame
<1>2. Continues([Goto(label) EXCEPT !.ch = c])
    BY DEF Plain, Goto, Continues, Frame
<1> QED
    BY <1>1, <1>2

\* A handler saves the position at index as that of its token.
LEMMA SaveBegins ==
    ASSUME fr \in Frame, rd.pos \in Pos, NEW label \in Plain
    PROVE  Begins(Save(label))
BY DEF Plain, Begins, Save, Frame

\* A handler calls incAsLongAs and goes on at ret.
LEMMA IncContinues ==
    ASSUME NEW f, Continues(f), NEW pred \in Predicates, NEW ret \in Plain
    PROVE  Continues(Inc(f, pred, ret))
<1>1. "inc" \in Labels
    BY DEF Labels
<1> QED
    BY <1>1 DEF Plain, Continues, Inc, Frame

\* The same, having just saved the position.
LEMMA IncBegins ==
    ASSUME NEW f, Begins(f), NEW pred \in Predicates, NEW ret \in Plain
    PROVE  Begins(Inc(f, pred, ret))
<1>1. "inc" \in Labels
    BY DEF Labels
<1> QED
    BY <1>1 DEF Plain, Begins, Inc, Frame

\* A frame between two steps of a handler continues itself.
LEMMA FrameContinues ==
    ASSUME ScanInv, fr.pc \notin {"idle", "version"}
    PROVE  Continues(fr)
BY DEF ScanInv, GoodFrame, Continues

\* On a course a frame that continues the token is good, or one that looks for
\* the next.
LEMMA ContinuesIsGood ==
    ASSUME GoodFrame(rd, fr), NEW r, OnCourse(r), NEW f, Continues(f),
           Begun(fr) \/ ~ Begun(f)
    PROVE  GoodFrame(r, f)
<1>1. Begun(f) => f.from <= f.pos.offset
    BY DEF GoodFrame, Continues
<1> QED
    BY <1>1 DEF OnCourse, GoodFrame, Continues

\* So is one that begins the token at the index.
LEMMA BeginsIsGood ==
    ASSUME ScanInv, NEW r, OnCourse(r), Saved(r, rd.pos), NEW f, Begins(f)
    PROVE  GoodFrame(r, f)
<1>1. rd.pos.offset = rd.index /\ fr.from <= rd.index
    BY OnCourseNow DEF OnCourse
<1>2. f.from <= f.pos.offset
    BY <1>1 DEF Begins
<1> QED
    BY <1>2 DEF OnCourse, GoodFrame, Begins

-----------------------------------------------------------------------------
(* The steps. *)

\* A step inside a call stutters in the stream.
LEMMA StepIsGood ==
    ASSUME ScanInv, ~ At("idle"),
           OnCourse(rd'), GoodFrame(rd', fr'), fr'.pc # "idle", fr'.from = fr.from,
           inBang' \in BOOLEAN, buf' \in Seq(Byte),
           UNCHANGED <<sqlMode, out>>
    PROVE  Good
<1>1. ScanInv'
    BY DEF ScanInv, Settled, OnCourse
<1>2. UNCHANGED Stream!vars
    <2>1. text' = text
        BY DEF OnCourse, text
    <2> QED
        BY <2>1 DEF At, Stream!vars
<1> QED
    BY <1>1, <1>2 DEF Good

\* A handler goes on with its token.
LEMMA GoesOn ==
    ASSUME ScanInv, ~ At("idle"), NEW r, OnCourse(r), NEW f, Continues(f),
           Begun(fr) \/ ~ Begun(f),
           Step(r, f) \/ \E b \in Seq(Byte) : StepBuf(r, f, b)
    PROVE  Good
<1>1. rd' = r /\ fr' = f /\ buf' \in Seq(Byte) /\ UNCHANGED <<inBang, sqlMode, out>>
    BY DEF Step, StepBuf, ScanInv, Settled
<1>2. GoodFrame(r, f)
    BY ContinuesIsGood DEF ScanInv
<1>3. f.pc # "idle" /\ f.from = fr.from
    BY DEF Continues
<1>4. inBang' \in BOOLEAN
    BY <1>1 DEF ScanInv, Settled
<1> QED
    BY <1>1, <1>2, <1>3, <1>4, StepIsGood

\* A handler begins its token.
LEMMA GoesBegin ==
    ASSUME ScanInv, ~ At("idle"), NEW r, OnCourse(r), Saved(r, rd.pos), NEW f, Begins(f),
           Step(r, f) \/ \E b \in Seq(Byte) : StepBuf(r, f, b)
    PROVE  Good
<1>1. rd' = r /\ fr' = f /\ buf' \in Seq(Byte) /\ UNCHANGED <<inBang, sqlMode, out>>
    BY DEF Step, StepBuf, ScanInv, Settled
<1>2. GoodFrame(r, f)
    BY BeginsIsGood
<1>3. f.pc # "idle" /\ f.from = fr.from
    BY DEF Begins
<1>4. inBang' \in BOOLEAN
    BY <1>1 DEF ScanInv, Settled
<1> QED
    BY <1>1, <1>2, <1>3, <1>4, StepIsGood

\* A handler looks for the next token of the same call: the bang comment is
\* opened or closed.
LEMMA RescanIsGood ==
    ASSUME ScanInv, ~ At("idle"), NEW r, OnCourse(r), NEW bang \in BOOLEAN, Rescan(r, bang)
    PROVE  Good
<1>1. /\ rd' = r /\ fr' = Goto("scan") /\ inBang' = bang
      /\ UNCHANGED <<sqlMode, buf, out>>
    BY DEF Rescan
<1>2. "scan" \in Plain
    BY DEF Plain, Labels
<1>3. 0 \in Rune
    BY RuneFacts, SMT
<1>4. Continues(Goto("scan"))
    BY <1>2, <1>3, OnCourseNow, GotoContinues
<1>5. Goto("scan").pc = "scan"
    BY DEF Goto, ScanInv, GoodFrame, Frame
<1>6. ~ Begun(Goto("scan"))
    BY <1>5 DEF Begun
<1>7. GoodFrame(r, Goto("scan"))
    BY <1>4, <1>6, ContinuesIsGood DEF ScanInv
<1>8. buf' \in Seq(Byte) /\ inBang' \in BOOLEAN /\ UNCHANGED <<sqlMode, out>>
    BY <1>1 DEF ScanInv, Settled
<1>9. fr'.pc # "idle" /\ fr'.from = fr.from
    BY <1>1, <1>4 DEF Continues
<1> QED
    BY <1>1, <1>7, <1>8, <1>9, StepIsGood

\* When no call is running the frame is blank.
LEMMA NoFrameGood ==
    ASSUME NEW r, Lives(r)
    PROVE  GoodFrame(r, NoFrame)
<1>1. 0 \in Rune /\ 0 \in Nat
    BY RuneFacts, SMT
<1>2. "idle" \in Labels /\ "none" \in Predicates /\ << >> \in Seq(Byte)
    BY SMT DEF Labels, Predicates
<1>3. NoFrame \in Frame
    BY <1>1, <1>2, OriginFacts DEF NoFrame, Frame
<1>4. NoFrame.pc = "idle" /\ NoFrame.pos = Origin /\ NoFrame.from = 0
    BY DEF NoFrame
<1>5. 0 <= r.index
    BY ReaderFields, SMT DEF Lives, ReaderInv
<1> QED
    BY <1>3, <1>4, <1>5 DEF GoodFrame, Lives, Begun

\* A call that returns a token from begin to the index gives the stream its
\* next extent.
LEMMA ResultIsGood ==
    ASSUME ScanInv, ~ At("idle"), NEW r, OnCourse(r),
           NEW tok \in Int, NEW pos \in Pos, NEW lit \in Seq(Byte), NEW begin \in Nat,
           fr.from <= begin, begin <= r.index,
           Result(r, tok, pos, lit, begin)
    PROVE  Good
<1>1. /\ rd' = r /\ fr' = NoFrame /\ UNCHANGED <<inBang, sqlMode, buf>>
      /\ out' = [tok |-> tok, pos |-> pos, lit |-> lit, begin |-> begin,
                 from |-> fr.from, to |-> r.index, fromBang |-> fr.fromBang]
    BY DEF Result
<1>2. /\ r.index \in Nat /\ r.index <= Len(rd.slice) /\ Len(rd.slice) \in Nat
      /\ fr.from \in Nat /\ fr.fromBang \in BOOLEAN
    BY OnCourseNow, ReaderFields DEF OnCourse, Lives, ReaderInv, Frame
<1>3. out' \in Token
    BY <1>1, <1>2 DEF Token
<1>4. ScanInv'
    <2>1. Lives(rd') /\ GoodFrame(rd', fr')
        BY <1>1, NoFrameGood DEF OnCourse
    <2> QED
        BY <1>1, <1>3, <2>1 DEF ScanInv, Settled
<1>5. Stream!Token
    <2>1. text' = text /\ text = rd.slice
        BY <1>1 DEF OnCourse, text
    <2>2. (IF At("idle") THEN rd.index ELSE fr.from) = fr.from
        OBVIOUS
    <2>3. (IF At("idle") THEN rd.index ELSE fr.from)' = r.index
        BY <1>1 DEF At, NoFrame
    <2>4. <<out.begin, out.to>>' = <<begin, r.index>>
        BY <1>1
    <2>5. begin \in fr.from .. Len(text) /\ r.index \in fr.from .. Len(text)
        BY <1>2, <2>1, SMT
    <2> QED
        BY <2>1, <2>2, <2>3, <2>4, <2>5 DEF Stream!Token
<1> QED
    BY <1>4, <1>5 DEF Good, Stream!Next

\* A handler returns its token.
LEMMA ReturnsToken ==
    ASSUME ScanInv, Begun(fr), NEW r, OnCourse(r), NEW tok \in Int, NEW lit \in Seq(Byte),
           Return(r, tok, fr.pos, lit)
    PROVE  Good
<1>1. ~ At("idle") /\ fr.from <= fr.pos.offset
    BY DEF Begun, At, ScanInv, GoodFrame
<1>2. fr.pos \in Pos /\ fr.pos.offset \in Nat /\ fr.pos.offset <= r.index
    BY DEF OnCourse, Saved, Pos
<1> QED
    BY <1>1, <1>2, ResultIsGood DEF Return

\* A handler returns an empty tuple.
LEMMA ReturnsNothing ==
    ASSUME ScanInv, Begun(fr), NEW r, OnCourse(r), ReturnNothing(r)
    PROVE  Good
<1>1. ~ At("idle") /\ fr.from <= fr.pos.offset
    BY DEF Begun, At, ScanInv, GoodFrame
<1>2. fr.pos \in Pos /\ fr.pos.offset \in Nat /\ fr.pos.offset <= r.index
    BY DEF OnCourse, Saved, Pos
<1>3. 0 \in Int /\ << >> \in Seq(Byte)
    BY SMT
<1> QED
    BY <1>1, <1>2, <1>3, OriginFacts, ResultIsGood DEF ReturnNothing

\* What every step of a handler starts from.
LEMMA Courses ==
    ASSUME ScanInv
    PROVE  /\ fr \in Frame
           /\ rd.pos \in Pos
           /\ OnCourse(rd)
           /\ OnCourse(Peeked(rd))
           /\ OnCourse(Advance(rd))
           /\ OnCourse(Advance(Peeked(rd)))
           /\ Saved(rd, rd.pos)
           /\ Saved(Advance(rd), rd.pos)
           /\ Advance(rd).pos \in Pos
           /\ Peek(rd) \in Rune
           /\ 0 \in Rune
<1>1. fr \in Frame /\ OnCourse(rd) /\ Saved(rd, rd.pos)
    BY OnCourseNow
<1>2. OnCourse(Peeked(rd)) /\ OnCourse(Advance(rd))
    BY <1>1, OnCourseMoves
<1>3. OnCourse(Advance(Peeked(rd)))
    BY <1>1, <1>2, OnCourseMoves
<1>4. ReaderInv(rd)
    BY <1>1 DEF OnCourse, Lives
<1>5. Saved(Advance(rd), rd.pos)
    BY <1>1, <1>4, AdvanceInv
<1>6. Peek(rd) \in Rune /\ 0 \in Rune
    BY <1>4, PeekInRune, RuneFacts, SMT
<1>7. rd.pos \in Pos /\ Advance(rd).pos \in Pos
    BY <1>1, <1>2, ReaderFields DEF Saved, OnCourse, Lives, ReaderInv
<1> QED
    BY <1>1, <1>2, <1>3, <1>5, <1>6, <1>7

-----------------------------------------------------------------------------
(* The values. *)

\* Runes are integers, and the tokens and characters the handlers name are
\* what their types say.
LEMMA ValueFacts ==
    /\ Rune \subseteq Int
    /\ rune_invalid \in Int
    /\ {tok_hexLit, tok_bitLit, tok_intLit} \subseteq Nat
    /\ {tok_identifier, tok_underscoreCS, tok_quotedIdentifier, tok_stringLit,
        tok_decLit, tok_floatLit, Slash, Star, 0} \subseteq Int
    /\ {<<Slash>>, <<Star>>, << >>, <<117, 116, 102, 56>>} \subseteq Seq(Byte)
<1>1. Rune \subseteq Int
    BY RuneFacts, SMT DEF Rune, rune_eof
<1>2. rune_invalid \in Int
    BY <1>1, RuneFacts
<1>3. tok_hexLit \in Nat /\ tok_bitLit \in Nat /\ tok_intLit \in Nat
    BY SMT DEF tok_hexLit, tok_bitLit, tok_intLit
<1>4. /\ tok_identifier \in Int /\ tok_underscoreCS \in Int /\ tok_quotedIdentifier \in Int
      /\ tok_stringLit \in Int /\ tok_decLit \in Int /\ tok_floatLit \in Int
      /\ Slash \in Int /\ Star \in Int /\ 0 \in Int
    BY SMT DEF tok_identifier, tok_underscoreCS, tok_quotedIdentifier, tok_stringLit,
               tok_decLit, tok_floatLit, Slash, Star
<1>5. Slash \in Byte /\ Star \in Byte /\ 117 \in Byte /\ 116 \in Byte /\ 102 \in Byte /\ 56 \in Byte
    BY SMT DEF Slash, Star, Byte
<1>6. /\ <<Slash>> \in Seq(Byte) /\ <<Star>> \in Seq(Byte) /\ << >> \in Seq(Byte)
      /\ <<117, 116, 102, 56>> \in Seq(Byte)
    BY <1>5, SMT
<1> QED
    BY <1>1, <1>2, <1>3, <1>4, <1>6

\* A part of a string of bytes is one.
LEMMA PartOfBytes ==
    ASSUME NEW s \in Seq(Byte), NEW n \in Int, n <= Len(s)
    PROVE  SubSeq(s, 2, n) \in Seq(Byte)
<1>1. Len(s) \in Nat /\ 2 \in Int
    BY LenProperties, SMT
<1>2. \A i \in 2 .. n : i \in 1 .. Len(s)
    BY <1>1, SMT
<1>3. \A i \in 2 .. n : s[i] \in Byte
    BY <1>2, ElementOfSeq
<1> QED
    BY <1>1, <1>3, SubSeqProperties

\* So are the parts of a literal between and behind its quotes.
LEMMA LiteralParts ==
    ASSUME NEW s \in Seq(Byte)
    PROVE  Inner(s) \in Seq(Byte) /\ Rest(s) \in Seq(Byte)
<1>1. Len(s) \in Nat
    BY LenProperties
<1>2. Len(s) - 1 \in Int /\ Len(s) - 1 <= Len(s) /\ Len(s) \in Int /\ Len(s) <= Len(s)
    BY <1>1, SMT
<1> QED
    BY <1>2, PartOfBytes DEF Inner, Rest

\* data yields bytes on every course.
LEMMA DataOnCourse ==
    ASSUME NEW r, OnCourse(r)
    PROVE  Data(r, fr.pos) \in Seq(Byte)
BY DataIsText DEF OnCourse, Lives, Saved

\* sputc appends a byte, whatever the rune.
LEMMA SputcBytes ==
    ASSUME NEW b \in Seq(Byte), NEW c \in Rune
    PROVE  sputc(b, c) \in Seq(Byte)
<1>1. c \in Int
    BY ValueFacts
<1>2. c % 256 \in Byte
    BY <1>1, SMT DEF Byte
<1> QED
    BY <1>2, AppendProperties DEF sputc

\* Every token of the trie is a number.
LEMMA NodeTokenIsInt ==
    ASSUME NEW node
    PROVE  NodeToken(node) \in Int
<1> DEFINE P(n) == n.text = node
<1>1. \A n \in TokenNodes : n.tok \in Int
    <2>1. \A n \in OperatorTokens : n.tok \in Int
        BY SMT DEF OperatorTokens, tok_paramMarker, tok_eq, tok_pipes, tok_andand, tok_andnot,
                   tok_assignmentEq, tok_nulleq, tok_ge, tok_le, tok_neq, tok_neqSynonym,
                   tok_lsh, tok_rsh, tok_null
    <2>2. \A c \in SelfTokens : c \in Int
        BY SMT DEF SelfTokens
    <2>3. tok_invalid \in Int
        BY SMT DEF tok_invalid
    <2> QED
        BY <2>1, <2>2, <2>3 DEF TokenNodes
<1>2. CASE \E n \in TokenNodes : P(n)
    <2>1. (CHOOSE n \in TokenNodes : P(n)) \in TokenNodes
        BY <1>2, Zenon
    <2> QED
        BY <1>1, <1>2, <2>1 DEF NodeToken
<1>3. CASE ~ \E n \in TokenNodes : P(n)
    BY <1>3, SMT DEF NodeToken
<1> QED
    BY <1>2, <1>3

\* writeRune appends to _buf, if at all, bytes.
LEMMA WriteRuneBytes ==
    ASSUME fr \in Frame, buf \in Seq(Byte), NEW w
    PROVE  writeRune(fr.ch, w) \in Seq(Byte)
<1>1. fr.ch \in Rune /\ fr.ch \in Int
    BY ValueFacts DEF Frame
<1>2. encode(fr.ch) \in Seq(Byte)
    BY <1>1, EncodeIsBytes
<1>3. fr.ch % 256 \in Byte
    <2>1. \A x \in Int : x % 256 \in Byte
        BY SMT DEF Byte
    <2> QED
        BY <1>1, <2>1
<1>4. <<fr.ch % 256>> \in Seq(Byte)
    BY <1>3
<1>5. buf \o encode(fr.ch) \in Seq(Byte) /\ buf \o <<fr.ch % 256>> \in Seq(Byte)
    BY <1>2, <1>4, ConcatProperties
<1> QED
    BY <1>5 DEF writeRune

\* handleEscape maps runes to runes.
LEMMA EscapedInRune ==
    ASSUME NEW c \in Rune
    PROVE  Escaped(c) \in Rune
<1>1. 10 \in Rune /\ 0 \in Rune /\ 8 \in Rune /\ 26 \in Rune /\ 13 \in Rune /\ 9 \in Rune
    <2>1. rune_max >= 26
        BY SMT DEF rune_max
    <2> QED
        BY <2>1, RuneFacts, SMT
<1> QED
    BY <1>1, SMT DEF Escaped

\* Every handler has a label of its own.
LEMMA HandlerLabels ==
    ASSUME NEW c
    PROVE  Stub(Handler(c)) \in Plain \/ Handler(c) = "none"
<1>1. Handler(c) \in {"at", "slash", "star", "dash", "sharp", "xx", "nn", "bb", "dot",
                      "quoted", "number", "string", "ident", "none"}
    BY DEF Handler
<1> QED
    BY <1>1 DEF Stub, Plain, Labels
-----------------------------------------------------------------------------
(* The moves that the handlers are made of. *)

\* A handler goes to another label.
LEMMA GoesTo ==
    ASSUME ScanInv, Begun(fr), NEW r, OnCourse(r), NEW label \in Plain,
           Step(r, Goto(label)) \/ \E b \in Seq(Byte) : StepBuf(r, Goto(label), b)
    PROVE  Good
<1>1. Continues(Goto(label))
    BY Courses, GotoContinues
<1>2. ~ At("idle")
    BY DEF Begun, At
<1> QED
    BY <1>1, <1>2, GoesOn

\* A handler goes to another label with a new rune.
LEMMA GoesWith ==
    ASSUME ScanInv, Begun(fr), NEW r, OnCourse(r), NEW label \in Plain, NEW c \in Rune,
           \/ Step(r, [Goto(label) EXCEPT !.ch = c])
           \/ \E b \in Seq(Byte) : StepBuf(r, [Goto(label) EXCEPT !.ch = c], b)
    PROVE  Good
<1> DEFINE f == [Goto(label) EXCEPT !.ch = c]
<1>1. Continues(f)
    BY Courses, GotoContinues
<1>2. ~ At("idle")
    BY DEF Begun, At
<1> HIDE DEF f
<1> QED
    BY <1>1, <1>2, GoesOn DEF f

\* A handler calls incAsLongAs.
LEMMA CallsInc ==
    ASSUME ScanInv, Begun(fr), ~ At("version"), NEW r, OnCourse(r),
           NEW pred \in Predicates, NEW ret \in Plain, Step(r, Inc(fr, pred, ret))
    PROVE  Good
<1>1. fr.pc \notin {"idle", "version"} /\ ~ At("idle")
    BY DEF Begun, At
<1>2. Continues(Inc(fr, pred, ret))
    BY <1>1, FrameContinues, IncContinues
<1> QED
    BY <1>1, <1>2, GoesOn

\* A handler saves the position and goes to another label.
LEMMA Saves ==
    ASSUME ScanInv, ~ At("idle"), NEW r, OnCourse(r), Saved(r, rd.pos), NEW label \in Plain,
           Step(r, Save(label)) \/ \E b \in Seq(Byte) : StepBuf(r, Save(label), b)
    PROVE  Good
<1>1. Begins(Save(label))
    BY Courses, SaveBegins
<1> QED
    BY <1>1, GoesBegin

\* A handler saves the position and calls incAsLongAs.
LEMMA SavesInc ==
    ASSUME ScanInv, ~ At("idle"), NEW label \in Plain, NEW pred \in Predicates,
           NEW ret \in Plain, Step(rd, Inc(Save(label), pred, ret))
    PROVE  Good
<1>1. Begins(Inc(Save(label), pred, ret))
    BY Courses, SaveBegins, IncBegins
<1> QED
    BY <1>1, Courses, GoesBegin

\* A handler goes back to the position it saved.
LEMMA GoesBack ==
    ASSUME ScanInv, Begun(fr), NEW r, OnCourse(r)
    PROVE  OnCourse(UpdatePos(r, fr.pos))
BY Courses, OnCourseBack DEF ScanInv, GoodFrame

-----------------------------------------------------------------------------
(* The actions. *)

\* reader.cc:140-151: incAsLongAs reads on, or stops and returns to its caller.
LEMMA IncIsGood == ScanInv /\ incAsLongAs => Good
<1> SUFFICES ASSUME ScanInv, incAsLongAs
             PROVE  Good
    OBVIOUS
<1>1. At("inc")
    BY DEF incAsLongAs, IncNext, IncErrored, IncStop
<1>2. ~ At("idle") /\ fr.pc \notin {"idle", "version"} /\ fr \in Frame
    BY <1>1, Courses DEF At
<1>3. CASE IncNext
    <2>1. Continues(fr)
        BY <1>2, FrameContinues
    <2> QED
        BY <1>2, <1>3, <2>1, Courses, GoesOn DEF IncNext
<1>4. ASSUME NEW c \in Rune, Step(Peeked(rd), [fr EXCEPT !.pc = fr.ret, !.ch = c])
      PROVE  Good
    <2> DEFINE f == [fr EXCEPT !.pc = fr.ret, !.ch = c]
    <2>1. fr.ret \notin {"idle", "version"}
        BY <1>1 DEF ScanInv, GoodFrame, At
    <2>2. f.pc = fr.ret /\ f.ret = fr.ret
        BY <1>2 DEF Frame
    <2>3. Continues(f)
        BY <1>2, <2>1 DEF Continues, Frame
    <2>4. Begun(fr) \/ ~ Begun(f)
        BY <1>1, <2>2 DEF Begun, At
    <2> HIDE DEF f
    <2> QED
        BY <1>2, <1>4, <2>3, <2>4, Courses, GoesOn DEF f
<1>5. CASE IncErrored
    BY <1>4, <1>5, Courses DEF IncErrored
<1>6. CASE IncStop
    BY <1>4, <1>6, Courses DEF IncStop
<1> QED
    BY <1>3, <1>5, <1>6 DEF incAsLongAs

\* scanner.cc:84-89: a call looks for a token with a fresh frame.
LEMMA ScanIsGood == ScanInv /\ scan => Good
<1> SUFFICES ASSUME ScanInv, scan
             PROVE  Good
    OBVIOUS
<1> DEFINE r == Peeked(rd)
<1>1. At("scan") /\ ~ At("idle")
    BY DEF scan, At
<1>2. fr \in Frame /\ OnCourse(r) /\ Peek(rd) \in Rune
    BY Courses
<1>3. /\ Fresh \in Frame /\ Fresh.from = fr.from /\ Fresh.pos = Origin
    <2>1. NoFrame \in Frame
        BY <1>2, NoFrameGood DEF GoodFrame, OnCourse
    <2>2. fr.from \in Nat /\ fr.fromBang \in BOOLEAN
        BY <1>2 DEF Frame
    <2>3. NoFrame.pos = Origin
        BY DEF NoFrame
    <2> HIDE DEF r
    <2> QED
        BY <2>1, <2>2, <2>3 DEF Fresh, Frame
<1>4. "scanned" \in Labels /\ "inc" \in Labels /\ "space" \in Predicates
    BY DEF Labels, Predicates
<1>5. ASSUME NEW f, f \in Frame, f.pos = Origin, f.from = fr.from,
             f.pc = "scanned" \/ (f.pc = "inc" /\ f.ret = "scanned"),
             Step(r, f)
      PROVE  Good
    <2>1. ~ Begun(f) /\ f.pc \notin {"version", "idle"}
        BY <1>5 DEF Begun
    <2>2. f.pc = "inc" => f.ret \notin {"idle", "version"}
        BY <1>5
    <2>3. GoodFrame(r, f)
        BY <1>2, <1>5, <2>1, <2>2 DEF GoodFrame, OnCourse, Lives
    <2>4. /\ rd' = r /\ fr' = f /\ UNCHANGED <<inBang, sqlMode, buf, out>>
        BY <1>5 DEF Step
    <2>5. inBang' \in BOOLEAN /\ buf' \in Seq(Byte)
        BY <2>4 DEF ScanInv, Settled
    <2> HIDE DEF r
    <2> QED
        BY <1>1, <1>2, <1>5, <2>1, <2>3, <2>4, <2>5, StepIsGood
<1> HIDE DEF r
<1>6. CASE is_space(Peek(rd))
    <2> DEFINE f == Inc(Fresh, "space", "scanned")
    <2>1. Step(r, f)
        BY <1>6 DEF scan, r
    <2>2. f \in Frame /\ f.pos = Origin /\ f.from = fr.from /\ f.pc = "inc" /\ f.ret = "scanned"
        BY <1>3, <1>4 DEF Inc, Frame
    <2> HIDE DEF f
    <2> QED
        BY <1>5, <2>1, <2>2
<1>7. CASE ~ is_space(Peek(rd))
    <2> DEFINE f == [Fresh EXCEPT !.pc = "scanned", !.ch = Peek(rd)]
    <2>1. Step(r, f)
        BY <1>7 DEF scan, r
    <2>2. f \in Frame /\ f.pos = Origin /\ f.from = fr.from /\ f.pc = "scanned"
        BY <1>2, <1>3, <1>4 DEF Frame
    <2> HIDE DEF f
    <2> QED
        BY <1>5, <2>1, <2>2
<1> QED
    BY <1>6, <1>7

\* scanner.cc:89-100: the end of the text, an identifier, or the trie.
LEMMA ScannedIsGood == ScanInv /\ scanned => Good
<1> SUFFICES ASSUME ScanInv, scanned
             PROVE  Good
    OBVIOUS
<1>1. ~ At("idle")
    BY DEF scanned, At
<1>2. CASE Return(rd, 0, rd.pos, << >>)
    <2>1. rd.pos.offset = rd.index /\ fr.from <= rd.index /\ rd.index \in Nat
        BY OnCourseNow, ReaderFields DEF OnCourse, Lives, ReaderInv
    <2>2. rd.index <= rd.index
        BY <2>1, SMT
    <2> QED
        BY <1>1, <1>2, <2>1, <2>2, Courses, ValueFacts, ResultIsGood DEF Return
<1>3. ASSUME NEW label \in {"ident", "trie"}, Step(rd, Save(label))
      PROVE  Good
    <2>1. label \in Plain
        BY DEF Plain, Labels
    <2>2. Begins(Save(label))
        BY <2>1, Courses, SaveBegins
    <2> QED
        BY <1>1, <1>3, <2>2, Courses, GoesBegin
<1> QED
    BY <1>2, <1>3 DEF scanned

\* scanner.cc:100-114: the walk down the trie.
LEMMA TrieIsGood == ScanInv /\ trie => Good
<1> SUFFICES ASSUME ScanInv, trie
             PROVE  Good
    OBVIOUS
<1>1. At("trie") /\ ~ At("idle") /\ Begun(fr)
    BY DEF trie, At, Begun
<1>2. fr.node \in Seq(Byte) /\ NodeToken(fr.node) \in Int
    BY Courses, NodeTokenIsInt DEF Frame
<1>3. CASE Return(rd, NodeToken(fr.node), fr.pos, Data(rd, fr.pos))
    BY <1>1, <1>2, <1>3, Courses, DataOnCourse, ReturnsToken
<1>4. CASE /\ Handler(fr.ch) # "none"
           /\ Step(rd, Goto(Stub(Handler(fr.ch))))
    <2>1. Continues(Goto(Stub(Handler(fr.ch))))
        BY <1>4, Courses, HandlerLabels, GotoContinues
    <2> QED
        BY <1>1, <1>4, <2>1, Courses, GoesOn
<1>5. CASE /\ fr.ch \in 0 .. 255
           /\ Step(Advance(rd), [fr EXCEPT !.node = Append(fr.node, fr.ch), !.ch = Peek(rd)])
    <2> DEFINE n == Append(fr.node, fr.ch)
               f == [fr EXCEPT !.node = n, !.ch = Peek(rd)]
    <2>1. fr.ch \in Byte
        BY <1>5 DEF Byte
    <2>2. n \in Seq(Byte)
        BY <1>2, <2>1, AppendProperties
    <2>3. Continues(fr)
        BY <1>1, FrameContinues DEF At
    <2> HIDE DEF n
    <2>4. Continues(f)
        BY <2>2, <2>3, Courses DEF Continues, Frame
    <2> HIDE DEF f
    <2> QED
        BY <1>1, <1>5, <2>4, Courses, GoesOn DEF f, n
<1> QED
    BY <1>3, <1>4, <1>5 DEF trie

\* lexer.cc:8-55: the handlers that are stubs.
LEMMA StubIsGood == ScanInv /\ startWithStub => Good
<1> SUFFICES ASSUME ScanInv, startWithStub
             PROVE  Good
    OBVIOUS
<1>1. Begun(fr)
    BY DEF startWithStub, At, Begun
<1> QED
    BY <1>1, Courses, ReturnsNothing DEF startWithStub

\* lexer.cc:57-119: the slash and what follows it.
LEMMA SlashIsGood == ScanInv /\ startWithSlash => Good
<1> SUFFICES ASSUME ScanInv, startWithSlash
             PROVE  Good
    OBVIOUS
<1>1. CASE At("slash") /\ Step(Advance(rd), Save("slash2"))
    <2>1. Begins(Save("slash2"))
        BY Courses, SaveBegins DEF Plain, Labels
    <2> QED
        BY <1>1, <2>1, Courses, GoesBegin DEF At
<1>2. CASE At("slash2") /\ Return(Peeked(rd), Slash, fr.pos, <<Slash>>)
    BY <1>2, Courses, ValueFacts, ReturnsToken DEF At, Begun
<1>3. CASE At("slash2") /\ Step(Advance(Peeked(rd)), Goto("slash3"))
    <2>1. Continues(Goto("slash3"))
        BY Courses, GotoContinues DEF Plain, Labels
    <2> QED
        BY <1>3, <2>1, Courses, GoesOn DEF At, Begun
<1>4. CASE /\ At("slash3")
           /\ Step(Advance(rd), [Goto("version") EXCEPT !.mark = Advance(rd).pos, !.i = 0])
    <2> DEFINE r == Advance(rd)
               f == [Goto("version") EXCEPT !.mark = r.pos, !.i = 0]
    <2>1. fr \in Frame /\ OnCourse(r) /\ r.pos \in Pos /\ ReaderInv(rd) /\ ReaderInv(r)
        BY Courses DEF OnCourse, Lives
    <2> HIDE DEF r
    <2>2. "version" \in Labels /\ 0 \in Nat
        BY DEF Labels
    <2>3. /\ f \in Frame /\ f.pc = "version" /\ f.pos = fr.pos /\ f.from = fr.from
          /\ f.mark = r.pos
        BY <2>1, <2>2 DEF Goto, Frame
    <2>4. fr.from <= fr.pos.offset /\ fr.pos.offset <= rd.index /\ rd.index <= r.index
        BY <1>4, <2>1, AdvanceInv DEF ScanInv, GoodFrame, Saved, Begun, At, r
    <2>5. Saved(r, r.pos) /\ r.pos.offset = r.index
        BY <2>1, PosSaved
    <2>6. fr.pos.offset <= r.pos.offset
        <3>1. fr.pos.offset \in Nat /\ rd.index \in Nat /\ r.index \in Nat
            BY <2>1, ReaderFields DEF Frame, Pos, ReaderInv
        <3> QED
            BY <2>4, <2>5, <3>1, SMT
    <2> HIDE DEF f
    <2>7. GoodFrame(r, f)
        BY <2>1, <2>3, <2>4, <2>5, <2>6 DEF GoodFrame, OnCourse
    <2>8. rd' = r /\ fr' = f /\ UNCHANGED <<inBang, sqlMode, buf, out>>
        BY <1>4 DEF Step, r, f
    <2>9. ~ At("idle") /\ inBang' \in BOOLEAN /\ buf' \in Seq(Byte)
        BY <1>4, <2>8 DEF At, ScanInv, Settled
    <2>10. fr'.pc # "idle" /\ fr'.from = fr.from
        BY <2>3, <2>8
    <2> QED
        BY <2>1, <2>7, <2>8, <2>9, <2>10, StepIsGood
<1>5. CASE /\ At("slash3")
           /\ Step(Advance(rd), [Goto("comment") EXCEPT !.star = Peek(rd) = Star])
    <2> DEFINE f == [Goto("comment") EXCEPT !.star = Peek(rd) = Star]
    <2>1. Continues(f)
        <3>1. Continues(Goto("comment"))
            BY Courses, GotoContinues DEF Plain, Labels
        <3> QED
            BY <3>1 DEF Continues, Frame
    <2> HIDE DEF f
    <2> QED
        BY <1>5, <2>1, Courses, GoesOn DEF At, Begun, f
<1> QED
    BY <1>1, <1>2, <1>3, <1>4, <1>5 DEF startWithSlash

\* scanner.cc:67-82: the version digits, read on or given back.
LEMMA VersionIsGood == ScanInv /\ scanVersionDigits => Good
<1> SUFFICES ASSUME ScanInv, scanVersionDigits
             PROVE  Good
    OBVIOUS
<1>1. At("version") /\ ~ At("idle")
    BY DEF scanVersionDigits, At
<1>2. /\ Saved(rd, fr.pos) /\ Saved(rd, fr.mark) /\ fr.pos.offset <= fr.mark.offset
      /\ fr.from <= fr.pos.offset
    BY <1>1 DEF ScanInv, GoodFrame, At, Begun
<1>3. fr \in Frame /\ ReaderInv(rd) /\ Saved(rd, Origin) /\ Columned(rd)
    BY Courses DEF OnCourse, Lives
<1>4. /\ ReaderInv(Peeked(rd)) /\ Peeked(rd).slice = rd.slice
      /\ Columned(Peeked(rd))
      /\ \A p : Saved(rd, p) => Saved(Peeked(rd), p)
    BY <1>3, PeekedInv, PeekedColumned DEF Saved
<1>5. CASE Step(Advance(Peeked(rd)), [fr EXCEPT !.i = fr.i + 1])
    <2> DEFINE r == Advance(Peeked(rd))
               f == [fr EXCEPT !.i = fr.i + 1]
    <2>1. OnCourse(r) /\ Saved(r, fr.mark)
        BY <1>2, <1>4, Courses, AdvanceInv
    <2>2. fr.i + 1 \in Nat
        BY <1>3, SMT DEF Frame
    <2>3. /\ f \in Frame /\ f.pc = fr.pc /\ f.pos = fr.pos /\ f.from = fr.from
          /\ f.mark = fr.mark
        BY <1>3, <2>2 DEF Frame
    <2>4. rd' = r /\ fr' = f /\ UNCHANGED <<inBang, sqlMode, buf, out>>
        BY <1>5 DEF Step
    <2> HIDE DEF r, f
    <2>5. GoodFrame(r, f)
        BY <1>1, <1>2, <2>1, <2>3 DEF GoodFrame, OnCourse, At
    <2>6. inBang' \in BOOLEAN /\ buf' \in Seq(Byte)
        BY <2>4 DEF ScanInv, Settled
    <2>7. fr'.pc # "idle" /\ fr'.from = fr.from
        BY <1>1, <2>3, <2>4 DEF At
    <2> QED
        BY <1>1, <2>1, <2>4, <2>5, <2>6, <2>7, StepIsGood
<1>6. CASE Rescan(UpdatePos(Peeked(rd), fr.mark), TRUE)
    <2> DEFINE r == UpdatePos(Peeked(rd), fr.mark)
    <2>1. fr.pos.offset \in Nat /\ fr.mark.offset \in Nat /\ fr.from \in Nat
        BY <1>3 DEF Frame, Pos
    <2>2. Origin.offset <= fr.mark.offset /\ fr.from <= fr.mark.offset
        BY <1>2, <2>1, OriginFacts, SMT
    <2>3. /\ ReaderInv(r) /\ r.slice = Peeked(rd).slice /\ r.index = fr.mark.offset
          /\ Saved(r, fr.pos) /\ Saved(r, Origin) /\ Columned(r)
        BY <1>2, <1>3, <1>4, <2>2, UpdatePosLands, UpdatePosColumned
    <2> HIDE DEF r
    <2>4. OnCourse(r)
        BY <1>4, <2>2, <2>3 DEF OnCourse, Lives
    <2> QED
        BY <1>1, <1>6, <2>4, RescanIsGood DEF r
<1>7. CASE \E r \in {rd, Peeked(rd)} : Rescan(r, TRUE)
    BY <1>1, <1>7, Courses, RescanIsGood
<1> QED
    BY <1>5, <1>6, <1>7 DEF scanVersionDigits

\* lexer.cc:121-146: the loop over a comment.
LEMMA CommentIsGood == ScanInv /\ comment => Good
<1> SUFFICES ASSUME ScanInv, comment
             PROVE  Good
    OBVIOUS
<1>1. Begun(fr) /\ ~ At("version") /\ ~ At("idle")
    BY DEF comment, At, Begun
<1>2. {"afterStar", "scan", "comment"} \subseteq Plain /\ "notStar" \in Predicates
    BY DEF Plain, Labels, Predicates
<1>3. Star \in Rune
    <2>1. rune_max >= 42
        BY SMT DEF rune_max
    <2> QED
        BY <2>1, RuneFacts, SMT DEF Star
<1>4. CASE Step(rd, Inc(fr, "notStar", "afterStar"))
    BY <1>1, <1>2, <1>4, Courses, CallsInc
<1>5. CASE Step(rd, [Goto("afterStar") EXCEPT !.ch = Star])
    BY <1>1, <1>2, <1>3, <1>5, Courses, GoesWith
<1>6. CASE ReturnNothing(rd)
    BY <1>1, <1>6, Courses, ReturnsNothing
<1>7. CASE Step(Advance(rd), Goto("scan"))
    BY <1>1, <1>2, <1>7, Courses, GoesTo
<1>8. CASE Step(Advance(rd), [Goto("comment") EXCEPT !.star = Peek(rd) = Star])
    <2> DEFINE f == [Goto("comment") EXCEPT !.star = Peek(rd) = Star]
    <2>1. Continues(Goto("comment"))
        BY <1>2, Courses, GotoContinues
    <2>2. Continues(f)
        BY <2>1 DEF Continues, Frame
    <2> HIDE DEF f
    <2> QED
        BY <1>1, <1>8, <2>2, Courses, GoesOn DEF f
<1> QED
    BY <1>4, <1>5, <1>6, <1>7, <1>8 DEF comment

\* lexer.cc:148-161: the star, or the end of a bang comment.
LEMMA StarIsGood == ScanInv /\ startWithStar => Good
<1> SUFFICES ASSUME ScanInv, startWithStar
             PROVE  Good
    OBVIOUS
<1>1. Begun(fr) /\ ~ At("idle")
    BY DEF startWithStar, At, Begun
<1>2. CASE Step(Advance(rd), Save("star2"))
    <2>1. "star2" \in Plain
        BY DEF Plain, Labels
    <2> QED
        BY <1>1, <1>2, <2>1, Courses, Saves
<1>3. CASE Rescan(Advance(Peeked(rd)), FALSE)
    BY <1>1, <1>3, Courses, RescanIsGood
<1>4. CASE \E r \in {rd, Peeked(rd)} : Return(r, Star, fr.pos, <<Star>>)
    BY <1>1, <1>4, Courses, ValueFacts, ReturnsToken
<1> QED
    BY <1>2, <1>3, <1>4 DEF startWithStar

\* lexer.cc:165-168: a comment up to the end of the line.
LEMMA SharpIsGood == ScanInv /\ startWithSharp => Good
<1> SUFFICES ASSUME ScanInv, startWithSharp
             PROVE  Good
    OBVIOUS
<1>1. Begun(fr) /\ ~ At("version")
    BY DEF startWithSharp, At, Begun
<1>2. "scan" \in Plain /\ "notNewline" \in Predicates
    BY DEF Plain, Labels, Predicates
<1> QED
    BY <1>1, <1>2, Courses, CallsInc DEF startWithSharp

\* lexer.cc:170-171, 205-206: the letter of a hexadecimal or a bit literal is
\* read.
LEMMA PrefixBeginsIsGood ==
    ASSUME ScanInv, ~ At("idle"), NEW tok \in Nat, NEW pred \in Predicates,
           Step(Advance(rd), [Save("prefix") EXCEPT !.tok = tok, !.pred = pred])
    PROVE  Good
<1> DEFINE f == [Save("prefix") EXCEPT !.tok = tok, !.pred = pred]
<1>1. "prefix" \in Plain
    BY DEF Plain, Labels
<1>2. Begins(Save("prefix"))
    BY <1>1, Courses, SaveBegins
<1>3. Save("prefix").pc = "prefix"
    BY <1>1, Courses DEF Save, Frame
<1>4. Begins(f)
    BY <1>2, <1>3 DEF Begins, Frame
<1> HIDE DEF f
<1> QED
    BY <1>4, Courses, GoesBegin DEF f

\* lexer.cc:170-171: the letter is an x.
LEMMA XxIsGood == ScanInv /\ startWithXx => Good
<1> SUFFICES ASSUME ScanInv, startWithXx
             PROVE  Good
    OBVIOUS
<1>1. ~ At("idle") /\ "hex" \in Predicates
    BY DEF startWithXx, At, Predicates
<1> QED
    BY <1>1, ValueFacts, PrefixBeginsIsGood DEF startWithXx

\* lexer.cc:205-206: the letter is a b.
LEMMA BbIsGood == ScanInv /\ startWithBb => Good
<1> SUFFICES ASSUME ScanInv, startWithBb
             PROVE  Good
    OBVIOUS
<1>1. ~ At("idle") /\ "bit" \in Predicates
    BY DEF startWithBb, At, Predicates
<1> QED
    BY <1>1, ValueFacts, PrefixBeginsIsGood DEF startWithBb

\* lexer.cc:172-189, 207-224: what the prefix announces, or an identifier after all.
LEMMA PrefixIsGood == ScanInv /\ prefix => Good
<1> SUFFICES ASSUME ScanInv, prefix
             PROVE  Good
    OBVIOUS
<1>1. Begun(fr) /\ ~ At("version")
    BY DEF prefix, At, Begun
<1>2. {"prefixEnd", "ident"} \subseteq Plain
    BY DEF Plain, Labels
<1>3. fr.pred \in Predicates /\ fr.tok \in Int
    BY Courses, SMT DEF Frame
<1>4. CASE Step(Advance(Peeked(rd)), Inc(fr, fr.pred, "prefixEnd"))
    BY <1>1, <1>2, <1>3, <1>4, Courses, CallsInc
<1>5. CASE Step(UpdatePos(Peeked(rd), fr.pos), Goto("ident"))
    BY <1>1, <1>2, <1>5, Courses, GoesBack, GoesTo
<1>6. CASE Return(Advance(Peeked(rd)), fr.tok, fr.pos, Data(Advance(Peeked(rd)), fr.pos))
    BY <1>1, <1>3, <1>6, Courses, DataOnCourse, ReturnsToken
<1>7. CASE Return(Peeked(rd), rune_invalid, fr.pos, << >>)
    BY <1>1, <1>7, Courses, ValueFacts, ReturnsToken
<1> QED
    BY <1>4, <1>5, <1>6, <1>7 DEF prefix

\* lexer.cc:228-232: the position, then identifier characters.
LEMMA IdentifierIsGood == ScanInv /\ scanIdentifier => Good
<1> SUFFICES ASSUME ScanInv, scanIdentifier
             PROVE  Good
    OBVIOUS
<1>1. Begun(fr) /\ ~ At("idle")
    BY DEF scanIdentifier, At, Begun
<1>2. {"ident", "identEnd"} \subseteq Plain /\ "identChar" \in Predicates
    BY DEF Plain, Labels, Predicates
<1>3. CASE Step(rd, Inc(Save("ident"), "identChar", "identEnd"))
    BY <1>1, <1>2, <1>3, SavesInc
<1>4. CASE Return(rd, tok_identifier, fr.pos, Data(rd, fr.pos))
    BY <1>1, <1>4, Courses, ValueFacts, DataOnCourse, ReturnsToken
<1> QED
    BY <1>3, <1>4 DEF scanIdentifier

\* lexer.cc:191-203: the announcement of a charset, or an identifier.
LEMMA NnIsGood == ScanInv /\ startWithNn => Good
<1> SUFFICES ASSUME ScanInv, startWithNn
             PROVE  Good
    OBVIOUS
<1>1. Begun(fr) /\ ~ At("idle")
    BY DEF startWithNn, At, Begun
<1>2. {"nn", "nnEnd"} \subseteq Plain /\ "identChar" \in Predicates
    BY DEF Plain, Labels, Predicates
<1>3. CASE Step(rd, Inc(Save("nn"), "identChar", "nnEnd"))
    BY <1>1, <1>2, <1>3, SavesInc
<1>4. CASE Return(Peeked(rd), tok_underscoreCS, fr.pos, <<117, 116, 102, 56>>)
    BY <1>1, <1>4, Courses, ValueFacts, ReturnsToken
<1>5. CASE \E r \in {rd, Peeked(rd)} : Return(r, tok_identifier, fr.pos, Data(rd, fr.pos))
    BY <1>1, <1>5, Courses, ValueFacts, DataOnCourse, ReturnsToken
<1> QED
    BY <1>3, <1>4, <1>5 DEF startWithNn

\* lexer.cc:234-240: the buffer is cleared and the opening backquote read.
LEMMA OpenQuotedIsGood == ScanInv /\ openQuotedIdent => Good
<1> SUFFICES ASSUME ScanInv, openQuotedIdent
             PROVE  Good
    OBVIOUS
<1>1. ~ At("idle") /\ "quotedLoop" \in Plain
    BY DEF openQuotedIdent, At, Plain, Labels
<1>2. << >> \in Seq(Byte)
    BY SMT
<1> QED
    BY <1>1, <1>2, Courses, Saves DEF openQuotedIdent

\* lexer.cc:241-258: the loop up to the closing backquote.
LEMMA QuotedIsGood == ScanInv /\ scanQuotedIdent => Good
<1> SUFFICES ASSUME ScanInv, scanQuotedIdent
             PROVE  Good
    OBVIOUS
<1>1. Begun(fr) /\ {"quotedNext", "quotedLoop"} \subseteq Plain
    BY DEF scanQuotedIdent, At, Begun, Plain, Labels
<1>2. fr.ch \in Rune /\ buf \in Seq(Byte)
    BY Courses DEF Frame, ScanInv, Settled
<1>3. sputc(buf, fr.ch) \in Seq(Byte)
    BY <1>2, SputcBytes
<1>4. CASE Step(Advance(rd), [Goto("quotedNext") EXCEPT !.ch = Peek(rd)])
    BY <1>1, <1>4, Courses, GoesWith
<1>5. CASE Return(rd, rune_invalid, fr.pos, << >>)
    BY <1>1, <1>5, Courses, ValueFacts, ReturnsToken
<1>6. CASE Return(Peeked(rd), tok_quotedIdentifier, fr.pos, buf)
    BY <1>1, <1>2, <1>6, Courses, ValueFacts, ReturnsToken
<1>7. CASE StepBuf(Advance(Peeked(rd)), Goto("quotedLoop"), sputc(buf, fr.ch))
    BY <1>1, <1>3, <1>7, Courses, GoesTo
<1>8. CASE \E b \in {buf, sputc(buf, fr.ch)} : StepBuf(rd, Goto("quotedLoop"), b)
    <2>1. \E b \in Seq(Byte) : StepBuf(rd, Goto("quotedLoop"), b)
        BY <1>2, <1>3, <1>8
    <2> QED
        BY <1>1, <2>1, Courses, GoesTo
<1> QED
    BY <1>4, <1>5, <1>6, <1>7, <1>8 DEF scanQuotedIdent

-----------------------------------------------------------------------------
\* lexer.cc:260-302: the first digit, and what may follow a zero.
LEMMA NumberIsGood == ScanInv /\ startWithNumber => Good
<1> SUFFICES ASSUME ScanInv, startWithNumber
             PROVE  Good
    OBVIOUS
<1>1. Begun(fr) /\ ~ At("idle") /\ ~ At("version")
    BY DEF startWithNumber, At, Begun
<1>2. /\ {"number2", "digits", "radixEnd", "float", "identEnd"} \subseteq Plain
      /\ {"octal", "hex", "bit", "identChar"} \subseteq Predicates
    BY DEF Plain, Labels, Predicates
<1>3. CASE Step(Advance(rd), [Save("number2") EXCEPT !.tok = tok_intLit, !.ch = Peek(rd)])
    <2> DEFINE f == [Save("number2") EXCEPT !.tok = tok_intLit, !.ch = Peek(rd)]
    <2>1. Begins(Save("number2")) /\ Save("number2").pc = "number2"
        BY <1>2, Courses, SaveBegins DEF Save, Frame
    <2>2. tok_intLit \in Nat /\ Peek(rd) \in Rune
        BY Courses, ValueFacts
    <2>3. Begins(f)
        BY <2>1, <2>2 DEF Begins, Frame
    <2> HIDE DEF f
    <2> QED
        BY <1>1, <1>3, <2>3, Courses, GoesBegin DEF f
<1>4. CASE \E r \in {rd, Peeked(rd)} : Step(r, Goto("digits")) \/ Step(r, Goto("float"))
    BY <1>1, <1>2, <1>4, Courses, GoesTo
<1>5. CASE Step(Advance(Peeked(rd)), Inc(fr, "octal", "digits"))
    BY <1>1, <1>2, <1>5, Courses, CallsInc
<1>6. CASE Step(Peeked(rd), Inc(fr, "identChar", "identEnd"))
    BY <1>1, <1>2, <1>6, Courses, CallsInc
<1>7. ASSUME NEW tok \in Nat, NEW pred \in Predicates,
             Step(Advance(Peeked(rd)),
                  Inc([fr EXCEPT !.tok = tok, !.mark = Advance(rd).pos], pred, "radixEnd"))
      PROVE  Good
    <2> DEFINE f == [fr EXCEPT !.tok = tok, !.mark = Advance(rd).pos]
               g == Inc(f, pred, "radixEnd")
    <2>1. Continues(fr)
        BY <1>1, FrameContinues DEF At
    <2>2. Advance(rd).pos \in Pos
        BY Courses
    <2>3. f.pc = fr.pc /\ f.ret = fr.ret
        BY Courses DEF Frame
    <2>4. Continues(f)
        BY <2>1, <2>2, <2>3 DEF Continues, Frame
    <2> HIDE DEF f
    <2>5. Continues(g)
        BY <1>2, <2>4, IncContinues
    <2> HIDE DEF g
    <2> QED
        BY <1>1, <1>7, <2>5, Courses, GoesOn DEF f, g
<1>8. CASE Step(Advance(Peeked(rd)),
                Inc([fr EXCEPT !.tok = tok_hexLit, !.mark = Advance(rd).pos], "hex", "radixEnd"))
    BY <1>2, <1>7, <1>8, ValueFacts
<1>9. CASE Step(Advance(Peeked(rd)),
                Inc([fr EXCEPT !.tok = tok_bitLit, !.mark = Advance(rd).pos], "bit", "radixEnd"))
    BY <1>2, <1>7, <1>9, ValueFacts
<1> QED
    BY <1>3, <1>4, <1>5, <1>6, <1>8, <1>9 DEF startWithNumber

\* lexer.cc:274-295: behind the digits of a hexadecimal or a bit literal.
LEMMA RadixEndIsGood == ScanInv /\ radixEnd => Good
<1> SUFFICES ASSUME ScanInv, radixEnd
             PROVE  Good
    OBVIOUS
<1>1. Begun(fr) /\ ~ At("version")
    BY DEF radixEnd, At, Begun
<1>2. {"digits", "identEnd"} \subseteq Plain /\ "identChar" \in Predicates
    BY DEF Plain, Labels, Predicates
<1>3. CASE \E r \in {rd, Peeked(rd)} : Step(r, Inc(fr, "identChar", "identEnd"))
    BY <1>1, <1>2, <1>3, Courses, CallsInc
<1>4. CASE Step(Peeked(rd), Goto("digits"))
    BY <1>1, <1>2, <1>4, Courses, GoesTo
<1> QED
    BY <1>3, <1>4 DEF radixEnd

\* lexer.cc:304-317: behind the digits of a decimal number.
LEMMA NumberTailIsGood == ScanInv /\ numberTail => Good
<1> SUFFICES ASSUME ScanInv, numberTail
             PROVE  Good
    OBVIOUS
<1>1. Begun(fr) /\ ~ At("version")
    BY DEF numberTail, At, Begun
<1>2. /\ {"numberTail", "float", "identEnd"} \subseteq Plain
      /\ {"digit", "identChar"} \subseteq Predicates
    BY DEF Plain, Labels, Predicates
<1>3. fr.tok \in Int
    BY Courses, SMT DEF Frame
<1>4. CASE Step(rd, Inc(fr, "digit", "numberTail"))
    BY <1>1, <1>2, <1>4, Courses, CallsInc
<1>5. CASE Step(Peeked(rd), Goto("float"))
    BY <1>1, <1>2, <1>5, Courses, GoesTo
<1>6. CASE Step(Peeked(rd), Inc(fr, "identChar", "identEnd"))
    BY <1>1, <1>2, <1>6, Courses, CallsInc
<1>7. CASE Return(Peeked(rd), fr.tok, fr.pos, Data(rd, fr.pos))
    BY <1>1, <1>3, <1>7, Courses, DataOnCourse, ReturnsToken
<1> QED
    BY <1>4, <1>5, <1>6, <1>7 DEF numberTail

\* scanner.cc:204-234: the number is read again from its start.
LEMMA FloatIsGood == ScanInv /\ scanFloat => Good
<1> SUFFICES ASSUME ScanInv, scanFloat
             PROVE  Good
    OBVIOUS
<1>1. Begun(fr) /\ ~ At("version")
    BY DEF scanFloat, At, Begun
<1>2. {"fraction", "exponent", "sign"} \subseteq Plain /\ "digit" \in Predicates
    BY DEF Plain, Labels, Predicates
<1>3. CASE Step(UpdatePos(rd, fr.pos), Inc(fr, "digit", "fraction"))
    BY <1>1, <1>2, <1>3, Courses, GoesBack, CallsInc
<1>4. CASE Step(Advance(Peeked(rd)), Inc(fr, "digit", "exponent"))
    BY <1>1, <1>2, <1>4, Courses, CallsInc
<1>5. CASE Step(Peeked(rd), Goto("exponent")) \/ Step(Advance(Peeked(rd)), Goto("sign"))
    BY <1>1, <1>2, <1>5, Courses, GoesTo
<1>6. CASE Return(Peeked(rd), tok_decLit, fr.pos, Data(rd, fr.pos))
    BY <1>1, <1>6, Courses, ValueFacts, DataOnCourse, ReturnsToken
<1> QED
    BY <1>3, <1>4, <1>5, <1>6 DEF scanFloat

\* scanner.cc:216-245: the exponent, or the text as an identifier.
LEMMA ExponentIsGood == ScanInv /\ exponent => Good
<1> SUFFICES ASSUME ScanInv, exponent
             PROVE  Good
    OBVIOUS
<1>1. Begun(fr) /\ ~ At("version")
    BY DEF exponent, At, Begun
<1>2. /\ {"power", "floatEnd", "identEnd"} \subseteq Plain
      /\ {"digit", "identChar"} \subseteq Predicates
    BY DEF Plain, Labels, Predicates
<1>3. CASE \E r \in {Peeked(rd), Advance(Peeked(rd))} : Step(r, Goto("power"))
    BY <1>1, <1>2, <1>3, Courses, GoesTo
<1>4. CASE Step(Peeked(rd), Inc(fr, "digit", "floatEnd"))
    BY <1>1, <1>2, <1>4, Courses, CallsInc
<1>5. CASE Step(UpdatePos(Peeked(rd), fr.pos), Inc(fr, "identChar", "identEnd"))
    BY <1>1, <1>2, <1>5, Courses, GoesBack, CallsInc
<1>6. CASE Return(rd, tok_floatLit, fr.pos, Data(rd, fr.pos))
    BY <1>1, <1>6, Courses, ValueFacts, DataOnCourse, ReturnsToken
<1> QED
    BY <1>3, <1>4, <1>5, <1>6 DEF exponent

-----------------------------------------------------------------------------
\* scanner.cc:156-163: the opening quote is read.
LEMMA StartStringIsGood == ScanInv /\ startString => Good
<1> SUFFICES ASSUME ScanInv, startString
             PROVE  Good
    OBVIOUS
<1>1. ~ At("idle") /\ Begun(fr) /\ {"stringPeek", "stringLoop"} \subseteq Plain
    BY DEF startString, At, Begun, Plain, Labels
<1>2. CASE Step(Advance(rd),
                [Save("stringPeek") EXCEPT !.ending = Peek(rd), !.useBuf = FALSE])
    <2> DEFINE f == [Save("stringPeek") EXCEPT !.ending = Peek(rd), !.useBuf = FALSE]
    <2>1. Begins(Save("stringPeek")) /\ Save("stringPeek").pc = "stringPeek"
        BY <1>1, Courses, SaveBegins DEF Save, Frame
    <2>2. Begins(f)
        BY <2>1, Courses DEF Begins, Frame
    <2> HIDE DEF f
    <2> QED
        BY <1>1, <1>2, <2>2, Courses, GoesBegin DEF f
<1>3. CASE Step(Peeked(rd), [Goto("stringLoop") EXCEPT !.ch = Peek(rd)])
    BY <1>1, <1>3, Courses, GoesWith
<1> QED
    BY <1>2, <1>3 DEF startString

\* scanner.cc:20-28: the lazy buffer comes into use.
LEMMA UsesBuffer ==
    ASSUME ScanInv, Begun(fr), NEW r, OnCourse(r), NEW label \in Plain, NEW b \in Seq(Byte),
           StepBuf(r, [Goto(label) EXCEPT !.useBuf = TRUE], b)
    PROVE  Good
<1> DEFINE f == [Goto(label) EXCEPT !.useBuf = TRUE]
<1>1. Continues(Goto(label)) /\ Goto(label).pc = label
    BY Courses, GotoContinues DEF Goto, Frame
<1>2. Continues(f)
    BY <1>1 DEF Continues, Frame
<1>3. ~ At("idle")
    BY DEF Begun, At
<1> HIDE DEF f
<1> QED
    BY <1>2, <1>3, GoesOn DEF f

\* scanner.cc:165-188: the loop over the characters of a string.
LEMMA StringIsGood == ScanInv /\ scanString => Good
<1> SUFFICES ASSUME ScanInv, scanString
             PROVE  Good
    OBVIOUS
<1>1. Begun(fr) /\ {"afterQuote", "afterBackslash", "write"} \subseteq Plain
    BY DEF scanString, At, Begun, Plain, Labels
<1>2. setUseBuf(Rest(Data(rd, fr.pos))) \in Seq(Byte)
    <2>1. Rest(Data(rd, fr.pos)) \in Seq(Byte)
        BY Courses, DataOnCourse, LiteralParts
    <2> QED
        BY <2>1 DEF setUseBuf, ScanInv, Settled
<1>3. CASE Return(rd, rune_invalid, fr.pos, << >>)
    BY <1>1, <1>3, Courses, ValueFacts, ReturnsToken
<1>4. CASE Step(Advance(rd), Goto("afterQuote")) \/ Step(rd, Goto("write"))
    BY <1>1, <1>4, Courses, GoesTo
<1>5. CASE StepBuf(Advance(rd), [Goto("afterBackslash") EXCEPT !.useBuf = TRUE],
                   setUseBuf(Rest(Data(rd, fr.pos))))
    BY <1>1, <1>2, <1>5, Courses, UsesBuffer
<1> QED
    BY <1>3, <1>4, <1>5 DEF scanString

\* scanner.cc:166-173: the closing quote, or a doubled one.
LEMMA AfterQuoteIsGood == ScanInv /\ afterQuote => Good
<1> SUFFICES ASSUME ScanInv, afterQuote
             PROVE  Good
    OBVIOUS
<1> DEFINE lit == setUseBuf(Inner(Data(rd, fr.pos)))
<1>1. Begun(fr) /\ "write" \in Plain
    BY DEF afterQuote, At, Begun, Plain, Labels
<1>2. lit \in Seq(Byte)
    <2>1. Inner(Data(rd, fr.pos)) \in Seq(Byte)
        BY Courses, DataOnCourse, LiteralParts
    <2> QED
        BY <2>1 DEF setUseBuf, ScanInv, Settled
<1>3. \/ Return(Peeked(rd), tok_stringLit, fr.pos, lit)
      \/ StepBuf(Peeked(rd), [Goto("write") EXCEPT !.useBuf = TRUE], lit)
    BY DEF afterQuote
<1> HIDE DEF lit
<1>4. CASE Return(Peeked(rd), tok_stringLit, fr.pos, lit)
    BY <1>1, <1>2, <1>4, Courses, ValueFacts, ReturnsToken
<1>5. CASE StepBuf(Peeked(rd), [Goto("write") EXCEPT !.useBuf = TRUE], lit)
    BY <1>1, <1>2, <1>5, Courses, UsesBuffer
<1> QED
    BY <1>3, <1>4, <1>5

\* scanner.cc:118-154: the character behind a backslash.
LEMMA EscapeIsGood == ScanInv /\ handleEscape => Good
<1> SUFFICES ASSUME ScanInv, handleEscape
             PROVE  Good
    OBVIOUS
<1> DEFINE b == IF Peek(rd) \in {Percent, Underscore} THEN sputc(buf, Backslash) ELSE buf
<1>1. Begun(fr) /\ "write" \in Plain
    BY DEF handleEscape, At, Begun, Plain, Labels
<1>2. Escaped(Peek(rd)) \in Rune
    BY Courses, EscapedInRune
<1>3. b \in Seq(Byte)
    <2>1. rune_max >= 92
        BY SMT DEF rune_max
    <2>2. Backslash \in Rune
        BY <2>1, RuneFacts, SMT DEF Backslash
    <2>3. buf \in Seq(Byte)
        BY DEF ScanInv, Settled
    <2> QED
        BY <2>2, <2>3, SputcBytes
<1>4. StepBuf(Peeked(rd), [Goto("write") EXCEPT !.ch = Escaped(Peek(rd))], b)
    BY DEF handleEscape
<1> HIDE DEF b
<1> QED
    BY <1>1, <1>2, <1>3, <1>4, Courses, GoesWith

\* scanner.cc:179-184: the character is written to the buffer, if it is in use.
LEMMA WriteIsGood == ScanInv /\ writeString => Good
<1> SUFFICES ASSUME ScanInv, writeString
             PROVE  Good
    OBVIOUS
<1>1. Begun(fr) /\ {"stringLoop", "stringPeek"} \subseteq Plain
    BY DEF writeString, At, Begun, Plain, Labels
<1>2. writeRune(fr.ch, rd.lastWidth) \in Seq(Byte)
    BY Courses, WriteRuneBytes DEF ScanInv, Settled
<1>3. \E label \in {"stringLoop", "stringPeek"} :
          StepBuf(Advance(rd), Goto(label), writeRune(fr.ch, rd.lastWidth))
    BY DEF writeString
<1> QED
    BY <1>1, <1>2, <1>3, Courses, GoesTo

\* lexer.cc:323-347: what a word called for by itself begins with.
LEMMA WordIsGood == ScanInv /\ scanIdentifierOrString => Good
<1> SUFFICES ASSUME ScanInv, scanIdentifierOrString
             PROVE  Good
    OBVIOUS
<1>1. Begun(fr) /\ ~ At("idle") /\ {"string", "quoted"} \subseteq Plain
    BY DEF scanIdentifierOrString, At, Begun, Plain, Labels
<1>2. {"word", "identEnd"} \subseteq Plain /\ "userVarChar" \in Predicates
    BY DEF Plain, Labels, Predicates
<1>3. CASE Step(Peeked(rd), Goto("string")) \/ Step(Peeked(rd), Goto("quoted"))
    BY <1>1, <1>3, Courses, GoesTo
<1>4. CASE Step(Peeked(rd), Inc(Save("word"), "userVarChar", "identEnd"))
    <2>1. Begins(Inc(Save("word"), "userVarChar", "identEnd"))
        BY <1>2, Courses, SaveBegins, IncBegins
    <2>2. Saved(Peeked(rd), rd.pos)
        <3>1. ReaderInv(rd) /\ Saved(rd, rd.pos)
            BY Courses DEF OnCourse, Lives
        <3> QED
            BY <3>1, PeekedInv DEF Saved
    <2> QED
        BY <1>1, <1>4, <2>1, <2>2, Courses, GoesBegin
<1>5. CASE Result(Peeked(rd), Peek(rd), Origin, << >>, rd.index)
    <2>1. ReaderInv(rd) /\ fr.from <= rd.index /\ rd.index \in Nat
        BY Courses, ReaderFields DEF OnCourse, Lives, ReaderInv
    <2>2. Peeked(rd).index = rd.index /\ rd.index <= rd.index
        BY <2>1, PeekedInv, SMT
    <2>3. Peek(rd) \in Int /\ << >> \in Seq(Byte)
        BY Courses, ValueFacts
    <2> QED
        BY <1>1, <1>5, <2>1, <2>2, <2>3, Courses, OriginFacts, ResultIsGood
<1> QED
    BY <1>3, <1>4, <1>5 DEF scanIdentifierOrString

-----------------------------------------------------------------------------
\* NoToken is a token, too.
LEMMA NoTokenGood == NoToken \in Token
<1>1. -2 \in Int /\ 0 \in Nat /\ << >> \in Seq(Byte)
    BY SMT
<1> QED
    BY <1>1, OriginFacts DEF NoToken, Token

\* scanner.hh:17: a call starts where the last one ended.
LEMMA CallIsGood == ScanInv /\ Call => Good
<1> SUFFICES ASSUME ScanInv, Call
             PROVE  Good
    OBVIOUS
<1> DEFINE f == [NoFrame EXCEPT !.pc = "scan", !.from = rd.index, !.fromBang = inBang]
<1>1. At("idle") /\ rd' = rd /\ fr' = f /\ UNCHANGED <<inBang, sqlMode, buf, out>>
    BY DEF Call, Step
<1>2. rd.index \in Nat /\ inBang \in BOOLEAN
    BY ReaderFields DEF ScanInv, Settled, Lives, ReaderInv
<1>3. NoFrame \in Frame /\ NoFrame.pos = Origin /\ Saved(rd, Origin)
    BY NoFrameGood DEF ScanInv, Lives, GoodFrame, NoFrame
<1>4. "scan" \in Labels
    BY DEF Labels
<1>5. f \in Frame /\ f.pos = Origin /\ f.pc = "scan" /\ f.from = rd.index
    BY <1>2, <1>3, <1>4 DEF Frame
<1> HIDE DEF f
<1>6. rd.index <= rd.index
    BY <1>2, SMT
<1>7. GoodFrame(rd, f)
    BY <1>3, <1>5, <1>6 DEF GoodFrame, Begun
<1>8. ScanInv'
    BY <1>1, <1>7 DEF ScanInv, Settled
<1>9. UNCHANGED Stream!vars
    BY <1>1, <1>5 DEF Stream!vars, At, text
<1> QED
    BY <1>8, <1>9 DEF Good

\* lexer.cc:323: a call for a word starts there, too, and takes its token to
\* begin at the index.
LEMMA CallWordIsGood == ScanInv /\ CallWord => Good
<1> SUFFICES ASSUME ScanInv, CallWord
             PROVE  Good
    OBVIOUS
<1> DEFINE f == [NoFrame EXCEPT !.pc = "word", !.pos = rd.pos, !.from = rd.index,
                               !.fromBang = inBang]
<1>1. At("idle") /\ rd' = rd /\ fr' = f /\ UNCHANGED <<inBang, sqlMode, buf, out>>
    BY DEF CallWord, Step
<1>2. rd.index \in Nat /\ inBang \in BOOLEAN /\ rd.pos \in Pos
    BY ReaderFields DEF ScanInv, Settled, Lives, ReaderInv
<1>3. NoFrame \in Frame /\ Saved(rd, rd.pos) /\ rd.pos.offset = rd.index
    BY NoFrameGood, OnCourseNow DEF ScanInv, Lives, GoodFrame
<1>4. "word" \in Labels
    BY DEF Labels
<1>5. f \in Frame /\ f.pos = rd.pos /\ f.pc = "word" /\ f.from = rd.index
    BY <1>2, <1>3, <1>4 DEF Frame
<1> HIDE DEF f
<1>6. rd.index <= rd.index
    BY <1>2, SMT
<1>7. GoodFrame(rd, f)
    BY <1>3, <1>5, <1>6 DEF GoodFrame
<1>8. ScanInv'
    BY <1>1, <1>7 DEF ScanInv, Settled
<1>9. UNCHANGED Stream!vars
    BY <1>1, <1>5 DEF Stream!vars, At, text
<1> QED
    BY <1>8, <1>9 DEF Good

\* misc.cc:918-926: isTokenIdentifier looks at a rune.
LEMMA IsTokenIdentifierIsGood == ScanInv /\ isTokenIdentifier => Good
<1> SUFFICES ASSUME ScanInv, isTokenIdentifier
             PROVE  Good
    OBVIOUS
<1>1. At("idle") /\ rd' = Peeked(rd) /\ fr' = fr /\ UNCHANGED <<inBang, sqlMode, buf, out>>
    BY DEF isTokenIdentifier, Step
<1>2. Lives(Peeked(rd)) /\ Saved(Peeked(rd), fr.pos) /\ Peeked(rd).slice = rd.slice
    BY Courses DEF OnCourse
<1>3. Peeked(rd).index = rd.index
    BY PeekedInv DEF ScanInv, Lives
<1>4. GoodFrame(Peeked(rd), fr)
    BY <1>1, <1>2, <1>3 DEF ScanInv, GoodFrame, At
<1>5. ScanInv'
    BY <1>1, <1>2, <1>4 DEF ScanInv, Settled
<1>6. UNCHANGED Stream!vars
    BY <1>1, <1>2, <1>3 DEF Stream!vars, At, text
<1> QED
    BY <1>5, <1>6 DEF Good

\* A new statement starts the stream anew.
LEMMA NewStatementIsGood ==
    ASSUME ScanInv, At("idle"), NEW sql \in Texts,
           rd' = NewReader(sql), out' = NoToken, UNCHANGED <<sqlMode, fr>>,
           inBang' \in BOOLEAN, buf' \in Seq(Byte)
    PROVE  Good
<1>1. sql \in Seq(Byte)
    BY TextsAssumption
<1>2. /\ ReaderInv(NewReader(sql)) /\ Saved(NewReader(sql), Origin)
      /\ NewReader(sql).index = 0 /\ Columned(NewReader(sql))
    <2>1. /\ ReaderInv(NewReader(sql)) /\ NewReader(sql).pos = Origin
          /\ Columned(NewReader(sql))
        BY <1>1, NewReaderInv, NewReaderColumned DEF NewReader
    <2> QED
        BY <2>1, PosSaved DEF NewReader
<1>3. fr \in Frame /\ fr.pc = "idle" /\ fr.pos = Origin /\ fr.from = 0
    BY DEF ScanInv, GoodFrame, At
<1> DEFINE r == NewReader(sql)
<1>4. GoodFrame(r, fr)
    <2>1. 0 <= 0
        BY SMT
    <2> QED
        BY <1>2, <1>3, <2>1 DEF GoodFrame, Begun
<1>5. ScanInv'
    BY <1>2, <1>4, NoTokenGood DEF ScanInv, Settled, Lives
<1>6. Stream!NewStatement
    <2>1. NoToken.begin = 0 /\ NoToken.to = 0
        BY DEF NoToken
    <2>2. fr'.pc = "idle" /\ rd'.index = 0
        BY <1>2, <1>3
    <2> QED
        BY <2>1, <2>2 DEF Stream!NewStatement, At
<1> QED
    BY <1>5, <1>6 DEF Good, Stream!Next

\* scanner.cc:52-57: reset.
LEMMA ResetIsGood ==
    ASSUME ScanInv, NEW sql \in Texts, reset(sql)
    PROVE  Good
BY NewStatementIsGood DEF reset, ScanInv, Settled

\* scanner.hh:33-40: InheritScanner.
LEMMA InheritIsGood ==
    ASSUME ScanInv, NEW sql \in Texts, InheritScanner(sql)
    PROVE  Good
<1>1. << >> \in Seq(Byte)
    BY SMT
<1> QED
    BY <1>1, NewStatementIsGood DEF InheritScanner

\* scanner.hh:24-25: SetSQLMode.
LEMMA ModeIsGood ==
    ASSUME ScanInv, NEW mode \in Modes, SetSQLMode(mode)
    PROVE  Good
<1>1. ScanInv'
    BY NoTokenGood, ModesAssumption DEF SetSQLMode, ScanInv, Settled
<1>2. Stream!Forget
    <2>1. NoToken.begin = 0 /\ NoToken.to = 0
        BY DEF NoToken
    <2> QED
        BY <2>1 DEF Stream!Forget, SetSQLMode, text, At
<1> QED
    BY <1>1, <1>2 DEF Good, Stream!Next

-----------------------------------------------------------------------------
\* A new scanner keeps the invariant, and its stream is at the beginning.
LEMMA InitIsGood == Init => ScanInv /\ Stream!Init
<1> SUFFICES ASSUME Init
             PROVE  ScanInv /\ Stream!Init
    OBVIOUS
<1>1. PICK t \in Texts : rd = NewReader(t)
    BY DEF Init
<1>2. t \in Seq(Byte)
    BY TextsAssumption
<1>3. ReaderInv(rd) /\ Columned(rd) /\ rd.pos = Origin /\ rd.index = 0
    BY <1>1, <1>2, NewReaderInv, NewReaderColumned DEF NewReader
<1>4. Lives(rd)
    BY <1>3, PosSaved DEF Lives
<1>5. << >> \in Seq(Byte) /\ FALSE \in BOOLEAN
    BY SMT
<1>6. ScanInv
    BY <1>4, <1>5, NoFrameGood, NoTokenGood, ModesAssumption DEF Init, ScanInv, Settled
<1>7. Stream!Init
    BY <1>3 DEF Init, Stream!Init, At, NoFrame, NoToken
<1> QED
    BY <1>6, <1>7

\* Every step of the running call is good.
LEMMA ScanningIsGood == ScanInv /\ Scanning => Good
BY ScanIsGood, ScannedIsGood, TrieIsGood, IncIsGood, StubIsGood, SlashIsGood, VersionIsGood,
   CommentIsGood, StarIsGood, SharpIsGood, XxIsGood, BbIsGood, PrefixIsGood, IdentifierIsGood,
   NnIsGood, OpenQuotedIsGood, QuotedIsGood, NumberIsGood, RadixEndIsGood, NumberTailIsGood,
   FloatIsGood, ExponentIsGood, StartStringIsGood, StringIsGood, AfterQuoteIsGood, EscapeIsGood,
   WriteIsGood, WordIsGood DEF Scanning

\* So is every step of the client.
LEMMA ClientIsGood == ScanInv /\ Client => Good
BY CallIsGood, CallWordIsGood, IsTokenIdentifierIsGood, ResetIsGood, InheritIsGood, ModeIsGood DEF Client

\* So is a step that changes nothing.
LEMMA StutterIsGood == ScanInv /\ UNCHANGED vars => Good
<1> SUFFICES ASSUME ScanInv, UNCHANGED vars
             PROVE  Good
    OBVIOUS
<1>1. UNCHANGED <<rd, inBang, sqlMode, buf, fr, out>>
    BY DEF vars
<1>2. ScanInv'
    BY <1>1 DEF ScanInv, Settled
<1>3. UNCHANGED Stream!vars
    BY <1>1 DEF Stream!vars, text, At
<1> QED
    BY <1>2, <1>3 DEF Good

\* Every step of Next is good.
LEMMA NextIsGood == ScanInv /\ [Next]_vars => Good
BY ScanningIsGood, ClientIsGood, StutterIsGood DEF Next

\* The inductive invariant of the scanner.
THEOREM ScannerInvariant == Spec => []ScanInv
<1>1. Init => ScanInv
    BY InitIsGood
<1>2. ScanInv /\ [Next]_vars => ScanInv'
    BY NextIsGood DEF Good
<1> QED
    BY <1>1, <1>2, PTL DEF Spec

\* Type correctness: whatever runes the text holds, valid or not, what the
\* handlers write to _buf are bytes, every literal returned is a string of
\* bytes, and the reader's index, widths and recorded positions stay consistent.
THEOREM ScannerTypeCorrect == Spec => []TypeOK
<1>1. ScanInv => TypeOK
    BY DEF ScanInv, Lives, ReaderInv, GoodFrame, Settled, TypeOK
<1> QED
    BY <1>1, ScannerInvariant, PTL

\* The position the scanner reports is the line and the column of the index in
\* the text: also behind newlines in comments and literals, and after a handler
\* has gone back.
THEOREM ScannerPosAccurate == Spec => []PosAccurate
<1>1. ScanInv => PosAccurate
    <2> SUFFICES ASSUME ScanInv
                 PROVE  PosAccurate
        OBVIOUS
    <2> DEFINE newlines == {k \in 1 .. rd.index : text[k] = Newline}
    <2>1. ReaderInv(rd) /\ Columned(rd)
        BY DEF ScanInv, Lives
    <2>2. /\ rd.index \in DOMAIN rd.idx2pos /\ rd.pos = rd.idx2pos[rd.index]
          /\ rd.pos.offset = rd.index /\ rd.pos.line = NewlinesBefore(rd.slice, rd.index)
          /\ rd.pos \in Pos /\ rd.index \in Nat
        BY <2>1, ReaderFields DEF ReaderInv, Recorded
    <2>3. newlines = {k \in 1 .. rd.index : rd.slice[k] = 10}
        BY DEF text, Newline
    <2>4. rd.pos.line = Cardinality(newlines)
        BY <2>2, <2>3 DEF NewlinesBefore
    <2>5. PICK n \in newlines \cup {0} : /\ rd.pos.col = rd.index - n
                                       /\ \A k \in newlines : k <= n
        BY <2>1, <2>2, <2>3 DEF Columned, Column
    <2>6. newlines \subseteq Nat /\ n \in Nat
        BY <2>3, SMT
    <2> HIDE DEF newlines
    <2>7. \A y \in newlines \cup {0} : n >= y
        BY <2>5, <2>6, SMT
    <2>8. \A x \in newlines \cup {0} : (\A y \in newlines \cup {0} : x >= y) => x = n
        BY <2>6, <2>7, SMT
    <2>9. Max(newlines \cup {0}) = n
        BY <2>7, <2>8 DEF Max
    <2>10. rd.pos = [line |-> rd.pos.line, col |-> rd.pos.col, offset |-> rd.pos.offset]
        BY <2>2, SMT DEF Pos
    <2> QED
        BY <2>2, <2>4, <2>5, <2>9, <2>10 DEF PosAccurate, newlines
<1> QED
    BY <1>1, ScannerInvariant, PTL

\* A handler that goes back to the position it saved arrives there, line and
\* column included, although updatePos throws away the verdict of seek
\* (reader.hh:48): in every text, at every point of every handler.
THEOREM ScannerBacktracksExactly == Spec => []BacktrackLands
<1>1. ScanInv => BacktrackLands
    <2> SUFFICES ASSUME ScanInv
                 PROVE  BacktrackLands
        OBVIOUS
    <2>1. ReaderInv(rd)
        BY DEF ScanInv, Lives
    <2>2. \A p : Saved(rd, p) => UpdatePos(rd, p).index = p.offset /\ UpdatePos(rd, p).pos = p
        BY <2>1, UpdatePosLands
    <2>3. Saved(rd, fr.pos) /\ (At("version") => Saved(rd, fr.mark))
        BY DEF ScanInv, GoodFrame, At
    <2> QED
        BY <2>2, <2>3 DEF BacktrackLands
<1> QED
    BY <1>1, ScannerInvariant, PTL

\* The scanner implements the stream of tokens: however a handler reads ahead
\* and back, calls of scan() yield consecutive extents of the text, also across
\* reset, InheritScanner and SetSQLMode.
THEOREM ScannerImplementsTokenStream == Spec => ImplementsTokenStream
<1>1. Init => ScanInv /\ Stream!Init
    BY InitIsGood
<1>2. ScanInv /\ [Next]_vars => ScanInv' /\ [Stream!Next]_(Stream!vars)
    BY NextIsGood DEF Good
<1> QED
    BY <1>1, <1>2, PTL DEF Spec, ImplementsTokenStream, Stream!Spec

\* A client that only calls scan() is a client.
THEOREM ScanSpecIsSpec == ScanSpec => Spec
<1>1. Scanning \/ Call => Next
    BY DEF Next, Client
<1>2. [Scanning \/ Call]_vars => [Next]_vars
    BY <1>1
<1> QED
    BY <1>2, PTL DEF ScanSpec, Spec

(***************************************************************************)
(* From the call to its token                                              *)
(***************************************************************************)

Sharp == 35

\* Where incAsLongAs is called from.
Returns == {"scan", "scanned", "prefixEnd", "identEnd", "nnEnd", "digits", "radixEnd",
            "numberTail", "fraction", "exponent", "floatEnd", "afterStar"}

\* The handlers that call it for the text of their own token.
Resumes == Returns \ {"scan", "scanned", "afterStar"}

\* Inside the handlers of '/' and '*', once they have read that character.
PastFirst == {"slash2", "slash3", "comment", "afterStar", "star2"}

\* The character that a handler is called for.
CalledFor(label) ==
    CASE label = "slash" -> Slash
      [] label = "star"  -> Star
      [] label = "sharp" -> Sharp

\* The handlers of '/', '*' and '#' are called when that character is next;
\* afterwards the reader is past it.
Ahead(r, f) ==
    /\ f.pc \in {"scanned", "trie"} /\ f.node = << >> /\ f.ch # 0 => Peek(r) = f.ch
    /\ f.pc \in {"slash", "star", "sharp"} => Peek(r) = CalledFor(f.pc)
    /\ f.pc \in PastFirst => f.pos.offset < r.index
    /\ f.pc = "version" => f.pos.offset < f.mark.offset
    /\ f.pc = "inc" =>
         /\ f.ret \in Returns
         /\ f.ret = "afterStar" => f.pos.offset < r.index
         /\ f.ret = "scan" => \/ f.pos.offset < r.index
                              \/ f.pred = "notNewline" /\ Peek(r) = Sharp

\* A frame of which Ahead says nothing.
Quiet(f) ==
    /\ f.pc \notin PastFirst \cup {"scan", "slash", "star", "version", "scanned", "trie", "sharp"}
    /\ f.pc = "inc" => f.ret \in Resumes

\* A step that keeps Ahead and calls scan() again only past the first character.
Nests ==
    /\ Ahead(rd', fr')
    /\ fr'.pc = "scan" /\ ~At("idle") => rd'.index > fr.pos.offset

\* A frame of which Ahead says nothing has Ahead.
LEMMA QuietNests == Quiet(fr') => Nests
BY DEF Quiet, Nests, Ahead, Resumes

-----------------------------------------------------------------------------
\* Reading a character that is there moves the index.
LEMMA AdvanceGrows ==
    ASSUME NEW r, ReaderInv(r)
    PROVE  /\ Advance(r).index \in Nat /\ r.index \in Nat /\ r.index <= Advance(r).index
           /\ ~Eof(r) => r.index < Advance(r).index
           /\ Advance(r).pos.offset = Advance(r).index
<1>1. ReaderInv(Advance(r)) /\ r.index <= Advance(r).index
    BY AdvanceInv
<1>2. Advance(r).index \in Nat /\ r.index \in Nat
    BY <1>1, ReaderFields DEF ReaderInv
<1>3. ASSUME ~Eof(r)
      PROVE  r.index < Advance(r).index
    <2>1. EndsRune(r, PosAfterNext(r))
        BY <1>3, PosAfterEndsRune
    <2> QED
        BY <1>3, <2>1, ForwardInv DEF Advance
<1>4. Advance(r).pos.offset = Advance(r).index
    BY <1>1, PosSaved
<1> QED
    BY <1>1, <1>2, <1>3, <1>4

\* Looking ahead changes nothing of what there is to see.
LEMMA PeekAgain ==
    ASSUME NEW r, ReaderInv(r)
    PROVE  Peek(Peeked(r)) = Peek(r) /\ (Eof(Peeked(r)) <=> Eof(r)) /\ Peeked(r).index = r.index
BY PeekedInv DEF Peek, Eof

\* What a step of a call finds.
LEMMA Found ==
    ASSUME ScanInv
    PROVE  /\ fr \in Frame
           /\ ReaderInv(rd) /\ ReaderInv(Peeked(rd))
           /\ rd.index \in Nat /\ fr.pos.offset \in Nat /\ fr.pos.offset <= rd.index
           /\ rd.pos.offset = rd.index
           /\ At("version") => /\ fr.mark.offset \in Nat /\ fr.mark.offset <= rd.index
                               /\ Saved(rd, fr.mark)
<1>1. ReaderInv(rd) /\ fr \in Frame /\ rd.pos.offset = rd.index
    BY OnCourseNow DEF ScanInv, Lives
<1>2. rd.index \in Nat
    BY <1>1, ReaderFields DEF ReaderInv
<1>3. Saved(rd, fr.pos) /\ (At("version") => Saved(rd, fr.mark))
    BY DEF ScanInv, GoodFrame, At
<1>4. \A p : Saved(rd, p) => p.offset \in Nat /\ p.offset <= rd.index
    BY DEF Saved, Pos
<1> QED
    BY <1>1, <1>2, <1>3, <1>4, PeekedInv

-----------------------------------------------------------------------------
\* The handlers that neither call scan() again nor go where Ahead holds of more
\* than the reader.
Aloof ==
    \/ startWithStub \/ startWithXx \/ startWithBb \/ prefix \/ scanIdentifier
    \/ startWithNn \/ openQuotedIdent \/ scanQuotedIdent \/ startWithNumber \/ radixEnd
    \/ numberTail \/ scanFloat \/ exponent \/ startString \/ scanString \/ afterQuote
    \/ handleEscape \/ writeString \/ scanIdentifierOrString

\* The readers that a handler can leave: it has looked at a rune, read one, or
\* both, or it has gone back.
Onward == {rd, Peeked(rd), Advance(rd), Advance(Peeked(rd))}

WentBack == {UpdatePos(rd, fr.pos), UpdatePos(Peeked(rd), fr.pos)}

\* The frames, unless it returns.
Remains(f) == Quiet(f) /\ f.pc # "idle" /\ f.pos \in {fr.pos, rd.pos}

\* What its step does.
Stays ==
    /\ \/ fr' = NoFrame /\ rd' \in Onward
       \/ Remains(fr') /\ rd' \in Onward \cup WentBack
    /\ inBang' = inBang
    /\ fr.pc \notin {"idle", "scan", "scanned", "inc"}

\* The labels it goes to.
Aside == Labels \ (PastFirst \cup {"idle", "inc", "scan", "slash", "star", "version", "scanned", "trie", "sharp"})

\* It is enough to know where the frame goes on and which position it keeps.
LEMMA Remaining ==
    /\ \A f : f.pc \in Aside /\ (f.pos = fr.pos \/ f.pos = rd.pos) => Remains(f)
    /\ \A f : f.pc = "inc" /\ f.ret \in Resumes /\ (f.pos = fr.pos \/ f.pos = rd.pos) => Remains(f)
BY DEF Remains, Quiet, Aside, PastFirst

\* So it is with every frame that these handlers make.
LEMMA FramesRemain ==
    ASSUME fr \in Frame
    PROVE  /\ Quiet(NoFrame)
           /\ \A l \in Aside : Remains(Goto(l)) /\ Remains(Save(l))
           /\ \A l \in Aside : \A c : Remains([Goto(l) EXCEPT !.ch = c])
           /\ \A l \in Aside : Remains([Goto(l) EXCEPT !.useBuf = TRUE])
           /\ \A p : \A ret \in Resumes : Remains(Inc(fr, p, ret))
           /\ \A l, p : \A ret \in Resumes : Remains(Inc(Save(l), p, ret))
<1>1. Quiet(NoFrame)
    BY DEF NoFrame, Quiet, PastFirst
<1>2. \A l \in Aside : Remains(Goto(l)) /\ Remains(Save(l))
    <2>1. \A l : Goto(l).pc = l /\ Goto(l).pos = fr.pos /\ Save(l).pc = l /\ Save(l).pos = rd.pos
        BY DEF Goto, Save, Frame
    <2> QED
        BY <2>1, Remaining
<1>3. ASSUME NEW l \in Aside, NEW c
      PROVE  Remains([Goto(l) EXCEPT !.ch = c])
    <2> DEFINE f == [Goto(l) EXCEPT !.ch = c]
    <2>1. f.pc = l /\ f.pos = fr.pos
        BY DEF Goto, Frame
    <2> HIDE DEF f
    <2>2. Remains(f)
        BY <2>1, Remaining
    <2> QED
        BY <2>2 DEF f
<1>4. ASSUME NEW l \in Aside
      PROVE  Remains([Goto(l) EXCEPT !.useBuf = TRUE])
    <2> DEFINE f == [Goto(l) EXCEPT !.useBuf = TRUE]
    <2>1. f.pc = l /\ f.pos = fr.pos
        BY DEF Goto, Frame
    <2> HIDE DEF f
    <2>2. Remains(f)
        BY <2>1, Remaining
    <2> QED
        BY <2>2 DEF f
<1>5. \A p : \A ret \in Resumes : Remains(Inc(fr, p, ret))
    <2>1. \A p, ret : /\ Inc(fr, p, ret).pc = "inc" /\ Inc(fr, p, ret).ret = ret
                      /\ Inc(fr, p, ret).pos = fr.pos
        BY DEF Inc, Frame
    <2> QED
        BY <2>1, Remaining
<1>6. \A l, p : \A ret \in Resumes : Remains(Inc(Save(l), p, ret))
    <2>1. \A l, p, ret : /\ Inc(Save(l), p, ret).pc = "inc" /\ Inc(Save(l), p, ret).ret = ret
                         /\ Inc(Save(l), p, ret).pos = rd.pos
        BY DEF Inc, Save, Frame
    <2> QED
        BY <2>1, Remaining
<1> QED
    BY <1>1, <1>2, <1>3, <1>4, <1>5, <1>6, Zenon

\* The labels that they name are such labels.
LEMMA AsideLabels ==
    /\ {"ident", "digits", "float", "exponent", "sign", "power", "quotedLoop", "quotedNext",
        "stringPeek", "stringLoop", "afterQuote", "afterBackslash", "write", "string", "quoted",
        "prefix", "number2", "stub"} \subseteq Aside
    /\ {"prefixEnd", "identEnd", "nnEnd", "digits", "radixEnd", "numberTail", "fraction",
        "exponent", "floatEnd"} \subseteq Resumes
BY DEF Aside, Labels, PastFirst, Returns, Resumes

\* Each of these handlers does no more than Stays says.
LEMMA AloofStays == ScanInv /\ Aloof => Stays
<1> SUFFICES ASSUME fr \in Frame, Aloof
             PROVE  Stays
    BY Found
<1> USE FramesRemain, AsideLabels
<1>1. CASE startWithStub
    BY <1>1 DEF Stays, Onward, WentBack, At, startWithStub, ReturnNothing, Result
<1>2. CASE startWithXx
    <2> DEFINE f == [Save("prefix") EXCEPT !.tok = tok_hexLit, !.pred = "hex"]
    <2>1. f.pc = "prefix" /\ f.pos = rd.pos
        BY DEF Save, Frame
    <2>2. At("xx") /\ Step(Advance(rd), f)
        BY <1>2 DEF startWithXx
    <2> HIDE DEF f
    <2>3. Remains(f)
        BY <2>1, Remaining
    <2> QED
        BY <2>2, <2>3 DEF Stays, Onward, Step, At
<1>3. CASE startWithBb
    <2> DEFINE f == [Save("prefix") EXCEPT !.tok = tok_bitLit, !.pred = "bit"]
    <2>1. f.pc = "prefix" /\ f.pos = rd.pos
        BY DEF Save, Frame
    <2>2. At("bb") /\ Step(Advance(rd), f)
        BY <1>3 DEF startWithBb
    <2> HIDE DEF f
    <2>3. Remains(f)
        BY <2>1, Remaining
    <2> QED
        BY <2>2, <2>3 DEF Stays, Onward, Step, At
<1>4. CASE prefix
    BY <1>4 DEF Stays, Onward, WentBack, At, prefix, Step, Return, Result
<1>5. CASE scanIdentifier
    BY <1>5 DEF Stays, Onward, WentBack, At, scanIdentifier, Step, Return, Result
<1>6. CASE startWithNn
    BY <1>6 DEF Stays, Onward, WentBack, At, startWithNn, Step, Return, Result
<1>7. CASE openQuotedIdent
    BY <1>7 DEF Stays, Onward, WentBack, At, openQuotedIdent, StepBuf
<1>8. CASE scanQuotedIdent
    BY <1>8 DEF Stays, Onward, WentBack, At, scanQuotedIdent, Step, StepBuf, Return, Result
<1>9. CASE startWithNumber
    <2>1. CASE At("number")
        <3> DEFINE f == [Save("number2") EXCEPT !.tok = tok_intLit, !.ch = Peek(rd)]
        <3>1. f.pc = "number2" /\ f.pos = rd.pos
            BY DEF Save, Frame
        <3>2. Step(Advance(rd), f)
            BY <1>9, <2>1 DEF startWithNumber, At
        <3> HIDE DEF f
        <3>3. Remains(f)
            BY <3>1, Remaining
        <3> QED
            BY <2>1, <3>2, <3>3 DEF Stays, Onward, Step, At
    <2>2. CASE At("number2") /\ Peek(rd) \in {120, 88, 98}
        <3> DEFINE hex == Inc([fr EXCEPT !.tok = tok_hexLit, !.mark = Advance(rd).pos], "hex", "radixEnd")
                   bit == Inc([fr EXCEPT !.tok = tok_bitLit, !.mark = Advance(rd).pos], "bit", "radixEnd")
        <3>1. /\ hex.pc = "inc" /\ hex.ret = "radixEnd" /\ hex.pos = fr.pos
              /\ bit.pc = "inc" /\ bit.ret = "radixEnd" /\ bit.pos = fr.pos
            BY DEF Inc, Frame
        <3>2. \/ Step(rd, Goto("digits"))
              \/ Step(Advance(Peeked(rd)), hex) \/ Step(Advance(Peeked(rd)), bit)
            <4> HIDE FramesRemain, AsideLabels
            <4> QED
                BY <1>9, <2>2 DEF startWithNumber, At, Dot
        <3> HIDE DEF hex, bit
        <3>3. Remains(hex) /\ Remains(bit)
            BY <3>1, Remaining
        <3> QED
            BY <2>2, <3>2, <3>3 DEF Stays, Onward, Step, At
    <2>3. CASE At("number2") /\ Peek(rd) \notin {120, 88, 98}
        BY <1>9, <2>3 DEF startWithNumber, Stays, Onward, Step, At
    <2> QED
        BY <1>9, <2>1, <2>2, <2>3 DEF startWithNumber
<1>10. CASE radixEnd
    BY <1>10 DEF Stays, Onward, WentBack, At, radixEnd, Step
<1>11. CASE numberTail
    BY <1>11 DEF Stays, Onward, WentBack, At, numberTail, Step, Return, Result
<1>12. CASE scanFloat
    BY <1>12 DEF Stays, Onward, WentBack, At, scanFloat, Step, Return, Result
<1>13. CASE exponent
    BY <1>13 DEF Stays, Onward, WentBack, At, exponent, Step, Return, Result
<1>14. CASE startString
    <2>1. CASE At("string")
        <3> DEFINE f == [Save("stringPeek") EXCEPT !.ending = Peek(rd), !.useBuf = FALSE]
        <3>1. f.pc = "stringPeek" /\ f.pos = rd.pos
            BY DEF Save, Frame
        <3>2. Step(Advance(rd), f)
            BY <1>14, <2>1 DEF startString, At
        <3> HIDE DEF f
        <3>3. Remains(f)
            BY <3>1, Remaining
        <3> QED
            BY <2>1, <3>2, <3>3 DEF Stays, Onward, Step, At
    <2>2. CASE At("stringPeek")
        BY <1>14, <2>2 DEF startString, Stays, Onward, Step, At
    <2> QED
        BY <1>14, <2>1, <2>2 DEF startString
<1>15. CASE scanString
    BY <1>15 DEF Stays, Onward, WentBack, At, scanString, Step, StepBuf, Return, Result
<1>16. CASE afterQuote
    BY <1>16 DEF Stays, Onward, WentBack, At, afterQuote, Step, StepBuf, Return, Result
<1>17. CASE handleEscape
    BY <1>17 DEF Stays, Onward, WentBack, At, handleEscape, StepBuf
<1>18. CASE writeString
    BY <1>18 DEF Stays, Onward, WentBack, At, writeString, StepBuf
<1>19. CASE scanIdentifierOrString
    BY <1>19 DEF Stays, Onward, WentBack, At, scanIdentifierOrString, Step, Result
<1> QED
    BY <1>1, <1>2, <1>3, <1>4, <1>5, <1>6, <1>7, <1>8, <1>9, <1>10, <1>11, <1>12, <1>13,
       <1>14, <1>15, <1>16, <1>17, <1>18, <1>19 DEF Aloof

\* Therefore none of them disturbs Ahead.
LEMMA AloofNests == ScanInv /\ Aloof => Nests
<1> SUFFICES ASSUME ScanInv, Aloof
             PROVE  Nests
    OBVIOUS
<1> QED
    BY AloofStays, FramesRemain, Found, QuietNests DEF Stays, Remains

-----------------------------------------------------------------------------
\* scanner.cc:84-88: scan() goes on with the rune that is next.
LEMMA ScanNests == ScanInv /\ scan => Nests
<1> SUFFICES ASSUME ScanInv, scan
             PROVE  Nests
    OBVIOUS
<1>1. fr \in Frame /\ Peek(Peeked(rd)) = Peek(rd)
    BY Found, PeekAgain
<1>2. CASE is_space(Peek(rd))
    <2>1. fr' = Inc(Fresh, "space", "scanned")
        BY <1>2 DEF scan, Step
    <2>2. fr'.pc = "inc" /\ fr'.ret = "scanned"
        BY <2>1 DEF Inc, Fresh, NoFrame
    <2> QED
        BY <2>2 DEF Nests, Ahead, PastFirst, Returns
<1>3. CASE ~ is_space(Peek(rd))
    <2>1. fr' = [Fresh EXCEPT !.pc = "scanned", !.ch = Peek(rd)] /\ rd' = Peeked(rd)
        BY <1>3 DEF scan, Step
    <2>2. fr'.pc = "scanned" /\ fr'.ch = Peek(rd)
        BY <2>1 DEF Fresh, NoFrame
    <2>3. Peek(rd') = Peek(rd)
        BY <1>1, <2>1
    <2> QED
        BY <2>2, <2>3 DEF Nests, Ahead, PastFirst
<1> QED
    BY <1>2, <1>3

\* scanner.cc:89-100: a word begins, a text ends, or the trie takes over.
LEMMA ScannedNests == ScanInv /\ Ahead(rd, fr) /\ scanned => Nests
<1> SUFFICES ASSUME ScanInv, Ahead(rd, fr), scanned
             PROVE  Nests
    OBVIOUS
<1>1. fr \in Frame
    BY Found
<1>2. CASE Return(rd, 0, rd.pos, << >>)
    BY <1>1, <1>2, QuietNests, FramesRemain DEF Return, Result
<1>3. CASE Step(rd, Save("ident"))
    BY <1>1, <1>3, QuietNests, FramesRemain, AsideLabels DEF Step, Remains
<1>4. CASE Step(rd, Save("trie")) /\ At("scanned")
    <2>1. rd' = rd /\ fr' = Save("trie")
        BY <1>4 DEF Step
    <2>2. fr'.pc = "trie" /\ fr'.node = fr.node /\ fr'.ch = fr.ch
        BY <1>1, <2>1 DEF Save, Frame
    <2>3. fr.node = << >> /\ fr.ch # 0 => Peek(rd) = fr.ch
        BY <1>4 DEF Ahead, At
    <2> QED
        BY <2>1, <2>2, <2>3 DEF Nests, Ahead, PastFirst
<1> QED
    BY <1>2, <1>3, <1>4 DEF scanned

\* scanner.cc:100-114: the handler at the root is the one of the rune that is next;
\* behind an operator there is none.
LEMMA TrieNests == ScanInv /\ Ahead(rd, fr) /\ trie => Nests
<1> SUFFICES ASSUME ScanInv, Ahead(rd, fr), trie
             PROVE  Nests
    OBVIOUS
<1>1. fr \in Frame /\ At("trie")
    BY Found DEF trie
<1>2. CASE Return(rd, NodeToken(fr.node), fr.pos, Data(rd, fr.pos))
    BY <1>1, <1>2, QuietNests, FramesRemain DEF Return, Result
<1>3. CASE /\ fr.node = << >> /\ Handler(fr.ch) # "none" /\ ~Eof(rd)
           /\ Step(rd, Goto(Stub(Handler(fr.ch))))
    <2> DEFINE l == Stub(Handler(fr.ch))
    <2>1. rd' = rd /\ fr'.pc = l
        BY <1>1, <1>3 DEF Step, Goto, Frame
    <2>2. /\ l \in {"stub", "slash", "star", "sharp", "xx", "nn", "bb", "quoted", "number",
                    "string", "ident"}
          /\ l \in {"slash", "star", "sharp"} => fr.ch = CalledFor(l) /\ fr.ch # 0
        <3>1. Handler(fr.ch) \in {"at", "slash", "star", "dash", "sharp", "xx", "nn", "bb",
                                  "dot", "quoted", "number", "string", "ident", "none"}
            BY DEF Handler
        <3>2. /\ Handler(fr.ch) = "sharp" => fr.ch = Sharp
              /\ Handler(fr.ch) = "slash" => fr.ch = Slash
              /\ Handler(fr.ch) = "star" => fr.ch = Star
            BY SMT DEF Handler, Sharp
        <3>3. Sharp # 0 /\ Slash # 0 /\ Star # 0
            BY SMT DEF Sharp, Slash, Star
        <3> QED
            BY <1>3, <3>1, <3>2, <3>3 DEF Stub, CalledFor
    <2>3. l \in {"slash", "star", "sharp"} => Peek(rd) = CalledFor(l)
        BY <1>1, <1>3, <2>2 DEF Ahead, At
    <2> HIDE DEF l
    <2> QED
        BY <1>3, <2>1, <2>2, <2>3 DEF Nests, Ahead, PastFirst
<1>4. CASE Step(Advance(rd), [fr EXCEPT !.node = Append(fr.node, fr.ch), !.ch = Peek(rd)])
    <2>1. fr'.pc = "trie" /\ fr'.node = Append(fr.node, fr.ch)
        BY <1>1, <1>4 DEF Step, At, Frame
    <2>2. fr'.node # << >>
        <3>1. fr.node \in Seq(Byte)
            BY <1>1 DEF Frame
        <3>2. Len(Append(fr.node, fr.ch)) = Len(fr.node) + 1 /\ Len(fr.node) \in Nat
            BY <3>1, SMT
        <3> QED
            BY <2>1, <3>2, SMT
    <2> QED
        BY <2>1, <2>2 DEF Nests, Ahead, PastFirst
<1> QED
    BY <1>2, <1>3, <1>4 DEF trie
-----------------------------------------------------------------------------
\* The character that a handler is called for is there.
LEMMA CalledForIsThere ==
    ASSUME NEW label \in {"slash", "star", "sharp"}, NEW r, Peek(r) = CalledFor(label)
    PROVE  ~Eof(r)
<1>1. CalledFor(label) # rune_eof
    BY SMT DEF CalledFor, Slash, Star, Sharp, rune_eof
<1> QED
    BY <1>1 DEF Peek

\* A handler reads on, past the first character or about to be.
LEMMA ReadsOn ==
    ASSUME ScanInv
    PROVE  /\ rd.index <= Advance(rd).index /\ Advance(rd).index \in Nat
           /\ Advance(rd).pos.offset = Advance(rd).index
           /\ Peeked(rd).index = rd.index
           /\ rd.index <= Advance(Peeked(rd)).index /\ Advance(Peeked(rd)).index \in Nat
           /\ ~Eof(rd) => /\ rd.index < Advance(rd).index
                          /\ rd.index < Advance(Peeked(rd)).index
<1>1. ReaderInv(rd) /\ ReaderInv(Peeked(rd))
    BY Found
<1>2. Peeked(rd).index = rd.index /\ (Eof(Peeked(rd)) <=> Eof(rd))
    BY <1>1, PeekAgain
<1> QED
    BY <1>1, <1>2, AdvanceGrows

\* lexer.cc:57-119: the handler of '/' is past it, and the mark of a version
\* comment behind it.
LEMMA SlashNests == ScanInv /\ Ahead(rd, fr) /\ startWithSlash => Nests
<1> SUFFICES ASSUME ScanInv, Ahead(rd, fr), startWithSlash
             PROVE  Nests
    OBVIOUS
<1>1. fr \in Frame /\ rd.pos.offset = rd.index /\ rd.index \in Nat /\ fr.pos.offset \in Nat
    BY Found
<1>2. CASE At("slash") /\ Step(Advance(rd), Save("slash2"))
    <2>1. rd' = Advance(rd) /\ fr'.pc = "slash2" /\ fr'.pos = rd.pos
        BY <1>1, <1>2 DEF Step, Save, Frame
    <2>2. fr'.pos.offset < rd'.index
        BY <1>1, <1>2, <2>1, ReadsOn, CalledForIsThere DEF Ahead, At
    <2> QED
        BY <2>1, <2>2 DEF Nests, Ahead, PastFirst
<1>3. CASE Return(Peeked(rd), Slash, fr.pos, <<Slash>>)
    BY <1>1, <1>3, QuietNests, FramesRemain DEF Return, Result
<1>4. CASE At("slash2") /\ Step(Advance(Peeked(rd)), Goto("slash3"))
    <2>1. rd' = Advance(Peeked(rd)) /\ fr'.pc = "slash3" /\ fr'.pos = fr.pos
        BY <1>1, <1>4 DEF Step, Goto, Frame
    <2>2. fr.pos.offset < rd.index
        BY <1>4 DEF Ahead, At, PastFirst
    <2>3. fr.pos.offset < rd'.index
        BY <1>1, <2>1, <2>2, ReadsOn, SMT
    <2> QED
        BY <2>1, <2>3 DEF Nests, Ahead, PastFirst
<1>5. CASE At("slash3") /\ Step(Advance(rd), [Goto("version") EXCEPT !.mark = Advance(rd).pos, !.i = 0])
    <2>1. rd' = Advance(rd) /\ fr'.pc = "version" /\ fr'.pos = fr.pos /\ fr'.mark = Advance(rd).pos
        BY <1>1, <1>5 DEF Step, Goto, Frame
    <2>2. fr.pos.offset < rd.index
        BY <1>5 DEF Ahead, At, PastFirst
    <2>3. fr'.pos.offset < fr'.mark.offset
        BY <1>1, <2>1, <2>2, ReadsOn, SMT
    <2> QED
        BY <2>1, <2>3 DEF Nests, Ahead, PastFirst
<1>6. CASE At("slash3") /\ Step(Advance(rd), [Goto("comment") EXCEPT !.star = Peek(rd) = Star])
    <2>1. rd' = Advance(rd) /\ fr'.pc = "comment" /\ fr'.pos = fr.pos
        BY <1>1, <1>6 DEF Step, Goto, Frame
    <2>2. fr.pos.offset < rd.index
        BY <1>6 DEF Ahead, At, PastFirst
    <2>3. fr.pos.offset < rd'.index
        BY <1>1, <2>1, <2>2, ReadsOn, SMT
    <2> QED
        BY <2>1, <2>3 DEF Nests, Ahead, PastFirst
<1> QED
    BY <1>2, <1>3, <1>4, <1>5, <1>6 DEF startWithSlash

\* scanner.cc:67-82: scan() goes on behind the version, or where the version would
\* have begun; both are past the comment's first character.
LEMMA VersionNests == ScanInv /\ Ahead(rd, fr) /\ scanVersionDigits => Nests
<1> SUFFICES ASSUME ScanInv, Ahead(rd, fr), scanVersionDigits
             PROVE  Nests
    OBVIOUS
<1>1. fr \in Frame /\ At("version")
    BY Found DEF scanVersionDigits
<1>2. /\ fr.pos.offset < fr.mark.offset /\ fr.mark.offset <= rd.index
      /\ rd.index \in Nat /\ fr.pos.offset \in Nat /\ fr.mark.offset \in Nat
    BY <1>1, Found DEF Ahead, At
<1>3. CASE Step(Advance(Peeked(rd)), [fr EXCEPT !.i = fr.i + 1])
    <2>1. fr'.pc = "version" /\ fr'.pos = fr.pos /\ fr'.mark = fr.mark
        BY <1>1, <1>3 DEF Step, At, Frame
    <2> QED
        BY <1>2, <2>1 DEF Nests, Ahead, PastFirst
<1>4. ASSUME NEW r, Rescan(r, TRUE), r.index \in Nat, fr.mark.offset <= r.index
      PROVE  Nests
    <2>1. rd' = r /\ fr'.pc = "scan"
        BY <1>1, <1>4 DEF Rescan, Goto, Frame
    <2>2. fr.pos.offset < r.index
        BY <1>2, <1>4, SMT
    <2> QED
        BY <2>1, <2>2 DEF Nests, Ahead, PastFirst
<1>5. CASE Rescan(UpdatePos(Peeked(rd), fr.mark), TRUE)
    <2>1. ReaderInv(Peeked(rd)) /\ Saved(Peeked(rd), fr.mark)
        BY <1>1, Found, PeekedInv DEF Saved
    <2>2. UpdatePos(Peeked(rd), fr.mark).index = fr.mark.offset
        BY <2>1, UpdatePosLands
    <2>3. fr.mark.offset <= UpdatePos(Peeked(rd), fr.mark).index
        BY <1>2, <2>2
    <2> QED
        BY <1>2, <1>4, <1>5, <2>2, <2>3
<1>6. CASE Rescan(IF fr.i = versionMax THEN rd ELSE Peeked(rd), TRUE)
    <2>1. (IF fr.i = versionMax THEN rd ELSE Peeked(rd)).index = rd.index
        BY ReadsOn
    <2> QED
        BY <1>2, <1>4, <1>6, <2>1
<1> QED
    BY <1>3, <1>5, <1>6 DEF scanVersionDigits

\* lexer.cc:121-146: so is the end of a comment.
LEMMA CommentNests == ScanInv /\ Ahead(rd, fr) /\ comment => Nests
<1> SUFFICES ASSUME ScanInv, Ahead(rd, fr), comment
             PROVE  Nests
    OBVIOUS
<1>1. fr \in Frame /\ rd.index \in Nat /\ fr.pos.offset \in Nat
    BY Found
<1>2. fr.pos.offset < rd.index
    BY DEF comment, Ahead, At, PastFirst
<1>3. CASE Step(rd, Inc(fr, "notStar", "afterStar"))
    <2>1. rd' = rd /\ fr'.pc = "inc" /\ fr'.ret = "afterStar" /\ fr'.pos = fr.pos
        BY <1>1, <1>3 DEF Step, Inc, Frame
    <2> QED
        BY <1>2, <2>1 DEF Nests, Ahead, PastFirst, Returns
<1>4. CASE Step(rd, [Goto("afterStar") EXCEPT !.ch = Star])
    <2>1. rd' = rd /\ fr'.pc = "afterStar" /\ fr'.pos = fr.pos
        BY <1>1, <1>4 DEF Step, Goto, Frame
    <2> QED
        BY <1>2, <2>1 DEF Nests, Ahead, PastFirst
<1>5. CASE ReturnNothing(rd)
    BY <1>1, <1>5, QuietNests, FramesRemain DEF ReturnNothing, Result
<1>6. fr.pos.offset < Advance(rd).index
    BY <1>1, <1>2, ReadsOn, SMT
<1>7. CASE Step(Advance(rd), Goto("scan"))
    <2>1. rd' = Advance(rd) /\ fr'.pc = "scan"
        BY <1>1, <1>7 DEF Step, Goto, Frame
    <2> QED
        BY <1>6, <2>1 DEF Nests, Ahead, PastFirst
<1>8. CASE Step(Advance(rd), [Goto("comment") EXCEPT !.star = Peek(rd) = Star])
    <2>1. rd' = Advance(rd) /\ fr'.pc = "comment" /\ fr'.pos = fr.pos
        BY <1>1, <1>8 DEF Step, Goto, Frame
    <2> QED
        BY <1>6, <2>1 DEF Nests, Ahead, PastFirst
<1> QED
    BY <1>3, <1>4, <1>5, <1>7, <1>8 DEF comment

\* lexer.cc:148-161: and the end of a bang comment.
LEMMA StarNests == ScanInv /\ Ahead(rd, fr) /\ startWithStar => Nests
<1> SUFFICES ASSUME ScanInv, Ahead(rd, fr), startWithStar
             PROVE  Nests
    OBVIOUS
<1>1. fr \in Frame /\ rd.pos.offset = rd.index /\ rd.index \in Nat /\ fr.pos.offset \in Nat
    BY Found
<1>2. CASE At("star") /\ Step(Advance(rd), Save("star2"))
    <2>1. rd' = Advance(rd) /\ fr'.pc = "star2" /\ fr'.pos = rd.pos
        BY <1>1, <1>2 DEF Step, Save, Frame
    <2>2. fr'.pos.offset < rd'.index
        BY <1>1, <1>2, <2>1, ReadsOn, CalledForIsThere DEF Ahead, At
    <2> QED
        BY <2>1, <2>2 DEF Nests, Ahead, PastFirst
<1>3. CASE At("star2") /\ Rescan(Advance(Peeked(rd)), FALSE)
    <2>1. rd' = Advance(Peeked(rd)) /\ fr'.pc = "scan"
        BY <1>1, <1>3 DEF Rescan, Goto, Frame
    <2>2. fr.pos.offset < rd.index
        BY <1>3 DEF Ahead, At, PastFirst
    <2>3. fr.pos.offset < rd'.index
        BY <1>1, <2>1, <2>2, ReadsOn, SMT
    <2> QED
        BY <2>1, <2>3 DEF Nests, Ahead, PastFirst
<1>4. CASE Return(IF inBang THEN Peeked(rd) ELSE rd, Star, fr.pos, <<Star>>)
    BY <1>1, <1>4, QuietNests, FramesRemain DEF Return, Result
<1> QED
    BY <1>2, <1>3, <1>4 DEF startWithStar

\* lexer.cc:165-168: '#' itself is no newline.
LEMMA SharpNests == ScanInv /\ Ahead(rd, fr) /\ startWithSharp => Nests
<1> SUFFICES ASSUME ScanInv, Ahead(rd, fr), startWithSharp
             PROVE  Nests
    OBVIOUS
<1>1. fr \in Frame /\ Peek(rd) = Sharp
    BY Found DEF startWithSharp, Ahead, At, CalledFor
<1>2. rd' = rd /\ fr'.pc = "inc" /\ fr'.ret = "scan" /\ fr'.pred = "notNewline"
    BY <1>1 DEF startWithSharp, Step, Inc, Frame
<1> QED
    BY <1>1, <1>2 DEF Nests, Ahead, PastFirst, Returns

\* reader.cc:140-151: incAsLongAs passes over '#' before it comes back.
LEMMA IncNests == ScanInv /\ Ahead(rd, fr) /\ incAsLongAs => Nests
<1> SUFFICES ASSUME ScanInv, Ahead(rd, fr), incAsLongAs
             PROVE  Nests
    OBVIOUS
<1>1. /\ fr \in Frame /\ ReaderInv(rd) /\ rd.index \in Nat
      /\ fr.pos.offset \in Nat /\ fr.pos.offset <= rd.index
    BY Found
<1>2. At("inc") /\ fr.ret \in Returns
    BY DEF incAsLongAs, IncNext, IncErrored, IncStop, Ahead, At
<1>3. CASE IncNext
    <2>1. rd' = Advance(Peeked(rd)) /\ fr' = fr
        BY <1>3 DEF IncNext, Step
    <2>2. fr.ret = "afterStar" => fr.pos.offset < rd'.index
        <3>1. fr.ret = "afterStar" => fr.pos.offset < rd.index
            BY <1>2 DEF Ahead, At
        <3> QED
            BY <1>1, <2>1, <3>1, ReadsOn, SMT
    <2>3. fr.ret = "scan" => fr.pos.offset < rd'.index
        <3>1. Peek(rd) = Sharp => ~Eof(rd)
            BY SMT DEF Peek, Sharp, rune_eof
        <3>2. fr.ret = "scan" => fr.pos.offset < rd.index \/ ~Eof(rd)
            BY <1>2, <3>1 DEF Ahead, At
        <3> QED
            BY <1>1, <2>1, <3>2, ReadsOn, SMT
    <2> QED
        BY <1>2, <2>1, <2>2, <2>3 DEF Nests, Ahead, At, PastFirst
<1>4. ASSUME NEW c, Step(Peeked(rd), [fr EXCEPT !.pc = fr.ret, !.ch = c]),
             c # 0 => Peek(rd) = c,
             Peek(rd) = Sharp => fr.pred # "notNewline"
      PROVE  Nests
    <2>1. rd' = Peeked(rd) /\ fr'.pc = fr.ret /\ fr'.ch = c /\ fr'.pos = fr.pos
        BY <1>1, <1>4 DEF Step, Frame
    <2>2. rd'.index = rd.index /\ Peek(rd') = Peek(rd)
        BY <1>1, <2>1, PeekAgain
    <2>3. fr.ret \in {"scan", "afterStar"} => fr.pos.offset < rd'.index
        BY <1>2, <1>4, <2>2 DEF Ahead, At
    <2> QED
        BY <1>2, <1>4, <2>1, <2>2, <2>3 DEF Nests, Ahead, PastFirst, Returns
<1>5. CASE IncErrored
    <2>1. Peek(rd) # Sharp
        BY <1>5, SMT DEF IncErrored, is_errored, Sharp, rune_eof, rune_invalid
    <2> QED
        BY <1>4, <1>5, <2>1 DEF IncErrored
<1>6. CASE IncStop
    <2>1. fr.pred = "notNewline" => Peek(rd) = 10
        BY <1>6, SMT DEF IncStop, Holds, Newline
    <2>2. Peek(rd) = Sharp => fr.pred # "notNewline"
        BY <2>1, SMT DEF Sharp
    <2> QED
        BY <1>4, <1>6, <2>2 DEF IncStop
<1> QED
    BY <1>3, <1>5, <1>6 DEF incAsLongAs

-----------------------------------------------------------------------------
\* Between two calls nothing is said of the reader.
LEMMA ClientNests == ScanInv /\ Ahead(rd, fr) /\ Client => Nests
<1> SUFFICES ASSUME ScanInv, Ahead(rd, fr), Client
             PROVE  Nests
    OBVIOUS
<1>1. fr \in Frame /\ At("idle")
    BY Found DEF Client, Call, CallWord, isTokenIdentifier, reset, InheritScanner, SetSQLMode
<1>2. fr'.pc \in {"idle", "scan", "word"}
    <2>1. CASE Call
        BY <2>1 DEF Call, Step, NoFrame
    <2>2. CASE CallWord
        BY <2>2 DEF CallWord, Step, NoFrame
    <2>3. CASE fr' = fr
        BY <1>1, <2>3 DEF At
    <2> QED
        BY <2>1, <2>2, <2>3 DEF Client, isTokenIdentifier, Step, reset, InheritScanner, SetSQLMode
<1> QED
    BY <1>1, <1>2 DEF Nests, Ahead, PastFirst

\* Every step keeps Ahead.
LEMMA NextNests == ScanInv /\ Ahead(rd, fr) /\ Next => Nests
BY AloofNests, ScanNests, ScannedNests, TrieNests, SlashNests, VersionNests, CommentNests,
   StarNests, SharpNests, IncNests, ClientNests DEF Next, Scanning, Aloof

\* Each time a handler calls scan() again the reader has moved past the
\* character that handler was called for, in every statement: the calls on the
\* stack are never more than its characters.
THEOREM ScannerNestsForward == Spec => NestedScanAdvances
<1> DEFINE Forth == fr'.pc = "scan" /\ ~At("idle") => rd'.index > fr.pos.offset
<1>1. Init => Ahead(rd, fr)
    BY DEF Init, NoFrame, Ahead, PastFirst
<1>2. ScanInv /\ Ahead(rd, fr) /\ [Next]_vars => Ahead(rd, fr)'
    <2>1. ScanInv /\ Ahead(rd, fr) /\ Next => Ahead(rd, fr)'
        BY NextNests DEF Nests, Ahead
    <2>2. Ahead(rd, fr) /\ UNCHANGED vars => Ahead(rd, fr)'
        BY DEF vars, Ahead
    <2> QED
        BY <2>1, <2>2
<1>3. ScanInv /\ Ahead(rd, fr) /\ [Next]_vars => [Forth]_vars
    BY NextNests DEF Nests
<1> QED
    BY <1>1, <1>2, <1>3, ScannerInvariant, PTL DEF Spec, NestedScanAdvances
-----------------------------------------------------------------------------
(***************************************************************************)
(* Bang comments.                                                          *)
(***************************************************************************)
\* One is opened in the first n bytes.
Opened(s, n) ==
    \E k \in Nat : k + 3 <= n /\ s[k + 1] = Slash /\ s[k + 2] = Star /\ s[k + 3] = Bang

\* How far the reader has come for good: a handler may go back to its token.
Floor(r, f) == IF Begun(f) THEN f.pos.offset ELSE r.index

\* A bang comment is opened before the token that is being read, and what the
\* handler of '/' has read of its opener is there.
Behind(r, f, bang) ==
    /\ bang => Opened(r.slice, Floor(r, f))
    /\ f.pc \in {"slash2", "slash3"} => r.slice[f.pos.offset + 1] = Slash
    /\ f.pc = "slash2" => r.index = f.pos.offset + 1
    /\ f.pc = "slash3" => r.index = f.pos.offset + 2 /\ r.slice[f.pos.offset + 2] = Star
    /\ f.pc = "version" => Opened(r.slice, f.mark.offset)

\* What is opened stays opened.
LEMMA OpenedGrows ==
    ASSUME NEW s, NEW m \in Nat, NEW n \in Nat, m <= n, Opened(s, m)
    PROVE  Opened(s, n)
<1>1. PICK k \in Nat : k + 3 <= m /\ s[k + 1] = Slash /\ s[k + 2] = Star /\ s[k + 3] = Bang
    BY DEF Opened
<1>2. k + 3 <= n
    BY <1>1, SMT
<1> QED
    BY <1>1, <1>2 DEF Opened

\* A character of the opener that the reader sees is a byte of the text.
LEMMA SeenIsThere ==
    ASSUME NEW r, ReaderInv(r), NEW c \in {Slash, Star, Bang}, Peek(r) = c
    PROVE  r.slice[r.index + 1] = c /\ Advance(r).index = r.index + 1
<1>1. c \in 1 .. 63 /\ c # rune_eof /\ c # rune_invalid
    BY SMT DEF Slash, Star, Bang, rune_eof, rune_invalid
<1>2. ~Eof(r) /\ RuneAt(r.slice, r.index) = c
    BY <1>1 DEF Peek
<1>3. r.slice \in Seq(Byte) /\ r.index \in Nat /\ r.index < Len(r.slice)
    BY <1>2, ReaderFields, SMT DEF ReaderInv, Eof
<1>4. DecodeValue(r.slice, r.index) = c
    BY <1>1, <1>2, Zenon DEF RuneAt
<1>5. ~IsMultibyte(r.slice, r.index)
    BY <1>1, <1>3, <1>4, MultibyteValue, SMT
<1>6. DecodeWidth(r.slice, r.index) = 1
    BY <1>5 DEF DecodeWidth
<1>7. r.slice[r.index + 1] = c
    BY <1>4, <1>6 DEF DecodeValue
<1>8. Advance(r).index = r.index + 1
    <2> DEFINE p == PosAfterNext(r)
    <2>1. p.offset = r.index + 1
        BY <1>6 DEF PosAfterNext
    <2>2. EndsRune(r, p)
        BY <1>2, PosAfterEndsRune
    <2> HIDE DEF p
    <2>3. Forward(r, p).index = p.offset
        BY <1>2, <2>2, ForwardInv
    <2>4. Advance(r) = Forward(r, p)
        BY <1>2 DEF Advance, p
    <2> QED
        BY <2>1, <2>3, <2>4
<1> QED
    BY <1>7, <1>8

\* Looking and reading leave the reader no further back, on the same text.
LEMMA OnwardFacts ==
    ASSUME ScanInv
    PROVE  \A r \in Onward : /\ r.slice = rd.slice /\ r.index \in Nat /\ rd.index <= r.index
                             /\ fr.pos.offset <= r.index
<1>1. /\ rd.index \in Nat /\ fr.pos.offset \in Nat /\ fr.pos.offset <= rd.index
      /\ ReaderInv(rd) /\ ReaderInv(Peeked(rd))
    BY Found
<1>2. /\ Peeked(rd).slice = rd.slice /\ Advance(rd).slice = rd.slice
      /\ Advance(Peeked(rd)).slice = rd.slice
    BY <1>1, PeekedInv, AdvanceInv
<1>3. ASSUME NEW r \in Onward
      PROVE  r.slice = rd.slice /\ r.index \in Nat /\ rd.index <= r.index
    BY <1>1, <1>2, ReadsOn, SMT DEF Onward
<1>4. ASSUME NEW r \in Onward
      PROVE  fr.pos.offset <= r.index
    BY <1>1, <1>3, SMT
<1> QED
    BY <1>3, <1>4

\* A step behind which the opener is as far as before.
LEMMA StaysBehind ==
    ASSUME ScanInv, Behind(rd, fr, inBang), NEW r, NEW f, NEW bang,
           r.slice = rd.slice, bang => inBang,
           Floor(r, f) \in Nat, Floor(rd, fr) <= Floor(r, f),
           f.pc \notin {"slash2", "slash3", "version"}
    PROVE  Behind(r, f, bang)
<1>1. Floor(rd, fr) \in Nat
    BY Found DEF Floor
<1>2. bang => Opened(r.slice, Floor(r, f))
    BY <1>1, OpenedGrows DEF Behind
<1> QED
    BY <1>2 DEF Behind

\* A handler that reads on, or goes back, and keeps its position.
LEMMA KeepsBehind ==
    ASSUME ScanInv, Behind(rd, fr, inBang), NEW r, NEW f,
           r \in Onward \cup WentBack, Begun(fr), Begun(f), f.pos = fr.pos,
           f.pc \notin {"slash2", "slash3", "version"}
    PROVE  Behind(r, f, inBang)
<1>1. fr.pos.offset \in Nat /\ ReaderInv(rd) /\ ReaderInv(Peeked(rd))
    BY Found
<1>2. r.slice = rd.slice
    <2>1. Saved(rd, fr.pos) /\ Saved(Peeked(rd), fr.pos) /\ Peeked(rd).slice = rd.slice
        BY <1>1, PeekedInv DEF ScanInv, GoodFrame, Saved
    <2> QED
        BY <1>1, <2>1, OnwardFacts, UpdatePosLands DEF WentBack
<1>3. Floor(r, f) \in Nat /\ Floor(rd, fr) <= Floor(r, f)
    BY <1>1, SMT DEF Floor
<1> QED
    BY <1>2, <1>3, StaysBehind

\* Or takes its token to begin where the reader is.
LEMMA BeginsBehind ==
    ASSUME ScanInv, Behind(rd, fr, inBang), NEW r, NEW f,
           r \in Onward \cup WentBack, Begun(f), f.pos = rd.pos,
           f.pc \notin {"slash2", "slash3", "version"}
    PROVE  Behind(r, f, inBang)
<1>1. /\ rd.index \in Nat /\ fr.pos.offset \in Nat /\ fr.pos.offset <= rd.index
      /\ rd.pos.offset = rd.index /\ ReaderInv(rd) /\ ReaderInv(Peeked(rd))
    BY Found
<1>2. r.slice = rd.slice
    <2>1. Saved(rd, fr.pos) /\ Saved(Peeked(rd), fr.pos) /\ Peeked(rd).slice = rd.slice
        BY <1>1, PeekedInv DEF ScanInv, GoodFrame, Saved
    <2> QED
        BY <1>1, <2>1, OnwardFacts, UpdatePosLands DEF WentBack
<1>3. Floor(r, f) \in Nat /\ Floor(rd, fr) <= Floor(r, f)
    BY <1>1, SMT DEF Floor
<1> QED
    BY <1>2, <1>3, StaysBehind

\* A call that returns, or looks for its token, leaves the reader no further back.
LEMMA LeavesBehind ==
    ASSUME ScanInv, Behind(rd, fr, inBang), NEW r \in Onward, NEW f, ~Begun(f),
           NEW bang, bang => inBang
    PROVE  Behind(r, f, bang)
<1>1. r.slice = rd.slice /\ r.index \in Nat /\ rd.index <= r.index /\ fr.pos.offset <= r.index
    BY OnwardFacts
<1>2. Floor(r, f) \in Nat /\ Floor(rd, fr) <= Floor(r, f)
    BY <1>1 DEF Floor
<1>3. f.pc \notin {"slash2", "slash3", "version"}
    BY DEF Begun
<1> QED
    BY <1>1, <1>2, <1>3, StaysBehind

\* So does a step that returns.
LEMMA ReturnBehind ==
    ASSUME ScanInv, Behind(rd, fr, inBang), NEW r \in Onward,
           NEW tok, NEW pos, NEW lit, NEW begin, Result(r, tok, pos, lit, begin)
    PROVE  Behind(rd', fr', inBang')
<1>1. rd' = r /\ fr' = NoFrame /\ inBang' = inBang
    BY DEF Result
<1>2. ~Begun(NoFrame)
    BY DEF NoFrame, Begun
<1> QED
    BY <1>1, <1>2, LeavesBehind

\* The handlers that are called for no '/', '*' or '#' read on or go back.
LEMMA AloofBehind == ScanInv /\ Behind(rd, fr, inBang) /\ Aloof => Behind(rd', fr', inBang')
<1> SUFFICES ASSUME ScanInv, Behind(rd, fr, inBang), Aloof
             PROVE  Behind(rd', fr', inBang')
    OBVIOUS
<1>1. Stays
    BY AloofStays
<1>2. CASE fr' = NoFrame /\ rd' \in Onward
    <2>1. ~Begun(fr')
        BY <1>2 DEF NoFrame, Begun
    <2> QED
        BY <1>1, <1>2, <2>1, LeavesBehind DEF Stays
<1>3. CASE Remains(fr') /\ rd' \in Onward \cup WentBack
    <2>1. Begun(fr) /\ Begun(fr')
        BY <1>1, <1>3 DEF Stays, Remains, Quiet, Resumes, Begun
    <2>2. fr'.pc \notin {"slash2", "slash3", "version"}
        BY <1>3 DEF Remains, Quiet, PastFirst
    <2>3. fr'.pos = rd.pos \/ fr'.pos = fr.pos
        BY <1>3 DEF Remains
    <2>4. Behind(rd', fr', inBang)
        BY <1>3, <2>1, <2>2, <2>3, KeepsBehind, BeginsBehind
    <2> QED
        BY <1>1, <2>4 DEF Stays
<1> QED
    BY <1>1, <1>2, <1>3 DEF Stays

\* scanner.cc:84-88: there is no token yet, and white space is passed over.
LEMMA ScanBehind == ScanInv /\ Behind(rd, fr, inBang) /\ scan => Behind(rd', fr', inBang')
<1> SUFFICES ASSUME ScanInv, Behind(rd, fr, inBang), scan
             PROVE  Behind(rd', fr', inBang')
    OBVIOUS
<1>1. rd' = Peeked(rd) /\ inBang' = inBang
    BY DEF scan, Step
<1>2. CASE is_space(Peek(rd))
    <2>1. fr' = Inc(Fresh, "space", "scanned")
        BY <1>2 DEF scan, Step
    <2>2. fr'.pc = "inc" /\ fr'.ret = "scanned"
        BY <2>1 DEF Inc, Fresh, NoFrame
    <2> QED
        BY <1>1, <2>2, LeavesBehind DEF Begun, Onward
<1>3. CASE ~ is_space(Peek(rd))
    <2>1. fr' = [Fresh EXCEPT !.pc = "scanned", !.ch = Peek(rd)]
        BY <1>3 DEF scan, Step
    <2>2. fr'.pc = "scanned"
        BY <2>1 DEF Fresh, NoFrame
    <2> QED
        BY <1>1, <2>2, LeavesBehind DEF Begun, Onward
<1> QED
    BY <1>2, <1>3

\* scanner.cc:89-100: the token begins where the reader is.
LEMMA ScannedBehind == ScanInv /\ Behind(rd, fr, inBang) /\ scanned => Behind(rd', fr', inBang')
<1> SUFFICES ASSUME ScanInv, Behind(rd, fr, inBang), scanned
             PROVE  Behind(rd', fr', inBang')
    OBVIOUS
<1>1. CASE Return(rd, 0, rd.pos, << >>)
    BY <1>1, ReturnBehind DEF Return, Onward
<1>2. ASSUME NEW label \in {"ident", "trie"}, Step(rd, Save(label))
      PROVE  Behind(rd', fr', inBang')
    <2>1. rd' = rd /\ inBang' = inBang /\ fr'.pc = label /\ fr'.pos = rd.pos
        BY <1>2, Found DEF Step, Save, Frame
    <2>2. Begun(fr') /\ fr'.pc \notin {"slash2", "slash3", "version"}
        BY <2>1 DEF Begun
    <2>3. Behind(rd', fr', inBang)
        BY <2>1, <2>2, BeginsBehind DEF Onward
    <2> QED
        BY <2>1, <2>3
<1> QED
    BY <1>1, <1>2 DEF scanned

\* scanner.cc:100-114: an operator is read on, or the handler of its first rune called.
LEMMA TrieBehind == ScanInv /\ Behind(rd, fr, inBang) /\ trie => Behind(rd', fr', inBang')
<1> SUFFICES ASSUME ScanInv, Behind(rd, fr, inBang), trie
             PROVE  Behind(rd', fr', inBang')
    OBVIOUS
<1>1. fr \in Frame /\ At("trie") /\ Begun(fr)
    BY Found DEF trie, At, Begun
<1>2. CASE Return(rd, NodeToken(fr.node), fr.pos, Data(rd, fr.pos))
    BY <1>2, ReturnBehind DEF Return, Onward
<1>3. CASE Handler(fr.ch) # "none" /\ Step(rd, Goto(Stub(Handler(fr.ch))))
    <2> DEFINE l == Stub(Handler(fr.ch))
    <2>1. rd' = rd /\ inBang' = inBang /\ fr'.pc = l /\ fr'.pos = fr.pos
        BY <1>1, <1>3 DEF Step, Goto, Frame
    <2>2. l \in {"stub", "slash", "star", "sharp", "xx", "nn", "bb", "quoted", "number",
                 "string", "ident"}
        <3>1. Handler(fr.ch) \in {"at", "slash", "star", "dash", "sharp", "xx", "nn", "bb",
                                  "dot", "quoted", "number", "string", "ident", "none"}
            BY DEF Handler
        <3> QED
            BY <1>3, <3>1 DEF Stub
    <2> HIDE DEF l
    <2>3. Begun(fr') /\ fr'.pc \notin {"slash2", "slash3", "version"}
        BY <2>1, <2>2 DEF Begun
    <2> QED
        BY <1>1, <2>1, <2>3, KeepsBehind DEF Onward
<1>4. CASE Step(Advance(rd), [fr EXCEPT !.node = Append(fr.node, fr.ch), !.ch = Peek(rd)])
    <2>1. /\ rd' = Advance(rd) /\ inBang' = inBang
          /\ fr'.pc = "trie" /\ fr'.pos = fr.pos
        BY <1>1, <1>4 DEF Step, At, Frame
    <2>2. Begun(fr')
        BY <2>1 DEF Begun
    <2> QED
        BY <1>1, <2>1, <2>2, KeepsBehind DEF Onward
<1> QED
    BY <1>2, <1>3, <1>4 DEF trie

\* lexer.cc:57-119: the handler of '/' reads the opener of a bang comment.
LEMMA SlashBehind ==
    ASSUME ScanInv, Ahead(rd, fr), Behind(rd, fr, inBang), startWithSlash
    PROVE  Behind(rd', fr', inBang')
<1>1. /\ fr \in Frame /\ Begun(fr) /\ ReaderInv(rd) /\ ReaderInv(Peeked(rd))
      /\ rd.pos.offset = rd.index /\ rd.index \in Nat /\ fr.pos.offset \in Nat
    BY Found DEF startWithSlash, At, Begun
<1>2. ASSUME NEW r \in Onward, NEW f, Step(r, f), Begun(f), f.pos = rd.pos \/ f.pos = fr.pos
      PROVE  inBang' => Opened(rd'.slice, Floor(rd', fr'))
    <2>1. rd' = r /\ fr' = f /\ inBang' = inBang /\ r.slice = rd.slice
        BY <1>2, OnwardFacts DEF Step
    <2>2. /\ Floor(r, f) \in Nat /\ Floor(rd, fr) \in Nat /\ Floor(rd, fr) <= Floor(r, f)
        BY <1>1, <1>2, Found, SMT DEF Floor
    <2> QED
        BY <2>1, <2>2, OpenedGrows DEF Behind
<1>3. CASE At("slash") /\ Step(Advance(rd), Save("slash2"))
    <2>1. rd' = Advance(rd) /\ fr' = Save("slash2") /\ fr'.pc = "slash2" /\ fr'.pos = rd.pos
        BY <1>1, <1>3 DEF Step, Save, Frame
    <2>2. Begun(fr')
        BY <2>1 DEF Begun
    <2>3. Peek(rd) = Slash
        BY <1>3 DEF Ahead, At, CalledFor
    <2>4. rd.slice[rd.index + 1] = Slash /\ Advance(rd).index = rd.index + 1
        BY <1>1, <2>3, SeenIsThere
    <2>5. Advance(rd).slice = rd.slice
        BY OnwardFacts DEF Onward
    <2>6. inBang' => Opened(rd'.slice, Floor(rd', fr'))
        BY <1>2, <1>3, <2>1, <2>2 DEF Onward
    <2> QED
        BY <1>1, <2>1, <2>4, <2>5, <2>6 DEF Behind
<1>4. CASE Return(Peeked(rd), Slash, fr.pos, <<Slash>>)
    BY <1>4, ReturnBehind DEF Return, Onward
<1>5. CASE At("slash2") /\ Peek(rd) = Star /\ Step(Advance(Peeked(rd)), Goto("slash3"))
    <2>1. /\ rd' = Advance(Peeked(rd)) /\ fr' = Goto("slash3")
          /\ fr'.pc = "slash3" /\ fr'.pos = fr.pos
        BY <1>1, <1>5 DEF Step, Goto, Frame
    <2>2. Begun(fr')
        BY <2>1 DEF Begun
    <2>3. /\ Peek(Peeked(rd)) = Star /\ Peeked(rd).index = rd.index
          /\ Peeked(rd).slice = rd.slice /\ Advance(Peeked(rd)).slice = rd.slice
        BY <1>1, <1>5, PeekAgain, OnwardFacts DEF Onward
    <2>4. rd.slice[rd.index + 1] = Star /\ Advance(Peeked(rd)).index = rd.index + 1
        BY <1>1, <2>3, SeenIsThere
    <2>5. rd.slice[fr.pos.offset + 1] = Slash /\ rd.index = fr.pos.offset + 1
        BY <1>5 DEF Behind, At
    <2>6. rd'.index = fr.pos.offset + 2 /\ rd.slice[fr.pos.offset + 2] = Star
        <3>1. (fr.pos.offset + 1) + 1 = fr.pos.offset + 2
            BY <1>1, SMT
        <3> QED
            BY <2>1, <2>4, <2>5, <3>1
    <2>7. inBang' => Opened(rd'.slice, Floor(rd', fr'))
        BY <1>2, <1>5, <2>1, <2>2 DEF Onward
    <2> QED
        BY <2>1, <2>3, <2>5, <2>6, <2>7 DEF Behind
<1>6. CASE /\ At("slash3") /\ Peek(rd) = Bang
           /\ Step(Advance(rd), [Goto("version") EXCEPT !.mark = Advance(rd).pos, !.i = 0])
    <2> DEFINE f == [Goto("version") EXCEPT !.mark = Advance(rd).pos, !.i = 0]
    <2>1. f.pc = "version" /\ f.pos = fr.pos /\ f.mark = Advance(rd).pos
        BY <1>1 DEF Goto, Frame
    <2>2. rd' = Advance(rd) /\ fr' = f /\ Step(Advance(rd), f)
        BY <1>6 DEF Step
    <2> HIDE DEF f
    <2>3. Begun(f)
        BY <2>1 DEF Begun
    <2>4. rd.slice[rd.index + 1] = Bang /\ Advance(rd).index = rd.index + 1
        BY <1>1, <1>6, SeenIsThere
    <2>5. /\ rd.slice[fr.pos.offset + 1] = Slash /\ rd.slice[fr.pos.offset + 2] = Star
          /\ rd.index = fr.pos.offset + 2
        BY <1>6 DEF Behind, At
    <2>6. f.mark.offset = fr.pos.offset + 3 /\ rd.slice[fr.pos.offset + 3] = Bang
        <3>1. (fr.pos.offset + 2) + 1 = fr.pos.offset + 3
            BY <1>1, SMT
        <3> QED
            BY <2>1, <2>4, <2>5, <3>1, ReadsOn
    <2>7. Opened(rd.slice, f.mark.offset)
        BY <1>1, <2>5, <2>6, SMT DEF Opened
    <2>8. Advance(rd).slice = rd.slice
        BY OnwardFacts DEF Onward
    <2>9. inBang' => Opened(rd'.slice, Floor(rd', fr'))
        BY <1>2, <2>1, <2>2, <2>3 DEF Onward
    <2> QED
        BY <2>1, <2>2, <2>7, <2>8, <2>9 DEF Behind
<1>7. CASE Step(Advance(rd), [Goto("comment") EXCEPT !.star = Peek(rd) = Star])
    <2>1. /\ rd' = Advance(rd) /\ inBang' = inBang
          /\ fr'.pc = "comment" /\ fr'.pos = fr.pos
        BY <1>1, <1>7 DEF Step, Goto, Frame
    <2>2. Begun(fr')
        BY <2>1 DEF Begun
    <2> QED
        BY <1>1, <2>1, <2>2, KeepsBehind DEF Onward
<1> QED
    BY <1>3, <1>4, <1>5, <1>6, <1>7 DEF startWithSlash

\* scanner.cc:67-82: scan() goes on behind the opener.
LEMMA VersionBehind ==
    ASSUME ScanInv, Behind(rd, fr, inBang), scanVersionDigits
    PROVE  Behind(rd', fr', inBang')
<1>1. /\ fr \in Frame /\ At("version") /\ ReaderInv(rd)
      /\ fr.mark.offset \in Nat /\ fr.mark.offset <= rd.index /\ rd.index \in Nat
    BY Found DEF scanVersionDigits
<1>2. Opened(rd.slice, fr.mark.offset)
    BY <1>1 DEF Behind, At
<1>3. CASE Step(Advance(Peeked(rd)), [fr EXCEPT !.i = fr.i + 1])
    <2>1. /\ rd' = Advance(Peeked(rd)) /\ inBang' = inBang
          /\ fr'.pc = "version" /\ fr'.pos = fr.pos /\ fr'.mark = fr.mark
        BY <1>1, <1>3 DEF Step, At, Frame
    <2>2. rd'.slice = rd.slice
        BY <2>1, OnwardFacts DEF Onward
    <2>3. Floor(rd', fr') = Floor(rd, fr)
        BY <1>1, <2>1 DEF Floor, Begun, At
    <2> QED
        BY <1>2, <2>1, <2>2, <2>3 DEF Behind
<1>4. ASSUME NEW r, Rescan(r, TRUE), r.slice = rd.slice, r.index \in Nat,
             fr.mark.offset <= r.index
      PROVE  Behind(rd', fr', inBang')
    <2>1. rd' = r /\ fr'.pc = "scan"
        BY <1>1, <1>4 DEF Rescan, Goto, Frame
    <2>2. Floor(rd', fr') = r.index
        BY <2>1 DEF Floor, Begun
    <2>3. Opened(r.slice, r.index)
        BY <1>1, <1>2, <1>4, OpenedGrows
    <2> QED
        BY <2>1, <2>2, <2>3 DEF Behind
<1>5. CASE Rescan(UpdatePos(Peeked(rd), fr.mark), TRUE)
    <2>1. ReaderInv(Peeked(rd)) /\ Saved(Peeked(rd), fr.mark) /\ Peeked(rd).slice = rd.slice
        BY <1>1, Found, PeekedInv DEF Saved
    <2> DEFINE r == UpdatePos(Peeked(rd), fr.mark)
    <2>2. r.index = fr.mark.offset /\ r.slice = rd.slice
        BY <2>1, UpdatePosLands
    <2>3. fr.mark.offset <= fr.mark.offset
        BY <1>1, SMT
    <2> HIDE DEF r
    <2>4. Rescan(r, TRUE)
        BY <1>5 DEF r
    <2> QED
        BY <1>1, <1>4, <2>2, <2>3, <2>4
<1>6. CASE Rescan(IF fr.i = versionMax THEN rd ELSE Peeked(rd), TRUE)
    <2> DEFINE r == IF fr.i = versionMax THEN rd ELSE Peeked(rd)
    <2>1. r.index = rd.index /\ r.slice = rd.slice
        BY OnwardFacts, ReadsOn DEF Onward
    <2> HIDE DEF r
    <2>2. Rescan(r, TRUE)
        BY <1>6 DEF r
    <2> QED
        BY <1>1, <1>4, <2>1, <2>2
<1> QED
    BY <1>3, <1>5, <1>6 DEF scanVersionDigits

\* lexer.cc:121-146: a comment is passed over.
LEMMA CommentBehind ==
    ASSUME ScanInv, Behind(rd, fr, inBang), comment
    PROVE  Behind(rd', fr', inBang')
<1>1. fr \in Frame /\ Begun(fr)
    BY Found DEF comment, At, Begun
<1>2. CASE Step(rd, Inc(fr, "notStar", "afterStar"))
    <2>1. /\ rd' = rd /\ inBang' = inBang
          /\ fr'.pc = "inc" /\ fr'.ret = "afterStar" /\ fr'.pos = fr.pos
        BY <1>1, <1>2 DEF Step, Inc, Frame
    <2>2. Begun(fr')
        BY <2>1 DEF Begun
    <2> QED
        BY <1>1, <2>1, <2>2, KeepsBehind DEF Onward
<1>3. CASE Step(rd, [Goto("afterStar") EXCEPT !.ch = Star])
    <2>1. rd' = rd /\ inBang' = inBang /\ fr'.pc = "afterStar" /\ fr'.pos = fr.pos
        BY <1>1, <1>3 DEF Step, Goto, Frame
    <2>2. Begun(fr')
        BY <2>1 DEF Begun
    <2> QED
        BY <1>1, <2>1, <2>2, KeepsBehind DEF Onward
<1>4. CASE ReturnNothing(rd)
    BY <1>4, ReturnBehind DEF ReturnNothing, Onward
<1>5. CASE Step(Advance(rd), Goto("scan"))
    <2>1. rd' = Advance(rd) /\ inBang' = inBang /\ fr'.pc = "scan"
        BY <1>1, <1>5 DEF Step, Goto, Frame
    <2> QED
        BY <2>1, LeavesBehind DEF Begun, Onward
<1>6. CASE Step(Advance(rd), [Goto("comment") EXCEPT !.star = Peek(rd) = Star])
    <2>1. rd' = Advance(rd) /\ inBang' = inBang /\ fr'.pc = "comment" /\ fr'.pos = fr.pos
        BY <1>1, <1>6 DEF Step, Goto, Frame
    <2>2. Begun(fr')
        BY <2>1 DEF Begun
    <2> QED
        BY <1>1, <2>1, <2>2, KeepsBehind DEF Onward
<1> QED
    BY <1>2, <1>3, <1>4, <1>5, <1>6 DEF comment

\* lexer.cc:148-161: the bang comment is closed, or there is only a '*'.
LEMMA StarBehind ==
    ASSUME ScanInv, Behind(rd, fr, inBang), startWithStar
    PROVE  Behind(rd', fr', inBang')
<1>1. fr \in Frame /\ Begun(fr)
    BY Found DEF startWithStar, At, Begun
<1>2. CASE Step(Advance(rd), Save("star2"))
    <2>1. rd' = Advance(rd) /\ inBang' = inBang /\ fr'.pc = "star2" /\ fr'.pos = rd.pos
        BY <1>1, <1>2 DEF Step, Save, Frame
    <2>2. Begun(fr')
        BY <2>1 DEF Begun
    <2> QED
        BY <1>1, <2>1, <2>2, BeginsBehind DEF Onward
<1>3. CASE Rescan(Advance(Peeked(rd)), FALSE)
    <2>1. rd' = Advance(Peeked(rd)) /\ inBang' = FALSE /\ fr'.pc = "scan"
        BY <1>1, <1>3 DEF Rescan, Goto, Frame
    <2> QED
        BY <2>1, LeavesBehind DEF Begun, Onward
<1>4. CASE Return(IF inBang THEN Peeked(rd) ELSE rd, Star, fr.pos, <<Star>>)
    <2> DEFINE r == IF inBang THEN Peeked(rd) ELSE rd
    <2>1. r \in Onward
        BY DEF Onward
    <2> HIDE DEF r
    <2>2. Return(r, Star, fr.pos, <<Star>>)
        BY <1>4 DEF r
    <2> QED
        BY <2>1, <2>2, ReturnBehind DEF Return
<1> QED
    BY <1>2, <1>3, <1>4 DEF startWithStar

\* A line comment opens nothing.
LEMMA SharpBehind ==
    ASSUME ScanInv, Behind(rd, fr, inBang), startWithSharp
    PROVE  Behind(rd', fr', inBang')
<1>1. rd' = rd /\ inBang' = inBang /\ fr'.pc = "inc" /\ fr'.ret = "scan"
    BY Found DEF startWithSharp, Step, Inc, Frame
<1> QED
    BY <1>1, LeavesBehind DEF Begun, Onward

\* reader.cc:140-151: incAsLongAs reads on.
LEMMA IncBehind ==
    ASSUME ScanInv, Ahead(rd, fr), Behind(rd, fr, inBang), incAsLongAs
    PROVE  Behind(rd', fr', inBang')
<1>1. fr \in Frame /\ At("inc") /\ fr.ret \in Returns
    BY Found DEF incAsLongAs, IncNext, IncErrored, IncStop, Ahead, At
<1> DEFINE Moves == /\ rd' \in Onward /\ inBang' = inBang /\ fr'.pos = fr.pos
                    /\ fr' = fr \/ fr'.pc = fr.ret
<1>2. Moves
    <2>1. CASE IncNext
        BY <2>1 DEF IncNext, Step, Onward
    <2>2. ASSUME NEW c, Step(Peeked(rd), [fr EXCEPT !.pc = fr.ret, !.ch = c])
          PROVE  Moves
        <3>1. rd' = Peeked(rd) /\ fr' = [fr EXCEPT !.pc = fr.ret, !.ch = c] /\ inBang' = inBang
            BY <2>2 DEF Step
        <3>2. fr'.pos = fr.pos /\ fr'.pc = fr.ret
            BY <1>1, <3>1 DEF Frame
        <3> QED
            BY <3>1, <3>2 DEF Onward
    <2> QED
        BY <2>1, <2>2 DEF incAsLongAs, IncErrored, IncStop
<1>3. /\ Begun(fr') => Begun(fr)
      /\ fr'.pc \notin {"slash2", "slash3", "version"}
    BY <1>1, <1>2 DEF Begun, At, Returns
<1>4. CASE Begun(fr')
    BY <1>2, <1>3, <1>4, KeepsBehind
<1>5. CASE ~Begun(fr')
    BY <1>2, <1>5, LeavesBehind
<1> QED
    BY <1>4, <1>5

-----------------------------------------------------------------------------
\* scanner.cc:52-57: a new statement has no bang comment open.
LEMMA ClientBehind ==
    ASSUME ScanInv, Behind(rd, fr, inBang), Client
    PROVE  Behind(rd', fr', inBang')
<1>1. fr \in Frame /\ At("idle") /\ ~Begun(fr)
    BY Found DEF Client, Call, CallWord, isTokenIdentifier, reset, InheritScanner, SetSQLMode, At, Begun
<1>2. CASE Call
    <2>1. rd' = rd /\ inBang' = inBang /\ fr'.pc = "scan"
        BY <1>2 DEF Call, Step, NoFrame
    <2> QED
        BY <2>1, LeavesBehind DEF Begun, Onward
<1>3. CASE CallWord
    <2>1. rd' = rd /\ inBang' = inBang /\ fr'.pc = "word" /\ fr'.pos = rd.pos
        BY <1>3 DEF CallWord, Step, NoFrame
    <2>2. Begun(fr')
        BY <2>1 DEF Begun
    <2> QED
        BY <2>1, <2>2, BeginsBehind DEF Onward
<1>4. CASE isTokenIdentifier \/ \E mode \in Modes : SetSQLMode(mode)
    <2>1. rd' \in Onward /\ inBang' = inBang /\ fr' = fr
        BY <1>4 DEF isTokenIdentifier, SetSQLMode, Step, Onward
    <2> QED
        BY <1>1, <2>1, LeavesBehind
<1>5. CASE \E sql \in Texts : reset(sql) \/ InheritScanner(sql)
    <2>1. inBang' = FALSE /\ fr' = fr
        BY <1>5 DEF reset, InheritScanner
    <2> QED
        BY <1>1, <2>1 DEF Behind, At
<1> QED
    BY <1>2, <1>3, <1>4, <1>5 DEF Client

\* Every step keeps Behind.
LEMMA NextBehind ==
    ASSUME ScanInv, Ahead(rd, fr), Behind(rd, fr, inBang), Next
    PROVE  Behind(rd', fr', inBang')
BY AloofBehind, ScanBehind, ScannedBehind, TrieBehind, SlashBehind, VersionBehind,
   CommentBehind, StarBehind, SharpBehind, IncBehind, ClientBehind DEF Next, Scanning, Aloof

\* A bang comment that is open was opened by this very statement, before the
\* token that is being read: the flag does not outlive reset() or go over to an
\* inherited scanner.
THEOREM ScannerBangOpenedHere == Spec => []BangOpenedHere
<1>1. Init => Ahead(rd, fr) /\ Behind(rd, fr, inBang)
    BY DEF Init, NoFrame, Ahead, Behind, PastFirst
<1>2. ScanInv /\ Ahead(rd, fr) /\ Behind(rd, fr, inBang) /\ [Next]_vars
      => Ahead(rd, fr)' /\ Behind(rd, fr, inBang)'
    <2> SUFFICES ASSUME ScanInv, Ahead(rd, fr), Behind(rd, fr, inBang), [Next]_vars
                 PROVE  Ahead(rd', fr') /\ Behind(rd', fr', inBang')
        BY DEF Ahead, Behind, Opened, Floor, Begun
    <2>1. CASE Next
        BY <2>1, NextNests, NextBehind DEF Nests
    <2>2. CASE UNCHANGED vars
        <3>1. rd' = rd /\ fr' = fr /\ inBang' = inBang
            BY <2>2 DEF vars
        <3> QED
            BY <3>1
    <2> QED
        BY <2>1, <2>2
<1>3. ScanInv /\ Behind(rd, fr, inBang) => BangOpenedHere
    <2> SUFFICES ASSUME ScanInv, Behind(rd, fr, inBang), inBang
                 PROVE  \E k \in 0 .. Len(stmtText) : Looks(stmtText, k, <<Slash, Star, Bang>>)
        BY DEF BangOpenedHere
    <2>1. /\ rd.index \in Nat /\ rd.index <= Len(rd.slice) /\ rd.slice \in Seq(Byte)
          /\ Floor(rd, fr) \in Nat /\ Floor(rd, fr) <= rd.index
        BY Found, ReaderFields, SMT DEF ReaderInv, Floor
    <2>2. Opened(rd.slice, rd.index)
        BY <2>1, OpenedGrows DEF Behind
    <2>3. PICK k \in Nat : /\ k + 3 <= rd.index /\ rd.slice[k + 1] = Slash
                           /\ rd.slice[k + 2] = Star /\ rd.slice[k + 3] = Bang
        BY <2>2 DEF Opened
    <2>4. /\ Len(stmtText) = rd.index
          /\ \A i \in 1 .. rd.index : stmtText[i] = rd.slice[i]
        BY <2>1, SMT DEF stmtText
    <2>5. k \in 0 .. Len(stmtText) /\ k + 3 <= Len(stmtText)
        BY <2>1, <2>3, <2>4, SMT
    <2>6. /\ stmtText[k + 1] = Slash /\ stmtText[k + 2] = Star /\ stmtText[k + 3] = Bang
        BY <2>1, <2>3, <2>4, SMT
    <2> DEFINE t == stmtText
    <2>7. t \in Seq(Byte)
        BY <2>1, SMT DEF stmtText
    <2> HIDE DEF t
    <2>8. SubSeq(t, k + 1, k + 3) = <<Slash, Star, Bang>>
        <3> DEFINE u == SubSeq(t, k + 1, k + 3)
        <3>1. /\ \A i \in k + 1 .. k + 3 : i \in 1 .. Len(t)
              /\ k + 1 \in Int /\ k + 3 \in Int /\ (k + 3) - (k + 1) + 1 = 3 /\ k + 1 <= (k + 3) + 1
            BY <2>3, <2>5, SMT DEF t
        <3>2. \A i \in k + 1 .. k + 3 : t[i] \in Byte
            BY <2>7, <3>1, ElementOfSeq
        <3>3. u \in Seq(Byte) /\ Len(u) = 3 /\ \A i \in 1 .. 3 : u[i] = t[k + i]
            BY <2>3, <2>7, <3>1, <3>2, SMT
        <3>4. u[1] = Slash /\ u[2] = Star /\ u[3] = Bang
            BY <2>6, <3>3 DEF t
        <3> HIDE DEF u
        <3>5. u = <<Slash, Star, Bang>>
            BY <3>3, <3>4, SMT
        <3> QED
            BY <3>5 DEF u
    <2>9. Len(<<Slash, Star, Bang>>) = 3
        BY SMT
    <2> QED
        BY <2>5, <2>8, <2>9 DEF Looks, t
<1> QED
    BY <1>1, <1>2, <1>3, ScannerInvariant, PTL DEF Spec

-----------------------------------------------------------------------------
(***************************************************************************)
(* Progress: what has been read at each label.                             *)
(***************************************************************************)
\* The rune that the token begins with.
FirstRune(r, f) == RuneAt(r.slice, f.pos.offset)

\* What a handler has when it may return: something is consumed, or nothing
\* begins here.
Got(r, f) == f.pos.offset < r.index \/ StartsNothing(FirstRune(r, f))

\* The token begins with a digit, or with a character of an identifier: going
\* back to its start there is something to read again.
Numeral(r, f) == f.pos.offset < Len(r.slice) /\ isDigit(FirstRune(r, f))

Word(r, f) == f.pos.offset < Len(r.slice) /\ isIdentChar(FirstRune(r, f))

\* Inside the handlers of numbers.
Numeric == {"number2", "digits", "radixEnd", "numberTail", "float", "fraction", "exponent",
            "sign", "power", "floatEnd"}

\* Inside the other handlers, past the first character.
Steady == {"stub", "prefixEnd", "identEnd", "nnEnd", "quotedLoop", "quotedNext", "stringPeek",
           "stringLoop", "afterQuote", "afterBackslash", "write"}

Inside == Steady \cup Numeric

\* What the reader sees when a handler is called.
Entry(r, label) ==
    /\ label \in {"xx", "bb", "nn", "ident"} => isIdentChar(Peek(r))
    /\ label = "number" => isDigit(Peek(r))
    /\ label \in {"quoted", "string"} => ~Eof(r)

\* incAsLongAs will read at least one rune.
CanRead(r, f) == Holds(f.pred, Peek(r)) /\ ~is_errored(Peek(r))

Paced(r, f) ==
    /\ f.pc # "word"
    /\ f.pc \in Inside => Got(r, f)
    /\ (f.pc \in Numeric \/ (f.pc = "inc" /\ f.ret \in Numeric)) => Numeral(r, f)
    /\ f.pc = "prefix" => Got(r, f) /\ Word(r, f)
    /\ Entry(r, f.pc)
    /\ f.pc = "scanned" => f.ch = Peek(r) /\ f.node = << >>
    /\ f.pc = "trie" => IF f.node = << >>
                        THEN f.ch = Peek(r) /\ r.index = f.pos.offset /\ ~isIdentExtend(f.ch)
                        ELSE f.pos.offset < r.index
    /\ f.pc = "inc" => \/ f.ret \in {"scan", "afterStar"}
                       \/ f.ret = "scanned" /\ f.pred = "space" /\ f.node = << >>
                       \/ f.ret \in Inside /\ (Got(r, f) \/ CanRead(r, f))

\* A step that keeps the pace, and returns only when something is consumed.
Paces == Paced(rd', fr') /\ Progress'

\* The labels of which Paced says nothing.
Free == {"idle", "scan", "slash", "star", "sharp", "version"} \cup PastFirst

-----------------------------------------------------------------------------
\* Reading on takes nothing away.
LEMMA GotStays ==
    ASSUME ScanInv, NEW r \in Onward, NEW f, f.pos = fr.pos
    PROVE  /\ Got(rd, fr) => Got(r, f)
           /\ Numeral(rd, fr) => Numeral(r, f)
<1>1. /\ r.slice = rd.slice /\ r.index \in Nat /\ rd.index <= r.index
      /\ rd.index \in Nat /\ fr.pos.offset \in Nat
    BY OnwardFacts, Found
<1>2. fr.pos.offset < rd.index => fr.pos.offset < r.index
    BY <1>1, SMT
<1> QED
    BY <1>1, <1>2 DEF Got, Numeral, FirstRune

\* A handler that saves the position and reads the rune it was called for.
LEMMA GotFirst ==
    ASSUME ScanInv, ~Eof(rd), NEW f, f.pos = rd.pos
    PROVE  /\ f.pos.offset < Advance(rd).index /\ Got(Advance(rd), f)
           /\ isDigit(Peek(rd)) => Numeral(Advance(rd), f)
           /\ isIdentChar(Peek(rd)) => Word(Advance(rd), f)
<1>1. /\ Advance(rd).slice = rd.slice /\ rd.pos.offset = rd.index /\ rd.index \in Nat
      /\ rd.index < Advance(rd).index
    BY OnwardFacts, Found, ReadsOn DEF Onward
<1>2. rd.index < Len(rd.slice)
    BY <1>1, Found, ReaderFields, SMT DEF ReaderInv, Eof
<1>3. FirstRune(Advance(rd), f) = Peek(rd)
    BY <1>1 DEF FirstRune, Peek
<1> QED
    BY <1>1, <1>2, <1>3 DEF Got, Numeral, Word

\* Going back, a handler sees the rune that its token begins with.
LEMMA SeesFirst ==
    ASSUME ScanInv, fr.pos.offset < Len(rd.slice), NEW r \in WentBack
    PROVE  Peek(r) = FirstRune(rd, fr) /\ FirstRune(r, fr) = FirstRune(rd, fr) /\ r.slice = rd.slice
<1>1. ReaderInv(rd) /\ ReaderInv(Peeked(rd)) /\ fr.pos.offset \in Nat
    BY Found
<1>2. Saved(rd, fr.pos) /\ Saved(Peeked(rd), fr.pos) /\ Peeked(rd).slice = rd.slice
    BY <1>1, PeekedInv DEF ScanInv, GoodFrame, Saved
<1>3. r.index = fr.pos.offset /\ r.slice = rd.slice
    BY <1>1, <1>2, UpdatePosLands DEF WentBack
<1>4. Len(rd.slice) \in Nat
    BY <1>1, ReaderFields DEF ReaderInv
<1>5. ~Eof(r)
    BY <1>1, <1>3, <1>4, SMT DEF Eof
<1> QED
    BY <1>3, <1>5 DEF Peek, FirstRune

\* What is there is not the end of the text.
LEMMA RuneIsThere ==
    ASSUME ScanInv, ~Eof(rd)
    PROVE  Peek(rd) # rune_eof
<1>1. rd.slice \in Seq(Byte) /\ rd.index \in Nat /\ rd.index < Len(rd.slice)
    BY Found, ReaderFields, SMT DEF ReaderInv, Eof
<1>2. DecodeValue(rd.slice, rd.index) \in Nat
    BY <1>1, DecodeValueInRange, SMT DEF CodePoint
<1>3. RuneAt(rd.slice, rd.index) \in {rune_invalid, DecodeValue(rd.slice, rd.index)}
    BY DEF RuneAt
<1>4. rune_invalid # rune_eof /\ rune_eof \notin Nat
    BY SMT DEF rune_invalid, rune_eof
<1> QED
    BY <1>2, <1>3, <1>4 DEF Peek

\* Digits and the characters of identifiers, rune_invalid apart, can be read.
LEMMA Readable ==
    ASSUME NEW c
    PROVE  /\ isDigit(c) => isIdentChar(c) /\ Holds("digit", c) /\ ~is_errored(c)
           /\ isIdentChar(c) => Holds("identChar", c)
           /\ isIdentChar(c) /\ c # rune_invalid => ~is_errored(c)
<1>1. isDigit(c) => isIdentChar(c) /\ ~is_errored(c)
    BY SMT DEF isIdentChar, isDigit, is_errored, rune_eof, rune_invalid
<1>2. isIdentChar(c) /\ c # rune_invalid => ~is_errored(c)
    <2>1. ~isIdentChar(rune_eof)
        BY SMT DEF isIdentChar, isDigit, isLetter, isIdentExtend, rune_eof
    <2> QED
        BY <2>1 DEF is_errored
<1>3. (isDigit(c) => Holds("digit", c)) /\ (isIdentChar(c) => Holds("identChar", c))
    BY SMT DEF Holds
<1> QED
    BY <1>1, <1>2, <1>3

\* Nothing that can be read is the end of the text.
LEMMA ReadableIsThere ==
    ASSUME NEW r
    PROVE  isIdentChar(Peek(r)) \/ isDigit(Peek(r)) \/ ~is_errored(Peek(r)) => ~Eof(r)
<1>1. ~isIdentChar(rune_eof) /\ ~isDigit(rune_eof) /\ is_errored(rune_eof)
    BY SMT DEF isIdentChar, isDigit, isLetter, isIdentExtend, is_errored, rune_eof
<1> QED
    BY <1>1 DEF Peek

-----------------------------------------------------------------------------
\* The labels apart.
LEMMA LabelsApart ==
    /\ Inside \cap ({"xx", "bb", "nn", "ident", "number", "quoted", "string", "prefix", "scanned",
                     "trie", "inc", "word"} \cup Free) = {}
    /\ "prefix" \notin Numeric /\ Numeric \subseteq Inside /\ Steady \subseteq Inside
    /\ Steady \cap Numeric = {}
    /\ Free \cap {"xx", "bb", "nn", "ident", "number", "quoted", "string", "prefix", "scanned",
                  "trie", "inc", "word"} = {}
BY SMT DEF Inside, Steady, Numeric, Free, PastFirst

\* A step that only goes on.
LEMMA GoesPaced ==
    ASSUME Paced(rd', fr'), fr'.pc # "idle"
    PROVE  Paces
BY DEF Paces, Progress, Returned, At

\* Nothing is said of the labels in Free.
LEMMA FreePaced == \A r, f : f.pc \in Free => Paced(r, f)
BY LabelsApart DEF Paced, Entry

\* A handler returns.
LEMMA ReturnPaces ==
    ASSUME ScanInv, Got(rd, fr) \/ Eof(rd), rd' \in Onward, fr' = NoFrame,
           out'.begin = fr.pos.offset, out'.to = rd'.index
    PROVE  Paces
<1> DEFINE r == rd'
<1>1. r \in Onward
    OBVIOUS
<1>2. Paced(rd', fr')
    <2>1. NoFrame.pc \in Free
        BY DEF NoFrame, Free
    <2> QED
        BY <2>1, FreePaced
<1>3. /\ r.slice = rd.slice /\ r.index \in Nat /\ rd.index <= r.index
      /\ rd.index \in Nat /\ fr.pos.offset \in Nat /\ fr.pos.offset <= rd.index
    BY <1>1, OnwardFacts, Found
<1>4. CASE Eof(rd)
    <2>1. rd.index >= Len(rd.slice) /\ Len(rd.slice) \in Nat
        BY <1>4, Found, ReaderFields DEF Eof, ReaderInv
    <2>2. ReaderInv(r)
        BY <1>1, Found, AdvanceInv DEF Onward
    <2> HIDE DEF r
    <2>3. r.index <= Len(r.slice)
        BY <2>2, ReaderFields DEF ReaderInv
    <2>4. r.index = Len(r.slice)
        BY <1>3, <2>1, <2>3, SMT
    <2>5. out'.to = Len(text')
        BY <2>4 DEF text, r
    <2> QED
        BY <1>2, <2>5 DEF Paces, Progress
<1>5. CASE fr.pos.offset < rd.index
    <2>1. r.index # fr.pos.offset
        <3> HIDE DEF r
        <3> QED
            BY <1>3, <1>5, SMT
    <2> QED
        BY <1>2, <2>1 DEF Paces, Progress
<1>6. CASE StartsNothing(FirstRune(rd, fr))
    <2>1. out'.to = out'.begin => StartsNothing(RuneAt(text', out'.to))
        BY <1>3, <1>6 DEF FirstRune, text
    <2> QED
        BY <1>2, <2>1 DEF Paces, Progress
<1> QED
    BY <1>4, <1>5, <1>6 DEF Got

-----------------------------------------------------------------------------
\* A frame that goes on with the same token at one of these labels.
On(L, f) ==
    /\ f.pos = fr.pos
    /\ f.pc \in L \/ (f.pc = "inc" /\ f.ret \in L)

\* A step of a handler that has something: it returns, or reads on.
Keeps(L) ==
    /\ rd' \in Onward
    /\ \/ On(L, fr')
       \/ fr' = NoFrame /\ out'.begin = fr.pos.offset /\ out'.to = rd'.index

\* Such a step keeps the pace; inside a number it may go on with the number.
LEMMA KeepsPaces ==
    ASSUME ScanInv, Got(rd, fr),
           Keeps(Steady) \/ (Keeps(Inside) /\ Numeral(rd, fr))
    PROVE  Paces
<1>1. rd' \in Onward
    BY DEF Keeps
<1>2. CASE fr' = NoFrame /\ out'.begin = fr.pos.offset /\ out'.to = rd'.index
    BY <1>1, <1>2, ReturnPaces
<1>3. CASE On(Steady, fr') \/ (On(Inside, fr') /\ Numeral(rd, fr))
    <2>1. Got(rd', fr') /\ (Numeral(rd, fr) => Numeral(rd', fr'))
        BY <1>1, <1>3, GotStays DEF On
    <2>2. On(Inside, fr') /\ (On(Steady, fr') \/ Numeral(rd', fr'))
        BY <1>3, <2>1, LabelsApart DEF On
    <2>3. (fr'.pc \in Numeric \/ (fr'.pc = "inc" /\ fr'.ret \in Numeric)) => Numeral(rd', fr')
        BY <2>2, LabelsApart DEF On
    <2>4. Paced(rd', fr') /\ fr'.pc # "idle"
        BY <2>1, <2>2, <2>3, LabelsApart DEF On, Paced, Entry, Free
    <2> QED
        BY <2>4, GoesPaced
<1> QED
    BY <1>2, <1>3 DEF Keeps

\* A handler that reads its first rune.
LEMMA BeginPaces ==
    ASSUME ScanInv, ~Eof(rd), fr'.pos = rd.pos, rd' = Advance(rd),
           \/ fr'.pc \in Steady
           \/ fr'.pc = "prefix" /\ isIdentChar(Peek(rd))
           \/ fr'.pc \in Numeric /\ isDigit(Peek(rd))
    PROVE  Paces
<1>1. Got(rd', fr') /\ (isDigit(Peek(rd)) => Numeral(rd', fr'))
      /\ (isIdentChar(Peek(rd)) => Word(rd', fr'))
    BY GotFirst
<1>2. Paced(rd', fr') /\ fr'.pc # "idle"
    BY <1>1, LabelsApart DEF Paced, Entry, Free
<1> QED
    BY <1>2, GoesPaced

\* incAsLongAs over the characters of an identifier, from where it begins.
LEMMA WordBegins ==
    ASSUME ScanInv, isIdentChar(Peek(rd)), rd' = rd, fr'.pos = rd.pos,
           fr'.pc = "inc", fr'.ret \in Steady, fr'.pred = "identChar"
    PROVE  Paces
<1>1. rd.pos.offset = rd.index /\ ~Eof(rd)
    BY Found, ReadableIsThere
<1>2. FirstRune(rd, fr') = Peek(rd)
    BY <1>1 DEF FirstRune, Peek
<1>3. Got(rd, fr') \/ CanRead(rd, fr')
    <2>1. CASE Peek(rd) = rune_invalid
        BY <1>2, <2>1 DEF Got, StartsNothing
    <2>2. CASE Peek(rd) # rune_invalid
        <3>1. Holds("identChar", Peek(rd)) /\ ~is_errored(Peek(rd))
            BY <2>2, Readable
        <3> QED
            BY <3>1 DEF CanRead
    <2> QED
        BY <2>1, <2>2
<1>4. Paced(rd', fr') /\ fr'.pc # "idle"
    BY <1>3, LabelsApart DEF Paced, Entry
<1> QED
    BY <1>4, GoesPaced

\* A handler that goes back and reads its token again.
LEMMA BackPaces ==
    ASSUME ScanInv, rd' \in WentBack, fr'.pos = fr.pos,
           \/ Word(rd, fr) /\ fr'.pc = "ident"
           \/ /\ Numeral(rd, fr)
              /\ fr'.pc = "inc"
              /\ \/ fr'.pred = "digit" /\ fr'.ret \in Numeric
                 \/ fr'.pred = "identChar" /\ fr'.ret \in Steady
    PROVE  Paces
<1>1. fr.pos.offset < Len(rd.slice)
    BY DEF Word, Numeral
<1>2. Peek(rd') = FirstRune(rd, fr) /\ FirstRune(rd', fr') = FirstRune(rd, fr) /\ rd'.slice = rd.slice
    BY <1>1, SeesFirst DEF FirstRune
<1>3. Numeral(rd, fr) => Numeral(rd', fr')
    BY <1>2 DEF Numeral
<1>4. Numeral(rd, fr) /\ fr'.pred \in {"digit", "identChar"} => CanRead(rd', fr')
    <2>1. isDigit(Peek(rd')) => /\ Holds("digit", Peek(rd')) /\ Holds("identChar", Peek(rd'))
                                /\ ~is_errored(Peek(rd'))
        BY Readable
    <2> QED
        BY <1>2, <2>1 DEF Numeral, CanRead
<1>5. CASE Word(rd, fr) /\ fr'.pc = "ident"
    <2>1. isIdentChar(Peek(rd'))
        BY <1>2, <1>5 DEF Word
    <2>2. Paced(rd', fr') /\ fr'.pc # "idle"
        BY <1>5, <2>1, LabelsApart DEF Paced, Entry
    <2> QED
        BY <2>2, GoesPaced
<1>6. CASE /\ Numeral(rd, fr) /\ fr'.pc = "inc"
           /\ \/ fr'.pred = "digit" /\ fr'.ret \in Numeric
              \/ fr'.pred = "identChar" /\ fr'.ret \in Steady
    <2>1. Paced(rd', fr') /\ fr'.pc # "idle"
        BY <1>3, <1>4, <1>6, LabelsApart DEF Paced, Entry
    <2> QED
        BY <2>1, GoesPaced
<1> QED
    BY <1>5, <1>6

-----------------------------------------------------------------------------
\* The frames that the handlers make, inside a token.
LEMMA FramesOn ==
    ASSUME fr \in Frame, NEW L
    PROVE  /\ \A l \in L : On(L, Goto(l))
           /\ \A l \in L : \A c : On(L, [Goto(l) EXCEPT !.ch = c])
           /\ \A l \in L : On(L, [Goto(l) EXCEPT !.useBuf = TRUE])
           /\ \A p : \A ret \in L : On(L, Inc(fr, p, ret))
<1>1. \A f : f.pos = fr.pos /\ f.pc \in L => On(L, f)
    BY DEF On
<1>2. \A f : f.pos = fr.pos /\ f.pc = "inc" /\ f.ret \in L => On(L, f)
    BY DEF On
<1>3. \A l \in L : On(L, Goto(l))
    <2>1. \A l : Goto(l).pc = l /\ Goto(l).pos = fr.pos
        BY DEF Goto, Frame
    <2> QED
        BY <1>1, <2>1
<1>4. ASSUME NEW l \in L, NEW c
      PROVE  On(L, [Goto(l) EXCEPT !.ch = c])
    <2> DEFINE f == [Goto(l) EXCEPT !.ch = c]
    <2>1. f.pc = l /\ f.pos = fr.pos
        BY DEF Goto, Frame
    <2> HIDE DEF f
    <2>2. On(L, f)
        BY <1>1, <2>1
    <2> QED
        BY <2>2 DEF f
<1>5. ASSUME NEW l \in L
      PROVE  On(L, [Goto(l) EXCEPT !.useBuf = TRUE])
    <2> DEFINE f == [Goto(l) EXCEPT !.useBuf = TRUE]
    <2>1. f.pc = l /\ f.pos = fr.pos
        BY DEF Goto, Frame
    <2> HIDE DEF f
    <2>2. On(L, f)
        BY <1>1, <2>1
    <2> QED
        BY <2>2 DEF f
<1>6. \A p : \A ret \in L : On(L, Inc(fr, p, ret))
    <2>1. \A p, ret : /\ Inc(fr, p, ret).pc = "inc" /\ Inc(fr, p, ret).ret = ret
                      /\ Inc(fr, p, ret).pos = fr.pos
        BY DEF Inc, Frame
    <2> QED
        BY <1>2, <2>1
<1> QED
    BY <1>3, <1>4, <1>5, <1>6, Zenon

\* The handlers that are past the first character, numbers apart.
Going ==
    \/ startWithStub
    \/ prefix /\ ~At("prefix")
    \/ scanIdentifier /\ ~At("ident")
    \/ startWithNn /\ ~At("nn")
    \/ scanQuotedIdent
    \/ startString /\ ~At("string")
    \/ scanString \/ afterQuote \/ handleEscape \/ writeString

LEMMA SteadyLabels ==
    {"stub", "prefixEnd", "identEnd", "nnEnd", "quotedLoop", "quotedNext", "stringPeek",
     "stringLoop", "afterQuote", "afterBackslash", "write"} \subseteq Steady
BY DEF Steady

\* Where such a handler may go on: inside the same literal.
Quoting == {"quotedLoop", "quotedNext"}

Stringing == {"stringPeek", "stringLoop", "afterQuote", "afterBackslash", "write"}

Kin(label) ==
    IF label \in Quoting THEN Quoting ELSE IF label \in Stringing THEN Stringing ELSE {}

LEMMA KinFacts ==
    /\ \A l \in Quoting : Kin(l) = Quoting
    /\ \A l \in Stringing : Kin(l) = Stringing
    /\ \A l : Kin(l) \subseteq Steady
    /\ {"quotedLoop", "quotedNext"} \subseteq Quoting
    /\ {"stringPeek", "stringLoop", "afterQuote", "afterBackslash", "write"} \subseteq Stringing
BY DEF Kin, Quoting, Stringing, Steady

LEMMA GoingKeeps == ScanInv /\ Going => Keeps(Kin(fr.pc)) /\ fr.pc \in Steady
<1> SUFFICES ASSUME fr \in Frame, Going
             PROVE  Keeps(Kin(fr.pc)) /\ fr.pc \in Steady
    BY Found
<1> USE FramesOn, SteadyLabels, KinFacts DEF Keeps, Onward, At, Return, Result, Step, StepBuf
<1>1. CASE startWithStub
    BY <1>1 DEF startWithStub, ReturnNothing
<1>2. CASE prefix /\ ~At("prefix")
    BY <1>2 DEF prefix
<1>3. CASE scanIdentifier /\ ~At("ident")
    BY <1>3 DEF scanIdentifier
<1>4. CASE startWithNn /\ ~At("nn")
    BY <1>4 DEF startWithNn
<1>5. CASE scanQuotedIdent
    <2>1. CASE At("quotedLoop")
        <3>1. rd' = Advance(rd) /\ fr' = [Goto("quotedNext") EXCEPT !.ch = Peek(rd)]
            BY <1>5, <2>1 DEF scanQuotedIdent
        <3>2. On(Quoting, fr')
            BY <3>1
        <3> QED
            BY <2>1, <3>1, <3>2
    <2>2. CASE At("quotedNext")
        <3>1. \/ fr' = NoFrame /\ out'.begin = fr.pos.offset /\ out'.to = rd'.index
              \/ fr' = Goto("quotedLoop")
            BY <1>5, <2>2 DEF scanQuotedIdent
        <3>2. rd' \in Onward
            BY <1>5, <2>2 DEF scanQuotedIdent
        <3> QED
            BY <2>2, <3>1, <3>2
    <2> QED
        BY <1>5, <2>1, <2>2 DEF scanQuotedIdent
<1>6. CASE startString /\ ~At("string")
    <2>1. At("stringPeek") /\ Step(Peeked(rd), [Goto("stringLoop") EXCEPT !.ch = Peek(rd)])
        BY <1>6 DEF startString
    <2> QED
        BY <2>1
<1>7. CASE scanString
    <2>1. /\ fr.pc = "stringLoop" /\ rd' \in Onward
          /\ \/ fr' = NoFrame /\ out'.begin = fr.pos.offset /\ out'.to = rd'.index
             \/ fr' \in {Goto("afterQuote"), Goto("write"),
                         [Goto("afterBackslash") EXCEPT !.useBuf = TRUE]}
        BY <1>7 DEF scanString
    <2>2. fr' \in {Goto("afterQuote"), Goto("write"), [Goto("afterBackslash") EXCEPT !.useBuf = TRUE]}
          => On(Stringing, fr')
        OBVIOUS
    <2>3. Kin(fr.pc) = Stringing /\ fr.pc \in Steady
        BY <2>1
    <2> QED
        BY ONLY <2>1, <2>2, <2>3 DEF Keeps
<1>8. CASE afterQuote
    BY <1>8 DEF afterQuote
<1>9. CASE handleEscape
    BY <1>9 DEF handleEscape
<1>10. CASE writeString
    BY <1>10 DEF writeString
<1> QED
    BY <1>1, <1>2, <1>3, <1>4, <1>5, <1>6, <1>7, <1>8, <1>9, <1>10 DEF Going

LEMMA GoingPaces == ScanInv /\ Paced(rd, fr) /\ Going => Paces
<1>1. Keeps(Kin(fr.pc)) => Keeps(Steady)
    BY KinFacts DEF Keeps, On
<1> QED
    BY <1>1, GoingKeeps, KeepsPaces, LabelsApart DEF Paced

\* The handlers of numbers that do not go back.
Counting ==
    \/ startWithNumber /\ ~At("number")
    \/ radixEnd \/ numberTail
    \/ scanFloat /\ ~At("float")
    \/ exponent /\ ~(At("power") /\ ~isDigit(Peek(rd)))

Counted == Numeric \cup {"identEnd"}

LEMMA NumericLabels ==
    /\ {"identEnd", "number2", "digits", "radixEnd", "numberTail", "float", "fraction", "exponent",
        "sign", "power", "floatEnd"} \subseteq Counted
    /\ Counted \subseteq Inside
BY DEF Counted, Inside, Steady, Numeric

LEMMA CountingKeeps == ScanInv /\ Counting => Keeps(Counted) /\ fr.pc \in Numeric
<1> SUFFICES ASSUME fr \in Frame, Counting
             PROVE  Keeps(Counted) /\ fr.pc \in Numeric
    BY Found
<1> USE FramesOn, NumericLabels DEF Keeps, Onward, At, Return, Result, Step
<1>1. CASE startWithNumber /\ ~At("number")
    <2>1. At("number2") /\ "number2" \in Numeric
        BY <1>1 DEF startWithNumber, Numeric
    <2>2. CASE Peek(rd) \in {120, 88, 98}
        <3> DEFINE hex == Inc([fr EXCEPT !.tok = tok_hexLit, !.mark = Advance(rd).pos], "hex", "radixEnd")
                   bit == Inc([fr EXCEPT !.tok = tok_bitLit, !.mark = Advance(rd).pos], "bit", "radixEnd")
        <3>1. /\ hex.pc = "inc" /\ hex.ret = "radixEnd" /\ hex.pos = fr.pos
              /\ bit.pc = "inc" /\ bit.ret = "radixEnd" /\ bit.pos = fr.pos
            BY DEF Inc, Frame
        <3>2. \/ Step(rd, Goto("digits"))
              \/ Step(Advance(Peeked(rd)), hex) \/ Step(Advance(Peeked(rd)), bit)
            <4> HIDE FramesOn, NumericLabels
            <4> HIDE DEF Step
            <4> QED
                BY <1>1, <2>1, <2>2 DEF startWithNumber, At, Dot
        <3> HIDE DEF hex, bit
        <3>3. On(Counted, hex) /\ On(Counted, bit)
            BY <3>1 DEF On
        <3> QED
            BY <2>1, <3>2, <3>3
    <2>3. CASE Peek(rd) \notin {120, 88, 98}
        BY <1>1, <2>1, <2>3 DEF startWithNumber
    <2> QED
        BY <2>2, <2>3
<1>2. CASE radixEnd
    BY <1>2 DEF radixEnd, Numeric
<1>3. CASE numberTail
    <2>1. fr.pc \in Numeric /\ rd' \in Onward
        BY <1>3 DEF numberTail, Numeric
    <2>2. \/ fr' = NoFrame /\ out'.begin = fr.pos.offset /\ out'.to = rd'.index
          \/ fr' \in {Goto("float"), Inc(fr, "digit", "numberTail"), Inc(fr, "identChar", "identEnd")}
        BY <1>3 DEF numberTail
    <2>3. fr' # NoFrame => On(Counted, fr')
        BY SMTT(30), <2>2
    <2> QED
        BY <2>1, <2>2, <2>3
<1>4. CASE scanFloat /\ ~At("float")
    BY <1>4 DEF scanFloat, Numeric
<1>5. CASE exponent /\ ~(At("power") /\ ~isDigit(Peek(rd)))
    BY <1>5 DEF exponent, Numeric
<1> QED
    BY <1>1, <1>2, <1>3, <1>4, <1>5 DEF Counting

LEMMA CountingPaces == ScanInv /\ Paced(rd, fr) /\ Counting => Paces
<1>1. Keeps(Counted) => Keeps(Inside)
    BY NumericLabels DEF Keeps, On
<1> QED
    BY <1>1, CountingKeeps, KeepsPaces, LabelsApart DEF Paced

\* The handlers that go back to the start of their token.
LEMMA PrefixPaces == ScanInv /\ Paced(rd, fr) /\ prefix /\ At("prefix") => Paces
<1> SUFFICES ASSUME ScanInv, Paced(rd, fr), prefix, At("prefix")
             PROVE  Paces
    OBVIOUS
<1>1. fr \in Frame /\ Got(rd, fr) /\ Word(rd, fr)
    BY Found DEF Paced, At
<1>2. CASE Step(UpdatePos(Peeked(rd), fr.pos), Goto("ident"))
    <2>1. rd' \in WentBack /\ fr'.pos = fr.pos /\ fr'.pc = "ident"
        BY <1>1, <1>2 DEF Step, WentBack, Goto, Frame
    <2> QED
        BY <1>1, <2>1, BackPaces
<1>3. CASE Step(Advance(Peeked(rd)), Inc(fr, fr.pred, "prefixEnd"))
    <2>1. Keeps(Steady)
        BY <1>1, <1>3, FramesOn, SteadyLabels DEF Keeps, Step, Onward
    <2> QED
        BY <1>1, <2>1, KeepsPaces
<1> QED
    BY <1>2, <1>3 DEF prefix, At

LEMMA FloatPaces == ScanInv /\ Paced(rd, fr) /\ scanFloat /\ At("float") => Paces
<1> SUFFICES ASSUME ScanInv, Paced(rd, fr), scanFloat, At("float")
             PROVE  Paces
    OBVIOUS
<1>1. fr \in Frame /\ Numeral(rd, fr)
    BY Found DEF Paced, At, Numeric
<1>2. rd' = UpdatePos(rd, fr.pos) /\ fr' = Inc(fr, "digit", "fraction")
    BY DEF scanFloat, Step, At
<1>3. rd' \in WentBack /\ fr'.pos = fr.pos /\ fr'.pc = "inc" /\ fr'.pred = "digit" /\ fr'.ret \in Numeric
    BY <1>1, <1>2 DEF WentBack, Inc, Frame, Numeric
<1> QED
    BY <1>1, <1>3, BackPaces

LEMMA ExponentPaces ==
    ScanInv /\ Paced(rd, fr) /\ exponent /\ At("power") /\ ~isDigit(Peek(rd)) => Paces
<1> SUFFICES ASSUME ScanInv, Paced(rd, fr), exponent, At("power"), ~isDigit(Peek(rd))
             PROVE  Paces
    OBVIOUS
<1>1. fr \in Frame /\ Numeral(rd, fr)
    BY Found DEF Paced, At, Numeric
<1>2. rd' = UpdatePos(Peeked(rd), fr.pos) /\ fr' = Inc(fr, "identChar", "identEnd")
    BY DEF exponent, Step, At
<1>3. /\ rd' \in WentBack /\ fr'.pos = fr.pos /\ fr'.pc = "inc" /\ fr'.pred = "identChar"
      /\ fr'.ret \in Steady
    BY <1>1, <1>2 DEF WentBack, Inc, Frame, Steady
<1> QED
    BY <1>1, <1>3, BackPaces

\* The handlers at the first character.
Beginning ==
    \/ startWithXx \/ startWithBb \/ openQuotedIdent
    \/ startWithNumber /\ At("number")
    \/ startString /\ At("string")

LEMMA BeginningPaces == ScanInv /\ Paced(rd, fr) /\ Beginning => Paces
<1> SUFFICES ASSUME ScanInv, Paced(rd, fr), Beginning
             PROVE  Paces
    OBVIOUS
<1>1. fr \in Frame /\ Entry(rd, fr.pc)
    BY Found DEF Paced
<1>2. CASE startWithXx \/ startWithBb
    <2>1. rd' = Advance(rd) /\ fr'.pc = "prefix" /\ fr'.pos = rd.pos /\ fr.pc \in {"xx", "bb"}
        BY <1>1, <1>2 DEF startWithXx, startWithBb, Step, Save, Frame, At
    <2>2. isIdentChar(Peek(rd))
        BY <1>1, <2>1 DEF Entry
    <2> QED
        BY <2>1, <2>2, ReadableIsThere, BeginPaces
<1>3. CASE openQuotedIdent
    <2>1. rd' = Advance(rd) /\ fr'.pc \in Steady /\ fr'.pos = rd.pos /\ fr.pc = "quoted"
        BY <1>1, <1>3 DEF openQuotedIdent, StepBuf, Save, Frame, At, Steady
    <2> QED
        BY <1>1, <2>1, BeginPaces DEF Entry
<1>4. CASE startWithNumber /\ At("number")
    <2>1. rd' = Advance(rd) /\ fr'.pc \in Numeric /\ fr'.pos = rd.pos /\ fr.pc = "number"
        BY <1>1, <1>4 DEF startWithNumber, Step, Save, Frame, At, Numeric
    <2>2. isDigit(Peek(rd))
        BY <1>1, <2>1 DEF Entry
    <2> QED
        BY <2>1, <2>2, ReadableIsThere, BeginPaces
<1>5. CASE startString /\ At("string")
    <2>1. rd' = Advance(rd) /\ fr'.pc \in Steady /\ fr'.pos = rd.pos /\ fr.pc = "string"
        BY <1>1, <1>5 DEF startString, Step, Save, Frame, At, Steady
    <2> QED
        BY <1>1, <2>1, BeginPaces DEF Entry
<1> QED
    BY <1>2, <1>3, <1>4, <1>5 DEF Beginning

LEMMA WordsPace ==
    ScanInv /\ Paced(rd, fr) /\ ((scanIdentifier /\ At("ident")) \/ (startWithNn /\ At("nn"))) => Paces
<1> SUFFICES ASSUME ScanInv, Paced(rd, fr),
                    (scanIdentifier /\ At("ident")) \/ (startWithNn /\ At("nn"))
             PROVE  Paces
    OBVIOUS
<1>1. fr \in Frame /\ isIdentChar(Peek(rd))
    BY Found DEF Paced, Entry, At
<1>2. /\ rd' = rd /\ fr'.pos = rd.pos /\ fr'.pc = "inc" /\ fr'.ret \in Steady
      /\ fr'.pred = "identChar"
    BY <1>1 DEF scanIdentifier, startWithNn, Step, Inc, Save, Frame, At, Steady
<1> QED
    BY <1>1, <1>2, WordBegins

-----------------------------------------------------------------------------
\* lexer.cc:57-170: the handlers of '/', '*' and '#' have read their character, or
\* call scan() again.
Commenting == startWithSlash \/ scanVersionDigits \/ comment \/ startWithStar \/ startWithSharp

LEMMA CommentingPaces == ScanInv /\ Ahead(rd, fr) /\ Commenting => Paces
<1> SUFFICES ASSUME ScanInv, Ahead(rd, fr), Commenting
             PROVE  Paces
    OBVIOUS
<1>1. fr \in Frame
    BY Found
<1>2. \/ fr'.pc \in Free \ {"idle"}
      \/ fr'.pc = "inc" /\ fr'.ret \in {"scan", "afterStar"}
      \/ /\ fr.pc \in PastFirst /\ rd' \in Onward /\ fr' = NoFrame
         /\ out'.begin = fr.pos.offset /\ out'.to = rd'.index
    <2> USE <1>1 DEF Free, PastFirst, Step, Rescan, Return, ReturnNothing, Result, Goto, Save, Inc, Frame, At, Onward
    <2>1. CASE startWithSlash
        <3>1. CASE At("slash")
            BY <2>1, <3>1 DEF startWithSlash
        <3>2. CASE At("slash2")
            BY <2>1, <3>2 DEF startWithSlash
        <3>3. CASE At("slash3")
            BY <2>1, <3>3 DEF startWithSlash
        <3> QED
            BY <2>1, <3>1, <3>2, <3>3 DEF startWithSlash
    <2>2. CASE scanVersionDigits
        BY <2>2 DEF scanVersionDigits
    <2>3. CASE comment
        <3>1. CASE At("comment")
            BY <2>3, <3>1 DEF comment
        <3>2. CASE At("afterStar") /\ fr.ch = Star
            BY <2>3, <3>2 DEF comment
        <3>3. CASE At("afterStar") /\ fr.ch # Star
            BY <2>3, <3>3 DEF comment
        <3> QED
            BY <2>3, <3>1, <3>2, <3>3 DEF comment
    <2>4. CASE startWithStar
        <3>1. CASE At("star")
            BY <2>4, <3>1 DEF startWithStar
        <3>2. CASE At("star2") /\ inBang /\ Peek(rd) = Slash
            BY <2>4, <3>2 DEF startWithStar
        <3>3. CASE At("star2") /\ ~(inBang /\ Peek(rd) = Slash)
            BY <2>4, <3>3 DEF startWithStar
        <3> QED
            BY <2>4, <3>1, <3>2, <3>3 DEF startWithStar
    <2>5. CASE startWithSharp
        BY <2>5 DEF startWithSharp
    <2> QED
        BY <2>1, <2>2, <2>3, <2>4, <2>5 DEF Commenting
<1>3. CASE fr'.pc \in Free \ {"idle"}
    BY <1>3, FreePaced, GoesPaced
<1>4. CASE fr'.pc = "inc" /\ fr'.ret \in {"scan", "afterStar"}
    <2>1. Paced(rd', fr')
        BY <1>4, LabelsApart DEF Paced, Entry, Numeric
    <2> QED
        BY <1>4, <2>1, GoesPaced
<1>5. CASE /\ fr.pc \in PastFirst /\ rd' \in Onward /\ fr' = NoFrame
           /\ out'.begin = fr.pos.offset /\ out'.to = rd'.index
    <2>1. Got(rd, fr)
        BY <1>5 DEF Ahead, Got
    <2> QED
        BY <1>5, <2>1, ReturnPaces
<1> QED
    BY <1>2, <1>3, <1>4, <1>5

-----------------------------------------------------------------------------
\* reader.cc:140-151
LEMMA IncPaces == ScanInv /\ Paced(rd, fr) /\ incAsLongAs => Paces
<1> SUFFICES ASSUME ScanInv, Paced(rd, fr), incAsLongAs
             PROVE  Paces
    OBVIOUS
<1>1. fr \in Frame /\ At("inc") /\ fr.pos.offset \in Nat /\ fr.pos.offset <= rd.index /\ rd.index \in Nat
    BY Found DEF incAsLongAs, IncNext, IncErrored, IncStop
<1>2. \/ fr.ret \in {"scan", "afterStar"}
      \/ fr.ret = "scanned" /\ fr.pred = "space" /\ fr.node = << >>
      \/ fr.ret \in Inside /\ (Got(rd, fr) \/ CanRead(rd, fr))
    BY <1>1 DEF Paced, At
<1>3. fr.ret \in Numeric => Numeral(rd, fr)
    BY <1>1 DEF Paced, At
<1>4. CASE IncNext
    <2>1. rd' = Advance(Peeked(rd)) /\ fr' = fr
        BY <1>4 DEF IncNext, Step
    <2>2. rd.index < rd'.index
        BY <1>4, <2>1, ReadableIsThere, ReadsOn DEF IncNext
    <2>3. rd' \in Onward
        BY <2>1 DEF Onward
    <2>4. Got(rd', fr')
        <3>1. rd'.index \in Nat
            BY <2>3, OnwardFacts
        <3>2. fr.pos.offset < rd'.index
            BY <1>1, <2>2, <3>1, SMT
        <3> QED
            BY <2>1, <3>2 DEF Got
    <2>5. fr'.ret \in Numeric => Numeral(rd', fr')
        BY <1>3, <2>1, <2>3, GotStays
    <2>6. Paced(rd', fr') /\ fr'.pc # "idle"
        BY <1>1, <1>2, <2>1, <2>4, <2>5, LabelsApart DEF Paced, Entry, At
    <2> QED
        BY <2>6, GoesPaced
<1>5. ASSUME NEW c, Step(Peeked(rd), [fr EXCEPT !.pc = fr.ret, !.ch = c]),
             ~CanRead(rd, fr), fr.pred = "space" => c = Peek(rd)
      PROVE  Paces
    <2>1. /\ rd' = Peeked(rd) /\ fr'.pc = fr.ret /\ fr'.pos = fr.pos /\ fr'.ch = c
          /\ fr'.node = fr.node
        BY <1>1, <1>5 DEF Frame, Step
    <2>2. rd' \in Onward /\ Peek(rd') = Peek(rd)
        BY <2>1, Found, PeekAgain DEF Onward
    <2>3. fr.ret \in Inside => Got(rd', fr')
        <3>1. fr.ret \in Inside => Got(rd, fr)
            BY <1>2, <1>5, LabelsApart DEF Free, PastFirst
        <3> QED
            BY <2>1, <2>2, <3>1, GotStays
    <2>4. fr.ret \in Numeric => Numeral(rd', fr')
        BY <1>3, <2>1, <2>2, GotStays
    <2>5. CASE fr.ret \in Inside
        <3>1. Paced(rd', fr') /\ fr'.pc # "idle"
            BY <2>1, <2>3, <2>4, <2>5, LabelsApart DEF Paced, Entry, Free
        <3> QED
            BY <3>1, GoesPaced
    <2>6. CASE fr.ret \in {"scan", "afterStar"}
        BY <2>1, <2>6, FreePaced, GoesPaced DEF Free, PastFirst
    <2>7. CASE fr.ret = "scanned" /\ fr.pred = "space" /\ fr.node = << >>
        <3>1. Paced(rd', fr')
            BY <1>5, <2>1, <2>2, <2>7, LabelsApart DEF Paced, Entry
        <3> QED
            BY <2>1, <2>7, <3>1, GoesPaced
    <2> QED
        BY <1>2, <2>5, <2>6, <2>7
<1>6. CASE IncErrored
    <2>1. Holds("space", Peek(rd)) => ~is_errored(Peek(rd))
        BY SMT DEF Holds, is_space, is_errored, rune_eof, rune_invalid, CategoryMC, CategoryZS
    <2> QED
        BY <1>5, <1>6, <2>1 DEF IncErrored, CanRead
<1>7. CASE IncStop
    BY <1>5, <1>7 DEF IncStop, CanRead
<1> QED
    BY <1>4, <1>6, <1>7 DEF incAsLongAs

\* scanner.cc:84-89
LEMMA ScanPaces == ScanInv /\ scan => Paces
<1> SUFFICES ASSUME ScanInv, scan
             PROVE  Paces
    OBVIOUS
<1>1. Peek(Peeked(rd)) = Peek(rd)
    BY Found, PeekAgain
<1>2. CASE is_space(Peek(rd))
    <2>1. fr'.pc = "inc" /\ fr'.ret = "scanned" /\ fr'.pred = "space" /\ fr'.node = << >>
        BY <1>2 DEF scan, Step, Inc, Fresh, NoFrame
    <2>2. Paced(rd', fr')
        BY <2>1, LabelsApart DEF Paced, Entry
    <2> QED
        BY <2>1, <2>2, GoesPaced
<1>3. CASE ~ is_space(Peek(rd))
    <2>1. fr'.pc = "scanned" /\ fr'.ch = Peek(rd) /\ rd' = Peeked(rd) /\ fr'.node = << >>
        BY <1>3 DEF scan, Step, Fresh, NoFrame
    <2>2. Paced(rd', fr')
        BY <1>1, <2>1, LabelsApart DEF Paced, Entry
    <2> QED
        BY <2>1, <2>2, GoesPaced
<1> QED
    BY <1>2, <1>3

\* scanner.cc:89-100
LEMMA ScannedPaces == ScanInv /\ Paced(rd, fr) /\ scanned => Paces
<1> SUFFICES ASSUME ScanInv, Paced(rd, fr), scanned
             PROVE  Paces
    OBVIOUS
<1>1. fr \in Frame /\ fr.ch = Peek(rd) /\ fr.node = << >> /\ rd.pos.offset = rd.index
    BY Found DEF Paced, scanned, At
<1>2. CASE Eof(rd) /\ Return(rd, 0, rd.pos, << >>)
    <2>1. rd' = rd /\ fr' = NoFrame /\ out'.begin = rd.index /\ out'.to = rd.index
        BY <1>1, <1>2 DEF Return, Result
    <2>2. rd.index = Len(rd.slice)
        <3>1. rd.index >= Len(rd.slice) /\ Len(rd.slice) \in Nat /\ rd.index <= Len(rd.slice)
              /\ rd.index \in Nat
            BY <1>2, Found, ReaderFields DEF Eof, ReaderInv
        <3> QED
            BY <3>1, SMT
    <2>3. Paced(rd', fr')
        BY <2>1, FreePaced DEF Free, NoFrame
    <2> QED
        BY <2>1, <2>2, <2>3 DEF Paces, Progress, text
<1>3. CASE isIdentExtend(fr.ch) /\ Step(rd, Save("ident"))
    <2>1. rd' = rd /\ fr'.pc = "ident"
        BY <1>1, <1>3 DEF Step, Save, Frame
    <2>2. isIdentChar(Peek(rd'))
        BY <1>1, <1>3, <2>1 DEF isIdentChar
    <2>3. Paced(rd', fr')
        BY <2>1, <2>2, LabelsApart DEF Paced, Entry
    <2> QED
        BY <2>1, <2>3, GoesPaced
<1>4. CASE ~isIdentExtend(fr.ch) /\ Step(rd, Save("trie"))
    <2>1. /\ rd' = rd /\ fr'.pc = "trie" /\ fr'.ch = fr.ch /\ fr'.node = fr.node
          /\ fr'.pos.offset = rd.index
        BY <1>1, <1>4 DEF Step, Save, Frame
    <2>2. Paced(rd', fr')
        BY <1>1, <1>4, <2>1, LabelsApart DEF Paced, Entry
    <2> QED
        BY <2>1, <2>2, GoesPaced
<1> QED
    BY <1>2, <1>3, <1>4 DEF scanned

\* misc.cc: what the handlers are registered for.
LEMMA HandlersFor ==
    ASSUME NEW c
    PROVE  /\ Handler(c) \in {"at", "slash", "star", "dash", "sharp", "xx", "nn", "bb", "dot",
                              "quoted", "number", "string", "ident", "none"}
           /\ Handler(c) \in {"xx", "nn", "bb", "ident"} => isIdentChar(c)
           /\ Handler(c) = "number" => isDigit(c)
<1>1. Handler(c) \in {"at", "slash", "star", "dash", "sharp", "xx", "nn", "bb", "dot",
                      "quoted", "number", "string", "ident", "none"}
    BY DEF Handler
<1>2. Handler(c) \in {"xx", "nn", "bb", "ident"} => isIdentChar(c)
    BY SMT DEF Handler, isIdentChar, isLetter, Underscore
<1>3. Handler(c) = "number" => isDigit(c)
    BY SMT DEF Handler
<1> QED
    BY <1>1, <1>2, <1>3

\* The runes that the trie is entered with.
LEMMA NotExtended ==
    ASSUME NEW c \in Rune, c # rune_eof, ~isIdentExtend(c)
    PROVE  c \in 0 .. 127 \/ c > \hFFFF
<1>1. c \in Int /\ rune_eof <= c
    <2>1. \A low, high \in Int : \A x \in low .. high : x \in Int /\ low <= x
        BY SMT
    <2>2. rune_eof \in Int /\ rune_max \in Int
        BY SMT DEF rune_eof, rune_max
    <2> QED
        BY <2>1, <2>2 DEF Rune
<1>2. c >= 0
    BY <1>1, SMT DEF rune_eof
<1>3. ~(c >= 128 /\ c <= \hFFFF)
    BY <1>1, SMT DEF isIdentExtend
<1> QED
    BY <1>1, <1>2, <1>3, SMT

\* scanner.cc:100-114
LEMMA TriePaces == ScanInv /\ Paced(rd, fr) /\ trie => Paces
<1> SUFFICES ASSUME ScanInv, Paced(rd, fr), trie
             PROVE  Paces
    OBVIOUS
<1>1. fr \in Frame /\ At("trie")
    BY Found DEF trie
<1>2. IF fr.node = << >>
      THEN fr.ch = Peek(rd) /\ rd.index = fr.pos.offset /\ ~isIdentExtend(fr.ch)
      ELSE fr.pos.offset < rd.index
    BY <1>1 DEF Paced, At
<1>3. fr.node = << >> /\ ~Eof(rd) => FirstRune(rd, fr) = fr.ch
    BY <1>2 DEF FirstRune, Peek
<1>4. CASE /\ ~(fr.ch \in 0 .. 255 /\ HasChild(fr.node, fr.ch) /\ ~Eof(rd))
           /\ Return(rd, NodeToken(fr.node), fr.pos, Data(rd, fr.pos))
    <2>1. Got(rd, fr) \/ Eof(rd)
        <3>1. CASE fr.node # << >>
            BY <1>2, <3>1 DEF Got
        <3>2. CASE fr.node = << >> /\ ~Eof(rd)
            <4>1. fr.ch \in Rune
                BY <1>1 DEF Frame
            <4>2. fr.ch # rune_eof
                BY <1>2, <3>2, RuneIsThere
            <4>3. fr.ch \in 0 .. 127 \/ fr.ch > \hFFFF
                BY <1>2, <3>2, <4>1, <4>2, NotExtended
            <4>4. CASE fr.ch > \hFFFF
                BY <1>3, <3>2, <4>4 DEF Got, StartsNothing
            <4>5. CASE fr.ch \in 0 .. 127
                <5>1. fr.ch \in 0 .. 255 /\ fr.ch < \h80
                    BY <4>5, SMT
                <5>2. ~HasChild(<< >>, fr.ch)
                    BY <1>4, <3>2, <5>1
                <5>3. Handler(fr.ch) = "none"
                    BY <5>2 DEF HasChild
                <5> QED
                    BY <1>3, <3>2, <5>1, <5>2, <5>3 DEF Got, StartsNothing
            <4> QED
                BY <4>3, <4>4, <4>5
        <3> QED
            BY <3>1, <3>2
    <2>2. rd' \in Onward /\ fr' = NoFrame /\ out'.begin = fr.pos.offset /\ out'.to = rd'.index
        BY <1>4 DEF Return, Result, Onward
    <2> QED
        BY <2>1, <2>2, ReturnPaces
<1>5. CASE /\ fr.node = << >> /\ Handler(fr.ch) # "none" /\ ~Eof(rd)
           /\ Step(rd, Goto(Stub(Handler(fr.ch))))
    <2> DEFINE l == Stub(Handler(fr.ch))
    <2>1. rd' = rd /\ fr'.pc = l /\ fr'.pos = fr.pos
        BY <1>1, <1>5 DEF Step, Goto, Frame
    <2>2. /\ l \in {"stub", "slash", "star", "sharp", "xx", "nn", "bb", "quoted", "number",
                    "string", "ident"}
          /\ l = "stub" => Handler(fr.ch) \in {"at", "dash", "dot"}
          /\ l # "stub" => l = Handler(fr.ch)
        BY <1>5, HandlersFor DEF Stub
    <2> HIDE DEF l
    <2>3. l = "stub" => Got(rd', fr')
        BY <1>3, <1>5, <2>1, <2>2 DEF Got, StartsNothing, FirstRune
    <2>4. Entry(rd', l)
        BY <1>2, <1>5, <2>1, <2>2, HandlersFor DEF Entry
    <2>5. l \in {"slash", "star", "sharp"} \/ l \in {"stub", "xx", "nn", "bb", "quoted", "number",
                                                    "string", "ident"}
        BY <2>2
    <2>6. CASE l \in {"slash", "star", "sharp"}
        BY <2>1, <2>6, FreePaced, GoesPaced DEF Free
    <2>7. CASE l \in {"stub", "xx", "nn", "bb", "quoted", "number", "string", "ident"}
        <3>1. l \in Inside => l = "stub"
            BY <2>7, LabelsApart
        <3>2. l \notin Numeric
            BY <2>7, LabelsApart DEF Numeric
        <3>3. Paced(rd', fr')
            BY <2>1, <2>3, <2>4, <2>7, <3>1, <3>2 DEF Paced
        <3> QED
            BY <2>1, <2>7, <3>3, GoesPaced
    <2> QED
        BY <2>5, <2>6, <2>7
<1>6. CASE /\ ~Eof(rd)
           /\ Step(Advance(rd), [fr EXCEPT !.node = Append(fr.node, fr.ch), !.ch = Peek(rd)])
    <2>1. /\ rd' = Advance(rd) /\ fr'.pc = "trie" /\ fr'.node = Append(fr.node, fr.ch)
          /\ fr'.pos = fr.pos
        BY <1>1, <1>6 DEF Step, At, Frame
    <2>2. fr'.node # << >>
        <3>1. fr.node \in Seq(Byte)
            BY <1>1 DEF Frame
        <3>2. Len(Append(fr.node, fr.ch)) = Len(fr.node) + 1 /\ Len(fr.node) \in Nat
            BY <3>1, SMT
        <3> QED
            BY <2>1, <3>2, SMT
    <2>3. fr'.pos.offset < rd'.index
        <3>1. rd.index < Advance(rd).index /\ Advance(rd).index \in Nat
            BY <1>6, ReadsOn
        <3>2. fr.pos.offset <= rd.index /\ fr.pos.offset \in Nat /\ rd.index \in Nat
            BY Found
        <3>3. fr.pos.offset < Advance(rd).index
            BY <3>1, <3>2, SMT
        <3> QED
            BY <2>1, <3>3
    <2>4. Paced(rd', fr')
        BY <2>1, <2>2, <2>3, LabelsApart DEF Paced, Entry
    <2> QED
        BY <2>1, <2>4, GoesPaced
<1> QED
    BY <1>4, <1>5, <1>6 DEF trie

\* Scanning and the calls of scan() keep the pace.
LEMMA NextPaces == ScanInv /\ Ahead(rd, fr) /\ Paced(rd, fr) /\ (Scanning \/ Call) => Paces
<1> SUFFICES ASSUME ScanInv, Ahead(rd, fr), Paced(rd, fr), Scanning \/ Call
             PROVE  Paces
    OBVIOUS
<1>1. CASE Call
    <2>1. fr'.pc = "scan"
        BY <1>1 DEF Call, Step, NoFrame
    <2> QED
        BY <2>1, FreePaced, GoesPaced DEF Free
<1>2. CASE scanIdentifierOrString
    BY <1>2 DEF Paced, scanIdentifierOrString, At
<1>3. CASE Scanning /\ ~scanIdentifierOrString
    BY <1>3, ScanPaces, ScannedPaces, TriePaces, IncPaces, GoingPaces, CountingPaces,
       PrefixPaces, FloatPaces, ExponentPaces, BeginningPaces, WordsPace, CommentingPaces
       DEF Scanning, Going, Counting, Beginning, Commenting
<1> QED
    BY <1>1, <1>2, <1>3

\* A client that loops over scan() gets on, in every statement: a call consumes
\* something of its token unless the text is at its end or what is next starts
\* no token.  What a handler gives back when it reads its token again, and the
\* walk down the trie, are what could hold it up.
THEOREM ScannerProgresses == ScanSpec => []Progress
<1>1. Init => Ahead(rd, fr) /\ Paced(rd, fr) /\ Progress
    <2> SUFFICES ASSUME Init
                 PROVE  Ahead(rd, fr) /\ Paced(rd, fr) /\ Progress
        OBVIOUS
    <2>1. Ahead(rd, fr)
        BY DEF Init, NoFrame, Ahead, PastFirst
    <2>2. Paced(rd, fr)
        BY FreePaced DEF Init, NoFrame, Free
    <2>3. Progress
        BY DEF Init, Progress, Returned
    <2> QED
        BY <2>1, <2>2, <2>3
<1>2. ScanInv /\ Ahead(rd, fr) /\ Paced(rd, fr) /\ Progress /\ [Scanning \/ Call]_vars
      => Ahead(rd, fr)' /\ Paced(rd, fr)' /\ Progress'
    <2>1. ScanInv /\ Ahead(rd, fr) /\ (Scanning \/ Call) => Ahead(rd, fr)'
        BY NextNests DEF Nests, Ahead, Next, Client
    <2>2. ScanInv /\ Ahead(rd, fr) /\ Paced(rd, fr) /\ (Scanning \/ Call) => Paced(rd, fr)' /\ Progress'
        BY NextPaces DEF Paces
    <2>3. UNCHANGED vars => UNCHANGED <<rd, fr, out>>
        BY DEF vars
    <2>4. Ahead(rd, fr) /\ Paced(rd, fr) /\ Progress /\ UNCHANGED <<rd, fr, out>>
          => Ahead(rd, fr)' /\ Paced(rd, fr)' /\ Progress'
        <3>1. Ahead(rd, fr) /\ UNCHANGED <<rd, fr, out>> => Ahead(rd, fr)'
            OBVIOUS
        <3>2. Paced(rd, fr) /\ UNCHANGED <<rd, fr, out>> => Paced(rd, fr)'
            OBVIOUS
        <3>3. Progress /\ UNCHANGED <<rd, fr, out>> => Progress'
            BY DEF Progress, Returned, At, text
        <3> QED
            BY <3>1, <3>2, <3>3
    <2> QED
        BY <2>1, <2>2, <2>3, <2>4
<1> QED
    BY <1>1, <1>2, ScannerInvariant, ScanSpecIsSpec, PTL DEF ScanSpec

-----------------------------------------------------------------------------
(***************************************************************************)
(* Every step of a call descends in the order of Less.                     *)
(***************************************************************************)
\* Where what there is to read begins.
Place(r, f) == IF Looking(f) THEN r.index ELSE f.pos.offset

\* A step that brings the call nearer to its return.
Nearer ==
    \/ fr'.pc = "idle"
    \/ Measure(rd', fr') \in [1 .. 4 -> Nat] /\ Less(Measure(rd', fr'), Measure(rd, fr))
    \/ SpinsAtEof'

\* The ranks and the turns are naturals.
LEMMA RankNatural == \A label : Rank(label) \in Nat
BY SMT DEF Rank

LEMMA TurnNatural == \A r, f : Turn(r, f) \in Nat
BY SMT DEF Turn

\* In the lexicographic order the first of the four that differs decides.
LEMMA LessDecides ==
    ASSUME NEW a1 \in Nat, NEW a2 \in Nat, NEW a3 \in Nat, NEW a4 \in Nat,
           NEW b1 \in Nat, NEW b2 \in Nat, NEW b3 \in Nat, NEW b4 \in Nat,
           a1 < b1 \/ (a1 = b1 /\ (a2 < b2 \/ (a2 = b2 /\ (a3 < b3 \/ (a3 = b3 /\ a4 < b4)))))
    PROVE  Less(<<a1, a2, a3, a4>>, <<b1, b2, b3, b4>>)
<1> DEFINE m == <<a1, a2, a3, a4>>
           n == <<b1, b2, b3, b4>>
<1>1. /\ m[1] = a1 /\ m[2] = a2 /\ m[3] = a3 /\ m[4] = a4
      /\ n[1] = b1 /\ n[2] = b2 /\ n[3] = b3 /\ n[4] = b4
    OBVIOUS
<1> HIDE DEF m, n
<1> SUFFICES Less(m, n)
    BY DEF m, n
<1>2. CASE a1 < b1
    BY <1>1, <1>2 DEF Less
<1>3. CASE a1 = b1 /\ a2 < b2
    BY <1>1, <1>3 DEF Less
<1>4. CASE a1 = b1 /\ a2 = b2 /\ a3 < b3
    <2>1. m[3] < n[3] /\ \A j \in 1 .. 3 - 1 : m[j] = n[j]
        BY <1>1, <1>4, SMT
    <2> QED
        BY <2>1 DEF Less
<1>5. CASE a1 = b1 /\ a2 = b2 /\ a3 = b3 /\ a4 < b4
    <2>1. m[4] < n[4] /\ \A j \in 1 .. 4 - 1 : m[j] = n[j]
        BY <1>1, <1>5, SMT
    <2> QED
        BY <2>1 DEF Less
<1>6. \/ a1 < b1
      \/ a1 = b1 /\ a2 < b2
      \/ a1 = b1 /\ a2 = b2 /\ a3 < b3
      \/ a1 = b1 /\ a2 = b2 /\ a3 = b3 /\ a4 < b4
    OBVIOUS
<1> QED
    BY <1>2, <1>3, <1>4, <1>5, <1>6

\* The reader and what it has left to read.
LEMMA PlaceFacts ==
    ASSUME NEW r, NEW f, Lives(r), GoodFrame(r, f)
    PROVE  /\ Len(r.slice) \in Nat /\ r.index \in Nat /\ r.index <= Len(r.slice)
           /\ f.pos.offset \in Nat /\ f.pos.offset <= r.index
           /\ Place(r, f) \in Nat /\ Place(r, f) <= r.index
<1>1. Len(r.slice) \in Nat /\ r.index \in Nat /\ r.index <= Len(r.slice)
    BY ReaderFields DEF Lives, ReaderInv
<1>2. f.pos.offset \in Nat /\ f.pos.offset <= r.index
    BY DEF GoodFrame, Saved, Pos
<1> QED
    BY <1>1, <1>2 DEF Place

\* What a step must do to bring the call nearer to its return.
LEMMA Nearing ==
    ASSUME ScanInv, ScanInv', rd'.slice = rd.slice,
           \/ Place(rd, fr) < Place(rd', fr')
           \/ /\ Place(rd, fr) <= Place(rd', fr')
              /\ \/ RankOf(fr') < RankOf(fr)
                 \/ /\ RankOf(fr') = RankOf(fr)
                    /\ \/ rd.index < rd'.index
                       \/ rd.index = rd'.index /\ Turn(rd', fr') < Turn(rd, fr)
    PROVE  Nearer
<1> DEFINE b1 == Len(rd.slice) - Place(rd, fr)
           b3 == Len(rd.slice) - rd.index
           a1 == Len(rd'.slice) - Place(rd', fr')
           a3 == Len(rd'.slice) - rd'.index
<1>1. /\ Len(rd.slice) \in Nat /\ rd.index \in Nat /\ rd.index <= Len(rd.slice)
      /\ Place(rd, fr) \in Nat /\ Place(rd, fr) <= rd.index
      /\ rd'.index \in Nat /\ rd'.index <= Len(rd.slice)
      /\ Place(rd', fr') \in Nat /\ Place(rd', fr') <= rd'.index
    BY PlaceFacts DEF ScanInv
<1>2. a1 \in Nat /\ a3 \in Nat /\ b1 \in Nat /\ b3 \in Nat
    <2>1. \A m, n, k \in Nat : m <= n /\ n <= k => k - m \in Nat /\ k - n \in Nat
        BY SMT
    <2> QED
        BY <1>1, <2>1
<1>3. /\ RankOf(fr) \in Nat /\ RankOf(fr') \in Nat
      /\ Turn(rd, fr) \in Nat /\ Turn(rd', fr') \in Nat
    BY RankNatural, TurnNatural DEF RankOf
<1>4. /\ Measure(rd, fr) = <<b1, RankOf(fr), b3, Turn(rd, fr)>>
      /\ Measure(rd', fr') = <<a1, RankOf(fr'), a3, Turn(rd', fr')>>
    BY DEF Measure, Place
<1>5. \/ a1 < b1
      \/ a1 = b1 /\ RankOf(fr') < RankOf(fr)
      \/ a1 = b1 /\ RankOf(fr') = RankOf(fr) /\ a3 < b3
      \/ a1 = b1 /\ RankOf(fr') = RankOf(fr) /\ a3 = b3 /\ Turn(rd', fr') < Turn(rd, fr)
    BY <1>1, <1>3, SMT
<1> HIDE DEF a1, a3, b1, b3
<1>6. Less(<<a1, RankOf(fr'), a3, Turn(rd', fr')>>, <<b1, RankOf(fr), b3, Turn(rd, fr)>>)
    BY <1>2, <1>3, <1>5, LessDecides
<1>7. Measure(rd', fr') \in [1 .. 4 -> Nat]
    BY <1>2, <1>3, <1>4
<1> QED
    BY <1>4, <1>6, <1>7 DEF Nearer

\* The ranks of the labels that the handlers go to.
LEMMA Ranks ==
    /\ \A l \in {"scan", "scanned"} : Rank(l) = 12
    /\ Rank("trie") = 11
    /\ \A l \in {"number", "xx", "bb", "word"} : Rank(l) = 10
    /\ \A l \in {"number2", "prefix"} : Rank(l) = 9
    /\ Rank("radixEnd") = 8 /\ Rank("digits") = 7 /\ Rank("numberTail") = 6 /\ Rank("float") = 5
    /\ \A l \in {"fraction", "string", "quoted", "nn", "slash", "star"} : Rank(l) = 4
    /\ \A l \in {"exponent", "slash2"} : Rank(l) = 3
    /\ \A l \in {"sign", "slash3"} : Rank(l) = 2
    /\ \A l \in {"power", "ident", "sharp", "version"} : Rank(l) = 1
    /\ \A l \in {"prefixEnd", "identEnd", "nnEnd", "floatEnd", "stub", "quotedLoop", "quotedNext",
                 "stringPeek", "stringLoop", "afterQuote", "afterBackslash", "write", "comment",
                 "afterStar", "star2"} : Rank(l) = 0
BY SMT DEF Rank

\* The labels of the frames that the handlers make.
LEMMA FramesGo ==
    ASSUME fr \in Frame
    PROVE  /\ NoFrame.pc = "idle"
           /\ \A l : Goto(l).pc = l /\ Save(l).pc = l
           /\ \A l, c : [Goto(l) EXCEPT !.ch = c].pc = l
           /\ \A p, l : Inc(fr, p, l).pc = "inc" /\ Inc(fr, p, l).ret = l
           /\ \A k, p, l : Inc(Save(k), p, l).pc = "inc" /\ Inc(Save(k), p, l).ret = l
BY DEF NoFrame, Goto, Save, Inc, Frame

\* The handlers without a loop of their own.
Straight ==
    \/ startWithStub \/ startWithXx \/ startWithBb \/ prefix \/ scanIdentifier
    \/ startWithNn \/ openQuotedIdent \/ startWithNumber \/ radixEnd
    \/ numberTail \/ scanFloat \/ exponent \/ scanIdentifierOrString
    \/ (startString /\ At("string"))

\* They return or go to a lower rank.
Falls == fr'.pc = "idle" \/ RankOf(fr') < RankOf(fr)

LEMMA StraightFalls == ScanInv /\ Straight => Falls
<1> SUFFICES ASSUME fr \in Frame, Straight
             PROVE  Falls
    BY Found
<1> USE FramesGo, Ranks DEF Falls, RankOf, At
<1>1. CASE startWithStub
    BY <1>1 DEF startWithStub, ReturnNothing, Result
<1>2. CASE startWithXx
    <2> DEFINE f == [Save("prefix") EXCEPT !.tok = tok_hexLit, !.pred = "hex"]
    <2>1. f.pc = "prefix"
        <3> HIDE FramesGo, Ranks
        <3> QED
            BY DEF Save, Frame
    <2>2. At("xx") /\ Step(Advance(rd), f)
        BY <1>2 DEF startWithXx
    <2> HIDE DEF f
    <2> QED
        BY <2>1, <2>2 DEF Step
<1>3. CASE startWithBb
    <2> DEFINE f == [Save("prefix") EXCEPT !.tok = tok_bitLit, !.pred = "bit"]
    <2>1. f.pc = "prefix"
        <3> HIDE FramesGo, Ranks
        <3> QED
            BY DEF Save, Frame
    <2>2. At("bb") /\ Step(Advance(rd), f)
        BY <1>3 DEF startWithBb
    <2> HIDE DEF f
    <2> QED
        BY <2>1, <2>2 DEF Step
<1>4. CASE prefix
    BY <1>4 DEF prefix, Step, Return, Result
<1>5. CASE scanIdentifier
    BY <1>5 DEF scanIdentifier, Step, Return, Result
<1>6. CASE startWithNn
    BY <1>6 DEF startWithNn, Step, Return, Result
<1>7. CASE openQuotedIdent
    BY <1>7 DEF openQuotedIdent, StepBuf
<1>8. CASE startWithNumber
    <2>1. CASE At("number")
        <3> DEFINE f == [Save("number2") EXCEPT !.tok = tok_intLit, !.ch = Peek(rd)]
        <3>1. f.pc = "number2"
            <4> HIDE FramesGo, Ranks
            <4> QED
                BY DEF Save, Frame
        <3>2. Step(Advance(rd), f)
            BY <1>8, <2>1 DEF startWithNumber
        <3> HIDE DEF f
        <3> QED
            BY <2>1, <3>1, <3>2 DEF Step
    <2>2. CASE At("number2") /\ Peek(rd) \in {120, 88, 98}
        <3> DEFINE hex == Inc([fr EXCEPT !.tok = tok_hexLit, !.mark = Advance(rd).pos], "hex", "radixEnd")
                   bit == Inc([fr EXCEPT !.tok = tok_bitLit, !.mark = Advance(rd).pos], "bit", "radixEnd")
        <3>1. hex.pc = "inc" /\ hex.ret = "radixEnd" /\ bit.pc = "inc" /\ bit.ret = "radixEnd"
            BY DEF Inc, Frame
        <3>2. \/ Step(rd, Goto("digits"))
              \/ Step(Advance(Peeked(rd)), hex) \/ Step(Advance(Peeked(rd)), bit)
            <4> HIDE FramesGo, Ranks
            <4> QED
                BY <1>8, <2>2 DEF startWithNumber, At, Dot
        <3> HIDE DEF hex, bit
        <3> QED
            BY <2>2, <3>1, <3>2 DEF Step
    <2>3. CASE At("number2") /\ Peek(rd) \notin {120, 88, 98}
        BY <1>8, <2>3 DEF startWithNumber, Step
    <2> QED
        BY <1>8, <2>1, <2>2, <2>3 DEF startWithNumber
<1>9. CASE radixEnd
    BY <1>9 DEF radixEnd, Step
<1>10. CASE numberTail
    BY <1>10 DEF numberTail, Step, Return, Result
<1>11. CASE scanFloat
    BY <1>11 DEF scanFloat, Step, Return, Result
<1>12. CASE exponent
    BY <1>12 DEF exponent, Step, Return, Result
<1>13. CASE scanIdentifierOrString
    BY <1>13 DEF scanIdentifierOrString, Step, Result
<1>14. CASE startString /\ At("string")
    <2> DEFINE f == [Save("stringPeek") EXCEPT !.ending = Peek(rd), !.useBuf = FALSE]
    <2>1. f.pc = "stringPeek"
        <3> HIDE FramesGo, Ranks
        <3> QED
            BY DEF Save, Frame
    <2>2. Step(Advance(rd), f)
        BY <1>14 DEF startString
    <2> HIDE DEF f
    <2> QED
        BY <1>14, <2>1, <2>2 DEF Step
<1> QED
    BY <1>1, <1>2, <1>3, <1>4, <1>5, <1>6, <1>7, <1>8, <1>9, <1>10, <1>11, <1>12, <1>13, <1>14
       DEF Straight

\* Whatever such a handler does to the reader and to its position, what there is
\* to read from there is no more than before.
LEMMA AloofPlace ==
    ASSUME ScanInv, Aloof, fr'.pc # "idle"
    PROVE  /\ rd'.slice = rd.slice
           /\ Place(rd, fr) = fr.pos.offset /\ Place(rd', fr') = fr'.pos.offset
           /\ fr.pos.offset <= fr'.pos.offset
<1>1. /\ Remains(fr') /\ rd' \in Onward \cup WentBack
      /\ fr.pc \notin {"idle", "scan", "scanned", "inc"}
    BY AloofStays DEF Stays, NoFrame
<1>2. rd'.slice = rd.slice
    <2>1. ReaderInv(rd) /\ ReaderInv(Peeked(rd))
        BY Found
    <2>2. Saved(rd, fr.pos) /\ Saved(Peeked(rd), fr.pos) /\ Peeked(rd).slice = rd.slice
        BY <2>1, PeekedInv DEF ScanInv, GoodFrame, Saved
    <2> QED
        BY <1>1, <2>1, <2>2, OnwardFacts, UpdatePosLands DEF WentBack
<1>3. ~Looking(fr) /\ ~Looking(fr')
    BY <1>1 DEF Looking, Remains, Quiet, Resumes, Returns
<1>4. fr.pos.offset <= fr'.pos.offset
    BY <1>1, Found DEF Remains
<1> QED
    BY <1>2, <1>3, <1>4 DEF Place

LEMMA StraightNears == ScanInv /\ ScanInv' /\ Straight => Nearer
<1> SUFFICES ASSUME ScanInv, ScanInv', Straight, fr'.pc # "idle"
             PROVE  Nearer
    BY DEF Nearer
<1>1. Aloof
    BY DEF Straight, Aloof
<1>2. RankOf(fr') < RankOf(fr)
    BY StraightFalls DEF Falls
<1> QED
    BY <1>1, <1>2, AloofPlace, Nearing

-----------------------------------------------------------------------------
\* The turn at each label.
LEMMA Turns ==
    \A r, f :
      /\ f.pc = "comment" => Turn(r, f) = IF f.star /\ Eof(r) THEN 4 ELSE 2
      /\ f.pc = "afterStar" => Turn(r, f) = IF f.ch = Star /\ Eof(r) THEN 3 ELSE 0
      /\ f.pc = "stringPeek" => Turn(r, f) = 3
      /\ f.pc = "stringLoop" => Turn(r, f) = IF Eof(r) THEN 0 ELSE 2
      /\ f.pc \in {"scan", "afterQuote", "afterBackslash"} => Turn(r, f) = 2
      /\ f.pc \in {"inc", "write", "quotedNext"} => Turn(r, f) = 1
      /\ f.pc \in {"scanned", "quotedLoop"} => Turn(r, f) = 0
BY SMT DEF Turn

\* A step within a rank reads on or has a turn less.
LEMMA Rounding ==
    ASSUME ScanInv, ScanInv', Aloof, fr'.pc # "idle", RankOf(fr') = RankOf(fr),
           \/ rd.index < rd'.index
           \/ rd.index = rd'.index /\ Turn(rd', fr') < Turn(rd, fr)
    PROVE  Nearer
BY AloofPlace, Nearing

\* The loops of scanQuotedIdent and of scanString.
Round ==
    \/ scanQuotedIdent \/ (startString /\ At("stringPeek")) \/ scanString
    \/ afterQuote \/ handleEscape \/ writeString

\* What a step of theirs does to the reader and to the label: it returns, is at
\* the end of the text in scanQuotedIdent, or goes round.
GoesRound ==
    \/ fr'.pc = "idle"
    \/ fr.pc = "quotedLoop" /\ fr'.pc = "quotedNext" /\ fr'.ch = Peek(rd) /\ rd' = Advance(rd)
    \/ fr.pc = "quotedNext" /\ fr'.pc = "quotedLoop" /\ rd' \in {rd, Advance(Peeked(rd))}
    \/ fr.pc = "stringPeek" /\ fr'.pc = "stringLoop" /\ rd' = Peeked(rd)
    \/ fr.pc = "stringLoop" /\ fr'.pc \in {"afterQuote", "afterBackslash"} /\ ~Eof(rd) /\ rd' = Advance(rd)
    \/ fr.pc = "stringLoop" /\ fr'.pc = "write" /\ ~Eof(rd) /\ rd' = rd
    \/ fr.pc \in {"afterQuote", "afterBackslash"} /\ fr'.pc = "write" /\ rd' = Peeked(rd)
    \/ fr.pc = "write" /\ fr'.pc = (IF Eof(rd) THEN "stringLoop" ELSE "stringPeek") /\ rd' = Advance(rd)

LEMMA RoundGoes == ScanInv /\ Round => GoesRound
<1> SUFFICES ASSUME fr \in Frame, Round
             PROVE  GoesRound
    BY Found
<1>1. /\ NoFrame.pc = "idle"
      /\ \A l : Goto(l).pc = l
      /\ \A l, c : [Goto(l) EXCEPT !.ch = c].pc = l /\ [Goto(l) EXCEPT !.ch = c].ch = c
      /\ \A l : [Goto(l) EXCEPT !.useBuf = TRUE].pc = l
    BY DEF NoFrame, Goto, Frame
<1>2. CASE scanQuotedIdent
    <2>1. CASE At("quotedLoop")
        <3>1. Step(Advance(rd), [Goto("quotedNext") EXCEPT !.ch = Peek(rd)])
            BY <1>2, <2>1 DEF scanQuotedIdent, At
        <3>2. fr'.pc = "quotedNext" /\ fr'.ch = Peek(rd) /\ rd' = Advance(rd)
            BY <1>1, <3>1, Zenon DEF Step
        <3> QED
            BY <2>1, <3>2 DEF GoesRound, At
    <2>2. CASE At("quotedNext")
        <3>1. \/ fr' = NoFrame
              \/ fr' = Goto("quotedLoop") /\ rd' \in {rd, Advance(Peeked(rd))}
            BY <1>2, <2>2 DEF scanQuotedIdent, At, StepBuf, Return, Result
        <3> QED
            BY <1>1, <2>2, <3>1 DEF GoesRound, At
    <2> QED
        BY <1>2, <2>1, <2>2 DEF scanQuotedIdent
<1>3. CASE startString /\ At("stringPeek")
    <2>1. Step(Peeked(rd), [Goto("stringLoop") EXCEPT !.ch = Peek(rd)])
        BY <1>3 DEF startString, At
    <2>2. fr'.pc = "stringLoop" /\ rd' = Peeked(rd)
        BY <1>1, <2>1, Zenon DEF Step
    <2> QED
        BY <1>3, <2>2 DEF GoesRound, At
<1>4. CASE scanString
    BY <1>1, <1>4 DEF scanString, GoesRound, At, Step, StepBuf, Return, Result
<1>5. CASE afterQuote
    BY <1>1, <1>5 DEF afterQuote, GoesRound, At, StepBuf, Return, Result
<1>6. CASE handleEscape
    BY <1>1, <1>6 DEF handleEscape, GoesRound, At, StepBuf
<1>7. CASE writeString
    BY <1>1, <1>7 DEF writeString, GoesRound, At, StepBuf
<1> QED
    BY <1>2, <1>3, <1>4, <1>5, <1>6, <1>7 DEF Round

LEMMA RoundNears == ScanInv /\ ScanInv' /\ Round => Nearer
<1> SUFFICES ASSUME ScanInv, ScanInv', Round, fr'.pc # "idle"
             PROVE  Nearer
    BY DEF Nearer
<1>1. Aloof /\ GoesRound
    BY RoundGoes DEF Round, Aloof
<1>2. RankOf(fr) = 0 /\ RankOf(fr') = 0
    BY <1>1, Ranks DEF GoesRound, RankOf
<1>3. /\ rd.index \in Nat /\ Peeked(rd).index = rd.index
      /\ ReaderInv(rd) /\ Advance(rd).index \in Nat
      /\ ~Eof(rd) => rd.index < Advance(rd).index
      /\ rd.index <= Advance(rd).index
      /\ Eof(Peeked(rd)) <=> Eof(rd)
      /\ rd.index = Advance(Peeked(rd)).index \/ rd.index < Advance(Peeked(rd)).index
    BY Found, ReadsOn, PeekAgain
<1>4. CASE fr.pc = "quotedLoop" /\ fr'.pc = "quotedNext" /\ fr'.ch = Peek(rd) /\ rd' = Advance(rd)
    <2>1. CASE Eof(rd)
        <3>1. fr'.ch = rune_eof
            BY <1>4, <2>1 DEF Peek
        <3> QED
            BY <1>4, <3>1 DEF Nearer, SpinsAtEof, At
    <2>2. CASE ~Eof(rd)
        BY <1>1, <1>2, <1>3, <1>4, <2>2, Rounding
    <2> QED
        BY <2>1, <2>2
<1>5. CASE fr.pc = "quotedNext" /\ fr'.pc = "quotedLoop" /\ rd' \in {rd, Advance(Peeked(rd))}
    <2>1. Turn(rd, fr) = 1 /\ Turn(rd', fr') = 0
        BY <1>5, Turns
    <2>2. rd.index = rd'.index \/ rd.index < rd'.index
        BY <1>3, <1>5
    <2> QED
        BY <1>1, <1>2, <2>1, <2>2, Rounding
<1>6. CASE fr.pc = "stringPeek" /\ fr'.pc = "stringLoop" /\ rd' = Peeked(rd)
    <2>1. Turn(rd, fr) = 3 /\ Turn(rd', fr') \in {0, 2}
        BY <1>6, Turns
    <2> QED
        BY <1>1, <1>2, <1>3, <1>6, <2>1, Rounding
<1>7. CASE fr.pc = "stringLoop" /\ fr'.pc \in {"afterQuote", "afterBackslash"} /\ ~Eof(rd) /\ rd' = Advance(rd)
    BY <1>1, <1>2, <1>3, <1>7, Rounding
<1>8. CASE fr.pc = "stringLoop" /\ fr'.pc = "write" /\ ~Eof(rd) /\ rd' = rd
    <2>1. Turn(rd, fr) = 2 /\ Turn(rd', fr') = 1
        BY <1>8, Turns
    <2> QED
        BY <1>1, <1>2, <1>3, <1>8, <2>1, Rounding
<1>9. CASE fr.pc \in {"afterQuote", "afterBackslash"} /\ fr'.pc = "write" /\ rd' = Peeked(rd)
    <2>1. Turn(rd, fr) = 2 /\ Turn(rd', fr') = 1
        BY <1>9, Turns
    <2> QED
        BY <1>1, <1>2, <1>3, <1>9, <2>1, Rounding
<1>10. CASE fr.pc = "write" /\ fr'.pc = (IF Eof(rd) THEN "stringLoop" ELSE "stringPeek") /\ rd' = Advance(rd)
    <2>1. CASE Eof(rd)
        <3>1. rd' = rd
            BY <1>10, <2>1 DEF Advance
        <3>2. Turn(rd, fr) = 1 /\ Turn(rd', fr') = 0
            BY <1>10, <2>1, <3>1, Turns
        <3> QED
            BY <1>1, <1>2, <1>3, <3>1, <3>2, Rounding
    <2>2. CASE ~Eof(rd)
        BY <1>1, <1>2, <1>3, <1>10, <2>2, Rounding
    <2> QED
        BY <2>1, <2>2
<1> QED
    BY <1>1, <1>4, <1>5, <1>6, <1>7, <1>8, <1>9, <1>10 DEF GoesRound

-----------------------------------------------------------------------------
\* scanner.cc:84-88: scan() looks at the next rune, then skips white space.
LEMMA ScanNears == ScanInv /\ ScanInv' /\ scan => Nearer
<1> SUFFICES ASSUME ScanInv, ScanInv', scan
             PROVE  Nearer
    OBVIOUS
<1>1. rd' = Peeked(rd) /\ rd'.index = rd.index /\ rd'.slice = rd.slice /\ rd.index \in Nat
    BY Found, ReadsOn, OnwardFacts DEF scan, Step, Onward
<1>2. \/ fr'.pc = "inc" /\ fr'.ret = "scanned"
      \/ fr'.pc = "scanned"
    BY DEF scan, Step, Inc, Fresh, NoFrame
<1>3. Looking(fr) /\ Looking(fr') /\ RankOf(fr) = 12 /\ RankOf(fr') = 12
    BY <1>2, Ranks DEF Looking, RankOf, scan, At
<1>4. Turn(rd, fr) = 2 /\ Turn(rd', fr') \in {0, 1}
    BY <1>2, Turns DEF scan, At
<1> QED
    BY <1>1, <1>3, <1>4, Nearing DEF Place

\* scanner.cc:89-100: the token begins at the index.
LEMMA ScannedNears == ScanInv /\ ScanInv' /\ scanned => Nearer
<1> SUFFICES ASSUME ScanInv, ScanInv', scanned, fr'.pc # "idle"
             PROVE  Nearer
    BY DEF Nearer
<1>1. rd' = rd /\ fr'.pc \in {"ident", "trie"} /\ fr'.pos = rd.pos
    <2>1. fr \in Frame /\ NoFrame.pc = "idle"
        BY Found DEF NoFrame
    <2> QED
        BY <2>1 DEF scanned, Return, Result, Step, Save, Frame
<1>2. Place(rd, fr) = Place(rd', fr')
    BY <1>1, Found DEF Place, Looking, scanned, At
<1>3. RankOf(fr) = 12 /\ RankOf(fr') \in {1, 11}
    BY <1>1, Ranks DEF RankOf, scanned, At
<1>4. Place(rd, fr) \in Nat
    BY PlaceFacts DEF ScanInv
<1> QED
    BY <1>1, <1>2, <1>3, <1>4, Nearing

\* A step that keeps the start of its token, or moves it on.
LEMMA Staying ==
    ASSUME ScanInv, ScanInv', rd'.slice = rd.slice, ~Looking(fr), ~Looking(fr'),
           fr'.pos = fr.pos \/ fr'.pos = rd.pos,
           \/ RankOf(fr') < RankOf(fr)
           \/ /\ RankOf(fr') = RankOf(fr)
              /\ \/ rd.index < rd'.index
                 \/ rd.index = rd'.index /\ Turn(rd', fr') < Turn(rd, fr)
    PROVE  Nearer
<1>1. fr.pos.offset <= fr'.pos.offset
    BY Found
<1> QED
    BY <1>1, Nearing DEF Place

\* scan() is called again, behind the token's first character.
LEMMA Calling ==
    ASSUME ScanInv, ScanInv', Nests, rd'.slice = rd.slice, ~Looking(fr), ~At("idle"),
           fr'.pc = "scan"
    PROVE  Nearer
<1>1. fr.pos.offset < rd'.index
    BY DEF Nests
<1> QED
    BY <1>1, Nearing DEF Place, Looking

\* scanner.cc:100-114: a handler is called, or a rune of an operator read.
LEMMA TrieNears == ScanInv /\ ScanInv' /\ trie => Nearer
<1> SUFFICES ASSUME ScanInv, ScanInv', trie, fr'.pc # "idle"
             PROVE  Nearer
    BY DEF Nearer
<1>1. fr \in Frame /\ fr.pc = "trie" /\ NoFrame.pc = "idle" /\ ~Looking(fr) /\ RankOf(fr) = 11
    BY Found, Ranks DEF trie, At, NoFrame, Looking, RankOf
<1>2. CASE Step(rd, Goto(Stub(Handler(fr.ch)))) /\ Handler(fr.ch) # "none"
    <2> DEFINE l == Stub(Handler(fr.ch))
    <2>1. rd' = rd /\ fr'.pc = l /\ fr'.pos = fr.pos
        BY <1>1, <1>2 DEF Step, Goto, Frame
    <2>2. l \in {"stub", "slash", "star", "sharp", "xx", "nn", "bb", "quoted", "number",
                 "string", "ident"}
        <3>1. Handler(fr.ch) \in {"at", "slash", "star", "dash", "sharp", "xx", "nn", "bb",
                                  "dot", "quoted", "number", "string", "ident", "none"}
            BY DEF Handler
        <3> QED
            BY <1>2, <3>1 DEF Stub
    <2> HIDE DEF l
    <2>3. ~Looking(fr') /\ RankOf(fr') \in {0, 1, 4, 10}
        BY <2>1, <2>2, Ranks DEF Looking, RankOf
    <2> QED
        BY <1>1, <2>1, <2>3, Staying
<1>3. CASE ~Eof(rd) /\ Step(Advance(rd), [fr EXCEPT !.node = Append(fr.node, fr.ch), !.ch = Peek(rd)])
    <2>1. rd' = Advance(rd) /\ fr'.pc = "trie" /\ fr'.pos = fr.pos
        BY <1>1, <1>3 DEF Step, Frame
    <2>2. rd'.slice = rd.slice /\ rd.index < rd'.index
        BY <1>3, <2>1, OnwardFacts, ReadsOn DEF Onward
    <2>3. ~Looking(fr') /\ RankOf(fr') = 11
        BY <2>1, Ranks DEF Looking, RankOf
    <2> QED
        BY <1>1, <2>1, <2>2, <2>3, Staying
<1> QED
    BY <1>1, <1>2, <1>3 DEF trie, Return, Result

\* lexer.cc:57-119: the handler of '/' goes on to the rune behind.
LEMMA SlashNears == ScanInv /\ ScanInv' /\ startWithSlash => Nearer
<1> SUFFICES ASSUME ScanInv, ScanInv', startWithSlash, fr'.pc # "idle"
             PROVE  Nearer
    BY DEF Nearer
<1>1. fr \in Frame /\ NoFrame.pc = "idle"
    BY Found DEF NoFrame
<1>2. /\ rd' \in Onward
      /\ fr'.pos = fr.pos \/ fr'.pos = rd.pos
      /\ \/ fr.pc = "slash" /\ fr'.pc = "slash2"
         \/ fr.pc = "slash2" /\ fr'.pc = "slash3"
         \/ fr.pc = "slash3" /\ fr'.pc \in {"version", "comment"}
    <2>1. CASE At("slash")
        BY <1>1, <2>1 DEF startWithSlash, Step, Save, Frame, At, Onward
    <2>2. CASE At("slash2")
        BY <1>1, <2>2 DEF startWithSlash, Step, Goto, Frame, At, Onward, Return, Result
    <2>3. CASE At("slash3")
        <3>1. \/ Step(Advance(rd), [Goto("version") EXCEPT !.mark = Advance(rd).pos, !.i = 0])
              \/ Step(Advance(rd), [Goto("comment") EXCEPT !.star = Peek(rd) = Star])
            BY <2>3 DEF startWithSlash, At
        <3>2. rd' = Advance(rd) /\ fr'.pc \in {"version", "comment"} /\ fr'.pos = fr.pos
            BY <1>1, <3>1 DEF Step, Goto, Frame
        <3> QED
            BY <2>3, <3>2 DEF At, Onward
    <2> QED
        BY <2>1, <2>2, <2>3 DEF startWithSlash
<1>3. /\ ~Looking(fr) /\ ~Looking(fr')
      /\ \/ RankOf(fr) = 4 /\ RankOf(fr') = 3
         \/ RankOf(fr) = 3 /\ RankOf(fr') = 2
         \/ RankOf(fr) = 2 /\ RankOf(fr') \in {0, 1}
    BY <1>2, Ranks DEF Looking, RankOf
<1> QED
    BY <1>2, <1>3, OnwardFacts, Staying

\* scanner.cc:67-82: a digit of the version is read, or scan() called again.
LEMMA VersionNears ==
    ScanInv /\ ScanInv' /\ Ahead(rd, fr) /\ scanVersionDigits => Nearer
<1> SUFFICES ASSUME ScanInv, ScanInv', Ahead(rd, fr), scanVersionDigits
             PROVE  Nearer
    OBVIOUS
<1>1. fr \in Frame /\ fr.pc = "version" /\ ~Looking(fr) /\ ~At("idle") /\ Nests
    BY Found, VersionNests DEF scanVersionDigits, At, Looking
<1>2. CASE isDigit(Peek(rd)) /\ Step(Advance(Peeked(rd)), [fr EXCEPT !.i = fr.i + 1])
    <2>1. rd' = Advance(Peeked(rd)) /\ fr'.pc = "version" /\ fr'.pos = fr.pos
        BY <1>1, <1>2 DEF Step, Frame
    <2>2. rd'.slice = rd.slice /\ rd.index < rd'.index
        BY <1>2, <2>1, OnwardFacts, ReadsOn, ReadableIsThere DEF Onward
    <2>3. ~Looking(fr') /\ RankOf(fr') = RankOf(fr)
        BY <1>1, <2>1 DEF Looking, RankOf
    <2> QED
        BY <1>1, <2>1, <2>2, <2>3, Staying
<1>3. ASSUME NEW r, Rescan(r, TRUE), r.slice = rd.slice
      PROVE  Nearer
    <2>1. rd' = r /\ fr'.pc = "scan"
        BY <1>1, <1>3 DEF Rescan, Goto, Frame
    <2> QED
        BY <1>1, <1>3, <2>1, Calling
<1>4. UpdatePos(Peeked(rd), fr.mark).slice = rd.slice
    <2>1. ReaderInv(rd) /\ ReaderInv(Peeked(rd)) /\ Saved(rd, fr.mark)
        BY <1>1, Found DEF At
    <2>2. Saved(Peeked(rd), fr.mark) /\ Peeked(rd).slice = rd.slice
        BY <2>1, PeekedInv DEF Saved
    <2> QED
        BY <2>1, <2>2, UpdatePosLands
<1>5. (IF fr.i = versionMax THEN rd ELSE Peeked(rd)).slice = rd.slice
    BY OnwardFacts DEF Onward
<1> QED
    BY <1>2, <1>3, <1>4, <1>5 DEF scanVersionDigits

\* lexer.cc:121-146: a star at the end of the text takes the loop round once more.
LEMMA CommentNears == ScanInv /\ ScanInv' /\ Ahead(rd, fr) /\ comment => Nearer
<1> SUFFICES ASSUME ScanInv, ScanInv', Ahead(rd, fr), comment, fr'.pc # "idle"
             PROVE  Nearer
    BY DEF Nearer
<1>1. /\ fr \in Frame /\ NoFrame.pc = "idle" /\ rd.index \in Nat
      /\ fr.pc \in {"comment", "afterStar"} /\ ~Looking(fr) /\ ~At("idle") /\ Nests
    BY Found, CommentNests DEF comment, At, Looking, NoFrame
<1>2. RankOf(fr) = 0
    BY <1>1, Ranks DEF RankOf
<1>3. CASE At("comment") /\ ~fr.star /\ Step(rd, Inc(fr, "notStar", "afterStar"))
    <2>1. rd' = rd /\ fr'.pc = "inc" /\ fr'.ret = "afterStar" /\ fr'.pos = fr.pos
        BY <1>1, <1>3 DEF Step, Inc, Frame
    <2>2. ~Looking(fr') /\ RankOf(fr') = 0
        BY <2>1, Ranks DEF Looking, RankOf
    <2>3. Turn(rd, fr) = 2 /\ Turn(rd', fr') = 1
        BY <1>3, <2>1, Turns DEF At
    <2> QED
        BY <1>1, <1>2, <2>1, <2>2, <2>3, Staying
<1>4. CASE At("comment") /\ fr.star /\ Step(rd, [Goto("afterStar") EXCEPT !.ch = Star])
    <2>1. rd' = rd /\ fr'.pc = "afterStar" /\ fr'.ch = Star /\ fr'.pos = fr.pos
        BY <1>1, <1>4 DEF Step, Goto, Frame
    <2>2. ~Looking(fr') /\ RankOf(fr') = 0
        BY <2>1, Ranks DEF Looking, RankOf
    <2>3. \/ Turn(rd, fr) = 4 /\ Turn(rd', fr') = 3
          \/ Turn(rd, fr) = 2 /\ Turn(rd', fr') = 0
        BY <1>4, <2>1, Turns DEF At
    <2> QED
        BY <1>1, <1>2, <2>1, <2>2, <2>3, Staying
<1>5. Advance(rd).slice = rd.slice
    BY OnwardFacts DEF Onward
<1>6. CASE Step(Advance(rd), Goto("scan"))
    <2>1. rd' = Advance(rd) /\ fr'.pc = "scan"
        BY <1>1, <1>6 DEF Step, Goto, Frame
    <2> QED
        BY <1>1, <1>5, <2>1, Calling
<1>7. CASE /\ At("afterStar") /\ fr.ch = Star
           /\ Step(Advance(rd), [Goto("comment") EXCEPT !.star = Peek(rd) = Star])
    <2>1. rd' = Advance(rd) /\ fr'.pc = "comment" /\ fr'.star = (Peek(rd) = Star) /\ fr'.pos = fr.pos
        BY <1>1, <1>7 DEF Step, Goto, Frame
    <2>2. ~Looking(fr') /\ RankOf(fr') = 0
        BY <2>1, Ranks DEF Looking, RankOf
    <2>3. CASE Eof(rd)
        <3>1. rd' = rd
            BY <2>1, <2>3 DEF Advance
        <3>2. Peek(rd) # Star
            BY <2>3, SMT DEF Peek, rune_eof, Star
        <3>3. Turn(rd, fr) = 3 /\ Turn(rd', fr') = 2
            BY <1>7, <2>1, <2>3, <3>2, Turns DEF At
        <3> QED
            BY <1>1, <1>2, <2>1, <2>2, <3>1, <3>3, Staying
    <2>4. CASE ~Eof(rd)
        BY <1>1, <1>2, <1>5, <2>1, <2>2, <2>4, ReadsOn, Staying
    <2> QED
        BY <2>3, <2>4
<1> QED
    BY <1>1, <1>3, <1>4, <1>6, <1>7 DEF comment, ReturnNothing, Result

\* lexer.cc:148-161: the handler of '*' goes on, or calls scan() again.
LEMMA StarNears == ScanInv /\ ScanInv' /\ Ahead(rd, fr) /\ startWithStar => Nearer
<1> SUFFICES ASSUME ScanInv, ScanInv', Ahead(rd, fr), startWithStar, fr'.pc # "idle"
             PROVE  Nearer
    BY DEF Nearer
<1>1. /\ fr \in Frame /\ NoFrame.pc = "idle"
      /\ fr.pc \in {"star", "star2"} /\ ~Looking(fr) /\ ~At("idle") /\ Nests
    BY Found, StarNests DEF startWithStar, At, Looking, NoFrame
<1>2. Advance(rd).slice = rd.slice /\ Advance(Peeked(rd)).slice = rd.slice
    BY OnwardFacts DEF Onward
<1>3. CASE At("star") /\ Step(Advance(rd), Save("star2"))
    <2>1. rd' = Advance(rd) /\ fr'.pc = "star2" /\ fr'.pos = rd.pos
        BY <1>1, <1>3 DEF Step, Save, Frame
    <2>2. ~Looking(fr') /\ RankOf(fr) = 4 /\ RankOf(fr') = 0
        BY <1>3, <2>1, Ranks DEF Looking, RankOf, At
    <2> QED
        BY <1>1, <1>2, <2>1, <2>2, Staying
<1>4. CASE Rescan(Advance(Peeked(rd)), FALSE)
    <2>1. rd' = Advance(Peeked(rd)) /\ fr'.pc = "scan"
        BY <1>1, <1>4 DEF Rescan, Goto, Frame
    <2> QED
        BY <1>1, <1>2, <2>1, Calling
<1> QED
    BY <1>1, <1>3, <1>4 DEF startWithStar, Return, Result

\* lexer.cc:165-168: the rest of the line is skipped.
LEMMA SharpNears == ScanInv /\ ScanInv' /\ startWithSharp => Nearer
<1> SUFFICES ASSUME ScanInv, ScanInv', startWithSharp
             PROVE  Nearer
    OBVIOUS
<1>1. fr.pc = "sharp" /\ rd' = rd /\ fr'.pc = "inc" /\ fr'.ret = "scan" /\ fr'.pos = fr.pos
    BY Found DEF startWithSharp, At, Step, Inc, Frame
<1>2. ~Looking(fr) /\ ~Looking(fr') /\ RankOf(fr) = 1 /\ RankOf(fr') = 0
    BY <1>1, Ranks DEF Looking, RankOf
<1> QED
    BY <1>1, <1>2, Staying

\* reader.cc:140-151: a rune is read, or the caller goes on.
LEMMA IncNears == ScanInv /\ ScanInv' /\ Ahead(rd, fr) /\ incAsLongAs => Nearer
<1> SUFFICES ASSUME ScanInv, ScanInv', Ahead(rd, fr), incAsLongAs
             PROVE  Nearer
    OBVIOUS
<1>1. fr \in Frame /\ fr.pc = "inc" /\ fr.ret \in Returns /\ ~At("idle") /\ Nests
    BY Found, IncNests DEF incAsLongAs, IncNext, IncErrored, IncStop, Ahead, At
<1>2. CASE IncNext
    <2>1. rd' = Advance(Peeked(rd)) /\ fr' = fr
        BY <1>2 DEF IncNext, Step
    <2>2. rd'.slice = rd.slice /\ rd.index < rd'.index
        BY <1>2, <2>1, OnwardFacts, ReadsOn, ReadableIsThere DEF Onward, IncNext
    <2> QED
        <3>1. CASE Looking(fr)
            BY <2>1, <2>2, <3>1, Nearing DEF Place
        <3>2. CASE ~Looking(fr)
            BY <2>1, <2>2, <3>2, Staying
        <3> QED
            BY <3>1, <3>2
<1>3. ASSUME NEW c, Step(Peeked(rd), [fr EXCEPT !.pc = fr.ret, !.ch = c]), c = Star => ~Eof(rd)
      PROVE  Nearer
    <2>1. rd' = Peeked(rd) /\ fr'.pc = fr.ret /\ fr'.ch = c /\ fr'.pos = fr.pos
        BY <1>1, <1>3 DEF Step, Frame
    <2>2. rd'.index = rd.index /\ rd'.slice = rd.slice /\ (Eof(rd') <=> Eof(rd)) /\ rd.index \in Nat
        BY <2>1, Found, PeekAgain, OnwardFacts DEF Onward
    <2>3. Turn(rd, fr) = 1
        BY <1>1, Turns
    <2>4. CASE fr.ret = "scan"
        <3>1. ~Looking(fr)
            BY <1>1, <2>4 DEF Looking
        <3> QED
            BY <1>1, <2>1, <2>2, <2>4, <3>1, Calling
    <2>5. CASE fr.ret = "scanned"
        <3>1. Looking(fr) /\ Looking(fr') /\ RankOf(fr) = RankOf(fr') /\ Turn(rd', fr') = 0
            BY <1>1, <2>1, <2>5, Ranks, Turns DEF Looking, RankOf
        <3> QED
            BY <2>2, <2>3, <3>1, Nearing DEF Place
    <2>6. CASE fr.ret \notin {"scan", "scanned"}
        <3>1. fr.ret # "inc"
            BY <1>1 DEF Returns
        <3>2. ~Looking(fr) /\ ~Looking(fr') /\ RankOf(fr) = RankOf(fr')
            BY <1>1, <2>1, <2>6, <3>1 DEF Looking, RankOf
        <3>3. Turn(rd', fr') = 0
            <4>1. CASE fr.ret = "afterStar"
                BY <1>3, <2>1, <2>2, <4>1, Turns
            <4>2. CASE fr.ret # "afterStar"
                BY <1>1, <2>1, <2>6, <4>2, SMT DEF Turn, Returns
            <4> QED
                BY <4>1, <4>2
        <3> QED
            BY <2>1, <2>2, <2>3, <3>2, <3>3, Staying
    <2> QED
        BY <2>4, <2>5, <2>6
<1>4. CASE IncErrored
    <2>1. 0 = Star => ~Eof(rd)
        BY SMT DEF Star
    <2>2. Step(Peeked(rd), [fr EXCEPT !.pc = fr.ret, !.ch = 0])
        BY <1>4 DEF IncErrored
    <2> QED
        BY <1>3, <2>1, <2>2, Zenon
<1>5. CASE IncStop
    <2>1. Peek(rd) = Star => ~Eof(rd)
        BY SMT DEF Peek, rune_eof, Star
    <2>2. Step(Peeked(rd), [fr EXCEPT !.pc = fr.ret, !.ch = Peek(rd)])
        BY <1>5 DEF IncStop
    <2> QED
        BY <1>3, <2>1, <2>2, Zenon
<1> QED
    BY <1>2, <1>4, <1>5 DEF incAsLongAs

-----------------------------------------------------------------------------
\* The client calls between two calls of scan() only.
LEMMA ClientIdle == Client => At("idle")
BY DEF Client, Call, CallWord, isTokenIdentifier, reset, InheritScanner, SetSQLMode

\* So it is with every step of a call.
LEMMA NextNears == ScanInv /\ ScanInv' /\ Ahead(rd, fr) /\ Next /\ ~At("idle") => Nearer
<1> SUFFICES ASSUME ScanInv, ScanInv', Ahead(rd, fr), Scanning
             PROVE  Nearer
    BY ClientIdle DEF Next
<1>1. startString => At("string") \/ At("stringPeek")
    BY DEF startString
<1> QED
    BY <1>1, StraightNears, RoundNears, ScanNears, ScannedNears, TrieNears, SlashNears,
       VersionNears, CommentNears, StarNears, SharpNears, IncNears
       DEF Scanning, Straight, Round

\* A call of scan() cannot go on for ever in any statement, whatever its
\* handlers read again and however often they call scan(): each of its steps
\* brings it nearer to its return, but for those of scanQuotedIdent at the end
\* of the text.
THEOREM ScannerCallsDescend == Spec => CallsDescend
<1> DEFINE Nears ==
               ~At("idle") =>
                 \/ fr'.pc = "idle"
                 \/ Measure(rd', fr') \in [1 .. 4 -> Nat] /\ Less(Measure(rd', fr'), Measure(rd, fr))
                 \/ SpinsAtEof'
<1>1. Init => Ahead(rd, fr)
    BY DEF Init, NoFrame, Ahead, PastFirst
<1>2. ScanInv /\ Ahead(rd, fr) /\ [Next]_vars => Ahead(rd, fr)'
    <2>1. ScanInv /\ Ahead(rd, fr) /\ Next => Ahead(rd, fr)'
        BY NextNests DEF Nests, Ahead
    <2>2. Ahead(rd, fr) /\ UNCHANGED vars => Ahead(rd, fr)'
        BY DEF vars, Ahead
    <2> QED
        BY <2>1, <2>2
<1>3. ScanInv /\ ScanInv' /\ Ahead(rd, fr) /\ [Next]_vars => [Nears]_vars
    BY NextNears DEF Nearer
<1> QED
    BY <1>1, <1>2, <1>3, ScannerInvariant, PTL DEF Spec, CallsDescend

\* Nothing descends for ever in that order; with ScannerCallsDescend a call of
\* scan() has finitely many steps in any statement, however long, unless it gets
\* to the end of the text in scanQuotedIdent.
THEOREM MeasuresEnd ==
    ~\E m \in [Nat -> [1 .. 4 -> Nat]] : \A n \in Nat : Less(m[n + 1], m[n])
<1> DEFINE R == {ss \in Nat \X Nat : ss[1] < ss[2]}
           L == LexProductOrdering(R, Nat, 4)
<1>1. IsWellFoundedOn(R, Nat)
    BY NatLessThanWellFounded, Zenon DEF OpToRel
<1>2. \A x, y \in Nat : x < y => <<x, y>> \in R
    BY SMT
<1> HIDE DEF R
<1>3. IsWellFoundedOn(L, [1 .. 4 -> Nat])
    <2>1. 4 \in Nat
        OBVIOUS
    <2> QED
        BY <1>1, <2>1, WFLexProductOrdering, Zenon
<1>4. \A x, y \in [1 .. 4 -> Nat] : Less(x, y) => <<x, y>> \in L
    <2> SUFFICES ASSUME NEW x \in [1 .. 4 -> Nat], NEW y \in [1 .. 4 -> Nat], Less(x, y)
                 PROVE  <<x, y>> \in L
        OBVIOUS
    <2>1. PICK k \in 1 .. 4 : x[k] < y[k] /\ \A j \in 1 .. k - 1 : x[j] = y[j]
        BY DEF Less
    <2>2. <<x[k], y[k]>> \in R
        BY <1>2, <2>1
    <2> QED
        BY <2>1, <2>2 DEF LexProductOrdering
<1> HIDE DEF L
<1> SUFFICES ASSUME NEW m \in [Nat -> [1 .. 4 -> Nat]], \A n \in Nat : Less(m[n + 1], m[n])
             PROVE  FALSE
    OBVIOUS
<1>5. \A n \in Nat : <<m[n + 1], m[n]>> \in L
    BY <1>4, SMT
<1> QED
    BY <1>3, <1>5 DEF IsWellFoundedOn
=============================================================================
