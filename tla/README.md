# A verification of px_tidb's SQL scanner

px_tidb is the beginning of a C++ port of TiDB. What it has so far is the front
end of its parser - a UTF-8 codec, a reader that walks over a statement rune by
rune and can go back, the scanner that cuts the statement into tokens - and the
tables around it: keywords, error codes and messages, SQL modes. This directory
holds TLA+ modules that model those parts, TLC configurations that check them on
small instances, and proofs, checked by TLAPS, of what should hold for every
statement and every order of calls.

## 1. Inventory

| Component | State | Operations | Modelled |
|---|---|---|---|
| UTF-8 codec, `common/utf8/rune.*` | none (two tables) | `decode`, `encode`, `strlen`, `is_errored`, `is_space`, `is_digit`, `is_xdigit`, `is_alpha`, `is_alnum` | `Utf8` |
| Character classes, `parser/misc.hh` | none | `isLetter`, `isDigit`, `isIdentChar`, `isUserVarChar`, `isIdentExtend` | `Utf8` |
| Reader, `common/utf8/reader.*` | text, index, position, recorded positions, stack of widths, last width | `next`, `peek`, `curr`, `prev`, `move_next`, `move_prev`, `seek`, `updatePos`, `data`, `incAsLongAs` | `Utf8Reader`, `Reader`, `ScannerState` |
| Rule trie, `parser/misc.cc:1-92` | built once, never changed | lookup of a child, its token, its handler | `Lexer` |
| Lexer handlers, `parser/lexer.cc` | locals of the running handler | one handler per first character; `scanIdentifierOrString` | `Lexer`, `Scanner` |
| Scanner, `parser/scanner.*` | reader, `_inBangComment`, `_sqlMode`, `_buf` | `scan`, `scanString`, `scanFloat`, `scanVersionDigits`, `reset`, `SetSQLMode`, `InheritScanner`, `stmtText`, `isTokenIdentifier` | `ScannerState`, `Scanner` |
| SQL modes, `parser/mysql/const.hh:64-154` | one word | one predicate per flag | `SqlMode` |
| Keyword and token tables, `parser/misc.cc:94-916`, `parser/token.hh` | six tables built before `main` | `getTokenStr`, `isInTokenMap` | `Keywords`, `StaticMaps` |
| Error codes and messages, `errcode/*`, `parser/mysql/err*` | two tables built before `main` | lookup | `ErrcodeTable`, `MysqlErrorTable`, `StaticMaps` |
| Console helpers, `common/colorizer.*`, `common/hex_formatter.*` | `g_color_enabled` | `colorize`, `colorize_range`, `dump_to_string` | `Console` |
| Server | none | `main` prints a line | no |

How they interact: a client owns a `Scanner`, gives it a statement, calls
`scan()` until it has what it wants, and may call `reset`, `SetSQLMode` and
`InheritScanner` in between. `scan()` skips white space, then walks down the
trie; a node with a handler passes control to it, and handlers call the reader,
each other, and `scan()` again (after a comment). The reader calls the codec for
each multi-byte rune; `scanString` asks the SQL mode whether a backslash escapes.
The keyword and error tables are not consulted by the scanner yet: every word is
an identifier. A parser that does will rely on what the tables say of each other. Nothing is concurrent, nothing is persisted; the program
is a library that runs on its caller's thread. So the hard behaviours are those
of long sequences of calls:

- **Going back.** Handlers save `pos()` and go back to it with `updatePos`,
  which ignores whether `seek` succeeded. `seek` succeeds only if the recorded
  positions, which are never removed, and the stack of widths, which is popped,
  agree for the whole history of `next`, `prev`, `move_next` and `move_prev`.
- **State that survives a call.** `_buf` lives as long as the scanner;
  `_inBangComment` is set by one call and read by later ones; `last_width()` is
  the width of whatever was peeked at last.
- **Reading twice.** `scanFloat` reads a number again from its start and, without
  exponent digits, once more as an identifier. The trie walk looks each rune up
  twice.
- **Boundaries.** Truncated, overlong and out-of-range UTF-8; NUL; a late byte
  order mark; the end of the text inside any literal, comment or escape;
  `size() - 1` of an empty text.
- **Tables kept by hand.** Hundreds of entries in initializer lists, where a
  repeated key is dropped in silence; an enumeration numbered by position; two
  copies of the error table; positions of arguments written as numbers.
- **Nesting and growth.** Every comment calls `scan()` from its handler; every rune
  read leaves a recorded position behind.
- **Termination.** Loops that run until a predicate fails, or until a rune that
  the end of the text never yields.

What makes each component correct:

- *codec*: accepts exactly well-formed UTF-8, and `encode` inverts `decode`;
- *reader*: behaves as a cursor over the text decoded from its start; every
  index it can go back to has a recorded position; `seek` succeeds exactly on
  positions handed out that are not ahead; lines are counted right;
- *scanner*: drops exactly the trivia between tokens, yields consecutive
  extents, lands where it goes back to, returns literals byte for byte, carries
  nothing from one statement into the next, and returns from every call;
- *tables*: no entry is lost, a token tells which table it is from, words that
  share a token are interchangeable, every code has a message, and both copies of
  a message are formatted alike;
- *console*: a text is shown whole and in order, coloured in the range alone.

## 2. Modules

```
Utf8  <-  Utf8Reader  <-  Reader (a client of the reader)      MCReader, RuneCursor
                      <-  ScannerState <- Lexer <- Scanner <- ScannerProps <- MCScanner
          SqlMode     <-                                      TokenStream (abstract)
StaticMaps, Keywords, ErrorMessages <- ErrcodeTable, MysqlErrorTable <- MCTables
Console
TextLaws <- Utf8Proofs (of MCUtf8)
         <- ReaderProofs (of MCReader)
         <- ScannerProofs (of ScannerProps) <- LiteralProofs <- TextProofs
ConsoleProofs (of Console), MapProofs (of StaticMaps, Keywords)
```

**Utf8** has the tables and functions of `rune.hh` and `rune.cc` as operators on
byte sequences. A rune is the integer of `rune_t`; `rune_eof` is -1, which is
what makes `isIdentExtend(eof)` false and `incAsLongAs` stop. The two Unicode
categories come from utf8proc, which is outside `src/src`; they are modelled from
how `is_space` uses them and marked external.

**Utf8Reader** is `reader_t` as a record with pure operators. `Peek(r)` is the
rune at the index, `Peeked(r)` the reader after looking (only `_last_width`
changes), `Advance(r)` after `next`, `AdvanceMove(r)` after `move_next`,
`Retreat(r)` after `prev` and `move_prev`, `SeekTo(r, i)` after a successful `seek`.
The stack of widths is kept as `starts`, the sequence of the indices it leads
back to: a width is the difference of two neighbours, and popping is the same
operation on both. `idx2pos` is a function on the recorded indices.

**SqlMode** is the mode word as the set of its bits, with one operator per
predicate of `SQLMode`. The scanner keeps the whole word, as the code does, and
asks `HasNoBackslashEscapesMode` of it.

**Reader** is a client that calls the methods in any order, one action each.
**RuneCursor** is the abstract reader: the runes to the left and to the right.

**ScannerState** turns `scan()` and its handlers into a machine with a program
counter: the locals are fields of the frame `fr`, one iteration of a loop is one
step, and `incAsLongAs`, which every handler calls, is a subroutine with a
return label. One frame is enough because `return s.scan()` is always the last
thing a handler does. `from` and `fromBang` in the frame, and `begin`, `from`,
`to` and `fromBang` in the token, are history for the properties.

**Lexer** has the trie (a node is the string that leads to it) and the handlers
of `lexer.cc`; **Scanner** has `scan()`, strings, numbers, and the client's calls:
`scan`, `scanIdentifierOrString` (no handler calls it, so the client does),
`isTokenIdentifier`, which looks at a rune, `reset`, `SetSQLMode`, `InheritScanner`.
A step of a handler is at most one movement of the reader with the test that
chose it, so the order of look-ahead, advance and going back is the code's.

**ScannerProps** states what is claimed, with reference definitions that read
the text alone. **TokenStream** is the abstract scanner: one step per call, each
yielding an extent behind the last.

**StaticMaps** builds a table from its initializer list, one entry per step, as
the constructor of an `unordered_map` does: an entry whose key is there is
dropped (`Put`). **Keywords** has the lists of `misc.cc` in blocks of initial letters, with
the block of `token.hh` each follows: the enumeration is numbered by position, so a
block of enumerators is an interval, and the k-th word of a block has its k-th
token. A word that shares the token of another is listed as a synonym.
**ErrcodeTable** and **MysqlErrorTable** are the server's and the parser's
enumeration and messages, in stretches of the listing; **ErrorMessages** says what
of a message is kept: how many arguments its format takes and which are
redacted. **MCTables** puts them together.

**Console** is `colorize_range`, one character per step, with `colorize` and
`dump_to_string` as operators. A text is its length, what is written a sequence
of characters and escape codes; the address a dump starts at is 0.

What is abstracted: tokens are numbers, as in `token.hh`; a literal is a sequence
of bytes. The test of `_identifierDot`, `isOptimizerHint` and the window-function
flag are left out because nothing sets or reads them.

## 3. Runs

| Run | Question | Instance |
|---|---|---|
| `utf8` | Do the tables of `decode` and `encode` implement UTF-8? Does `strlen` count, do the character classes agree? | every string of up to four of the 18 bytes on either side of a boundary in a table |
| `reader` | Is the reader a cursor, whatever the order of calls? | every text of up to three of a letter, a newline, NUL and the bytes of the BOM, and four longer ones |
| `tokens` | Is each token, and the trivia before it, read whole and once, are literals right byte for byte in both escape modes, and does each step come nearer the end of the call? | every string of up to four comment characters, also behind `/*`, `/*!` and `/*!1234`; every pair of characters the trie distinguishes; every string of up to four of `0 1 8 x b B . e - '`, and up to three of other exponents, points and radix letters behind `1.1`, `1` and `0`; words with the letters that open a prefixed literal; every string of up to four of both quotes, `\`, `n`, `%` and a two-byte character behind a quote; quoted identifiers up to five |
| `session` | Does anything leak between statements, and does each call return? | a client that makes every call, over ten statements and four mode words |
| `tables` | Do the tables keep what their lists say, and agree? | the five maps from words and both error tables, entire |
| `console` | Is exactly the range coloured, and every byte dumped? | every length up to 17 - one row of a dump and a byte - and every range up to one past it |

Why these bounds are enough: a handler looks at most one rune ahead and keeps
only the fields of the frame, so four characters behind an opening leave each
loop both ways, at its first and at a later iteration, and let each saved
position be gone back to past a multi-byte rune. The version comment needs four,
five and six digits, hence its fixed opening. A sequence of UTF-8 has at most
four bytes, and the decoder compares each with a table's boundaries only.
`MaxBuf` bounds `_buf` in one place, where `scanQuotedIdent` appends 0xff for
ever: from that length on the model stops appending but still loops. It is 6 in
`tokens` - longer than any quoted identifier there - and 3 in `session`, where
the only unclosed identifier reaches its end with two bytes.

The tables need no bound: they are what they are. In `console` the colours are one
that has no other meaning and the last of the enumeration.

The client of `tokens` only calls `scan()` (`ScanSpec`); that of `session` makes every
call. Deadlock is checked in all of these but three: the
text of `utf8` stops growing at `MaxLen`, a table of `tables` is complete in the
end, and `colorize_range` returns.

**Fairness.** `ScanReturns` assumes weak fairness of `Scanning`, the steps of a
running call: `scan()` runs on its caller's thread and waits for nothing, so it
takes its next step as long as it has one. The client is under no obligation.
The property excepts the one loop that does not end, which the run `unclosed`
shows.

What the properties say:

- `PosAccurate`: line, column and offset of the reader are those of the index,
  also after newlines in comments and literals and after going back.
- `StrlenCounts`: `strlen`, which steps by lead bytes alone, counts the runes `decode`
  finds in a text it accepts whole. `ClassesAgree`: on ASCII the scanner's classes
  and those of `rune_t` differ in the dollar sign only.
- `RecordsBounded`: whatever way the client went over the text, positions are
  recorded at boundaries of its runes only, and the width stack has exactly one
  entry for each rune before the index, each leading to where that rune begins.
- `SkipsTrivia`: the token begins at the end of the white space and comments, as
  a recursive reference function finds it; `_inBangComment` agrees with it.
- `BacktrackLands`: `updatePos` to the saved position arrives there.
- `Progress`: a call consumes something unless the text is at its end or the
  next rune starts no token.
- `NumberTokens`: the text of a token that begins with a digit has the form its
  kind promises, and the token ends where that form does: an integer, hexadecimal or
  bit literal before neither a point nor a character of an identifier, a decimal -
  which has a point - before neither a digit nor an `e`, a float before no digit, and an
  identifier, which is none of those literals, behind its last character. The
  texts where `scanFloat` goes back and the code stops short are spelled out
  (`GoesOnAsFloat`, `LacksExponent`): `0x1.` and `0b1e` yield the decimal literal `0`, `1.e`
  the identifier `1`, and nothing else does. The runs `radix` and `digits` show that
  the comments of the code say otherwise.
- `WordsAreIdentifiers`: a word is an identifier as a whole, from its first
  character on, which the handlers of `x` and `b` have to give back.
- `PrefixedLiterals`: `x'..'` and `b'..'` end at the quote behind their digits or
  are an error, which stops at the character that is none.
- `NestedScanAdvances`: when a handler calls `scan()` again the reader is past the
  character the handler was called for, so the C++ stack is never deeper than
  the statement is long.
- `StringLiterals`, `QuotedIdentifiers`: extent and bytes of the literal equal
  those of the reference, whatever `_buf` held before.
- `BangOpenedHere`: the bang flag is set only if this very statement opened one.
- `CallsDescend`: each step of a call that does not return makes the call's measure
  smaller, but for the loop of `scanQuotedIdent` at the end of the text. It is what the
  proof needs to say that calls end; a loop that reads nothing, or a handler that
  goes back and is entered again, breaks it in one step.
- `ScanReturns`: every call returns. `ImplementsTokenStream`: refinement.
- `RecordedPos`, `SeekExact`, `LineAccurate`, `ImplementsCursor`: the reader, as in
  section 1.

- `EntriesKept`: no table lists a key with two values. `TokenTellsTable`: the blocks of the
  enumeration are disjoint and each table has exactly its block.
  `AliasesShareToken`: `aliases` says nothing the other tables deny.
  `SynonymsInterchangeable`: whichever word of a function's token `getTokenStr`
  finds first, it names the same function. `EveryCodeHasMessage`, `RedactsArguments`,
  `TablesAgree`: as in section 1.
- `ColorsRange`: what `colorize_range` writes shows each character of the text once
  and in order, and the colours in force there, which are those since the last
  reset, are the ones asked for inside the range and none outside it.
  `LeavesDefault`: none are in force behind the text. `DumpsEveryByte`: the rows of a
  dump hold each byte once, line up, and only the last is padded; beside each byte
  stands its character, or a dot.

### Disagreements found while modelling

Six runs each check one sentence of the code's own comments or registrations, and
TLC finds it violated:

- `zero_token`: the token 0 announces the end of the stream (`scanner.cc:91`), but
  `-`, `.`, `@` and an unclosed comment return it in the middle.
- `unclosed`: a scanner that meets EOF returns (same comment), but the loop of
  `scanQuotedIdent` tests for `rune_invalid` where `next()` yields `rune_eof`.
- `digits`: identifiers do not consist solely of digits (`lexer.cc:310`), but `1.e`
  yields the identifier `1`.
- `radix`: `0b`, `0b123` and `0b1ab` are identifiers (`lexer.cc:290`), but the `e` of `0b1e`,
  or a point, is taken for that of a float: `scanFloat` goes back to the `0`, reads on
  to the `b`, and the token is the decimal literal `0`, with `b1e` left.
- `operators`: `>=` is registered as `tok_ge` (`misc.cc:71`), but the trie walk looks
  each character up twice. Of `>=` the first `next()` yields `>` again, which leads to the
  node `>>`, and the second consumes the `=`: the token is `tok_rsh` with the text
  `>=`. (A `>` at the end of the text is returned as itself, because the walk stops at
  `eof()`.) The same walk makes of an `&` before a NUL a `tok_andand` with the NUL in its text.
- `escapes`: an escape other than those listed only loses its backslash
  (`scanner.cc:126`), but a NUL becomes 0xfd.

### Observed, not checked

- `move_next` resets the column for a newline before it adds the newline's width,
  `next` after: a line reached by `move_next` starts in column 1. The scanner calls
  `next` only. (`MoveNext` models it; `LineAccurate` claims lines alone.)
- `colorize_range` never resets the colours of a range that reaches the last
  character, and with `begin > end` colours from `begin` to the end of the text:
  `LeavesDefault` and `ColorsRange` are restricted accordingly. The codes of the
  foreground colours from `dark_gray` (38) on are not those of colours in a
  terminal; 40 to 45 select a background.
- `const.cc:7` formats with `%s`, which `fmt` does not substitute:
  `ServerVersion` ends in `%s`.
- The SQL modes are `1ul << n`, up to 33: where `long` has 32 bits the last two
  flags do not exist.
- The parser's copy of the messages redacts nothing; the server's copy does.

## 4. Proofs

The proofs about the reader and the scanner are for arbitrary `Texts`, assumed to be
byte strings (`TextsAssumption`: a `std::string` holds nothing else), arbitrary sets
`Modes` of mode words (`ModesAssumption`), and arbitrary `MaxBuf`; those about the
console are for an arbitrary number `MaxLength` (`MaxLengthAssumption`) and any `Colors`
of the enumeration (`ColorsAssumption`), those about the tables for arbitrary `Lists`
that are sequences (`ListsAssumption`).

**TextLaws.** Of the codec: the width of a sequence never exceeds the text that is left; what
`decode` yields is a rune; no multi-byte sequence yields a newline or another
ASCII value (no overlong forms); what `encode` writes are bytes, and it undoes
`decode`. It also has the induction that the other modules need. The induction
theorems of the library take an operator as a parameter, so it starts from their
first-order one (the order of the naturals is well founded): `LeastElement`,
`Induction` over a set of naturals, `FromTheEnd` over the offsets of a text, and
`Recursion`, that a function defined by recursion on larger arguments has its
equation. With it the references that walk a text (`StartsFrom`, `BoundariesFrom`) can
be unfolded in a proof.

**Utf8Proofs.** What the run `utf8` checks of the bytes at the boundaries, for
every byte string: `Utf8DecodesWellFormed`, `Utf8EncodeInvertsDecode` and
`Utf8ClassesAgree` byte by byte, `Utf8StrlenCounts` by induction from the end of the
text: where a character is whole, the step that `strlen` takes from its first byte is
the width that `decode` finds.

**TextLaws, ReaderProofs.** Of the reader, the inductive invariant `ReaderInv` says of a reader:
the index is recorded and `pos` is what is recorded for it; every recorded
position has its own offset and counts the newlines before it (`Recorded`); the
recorded offsets are consecutive rune boundaries, so that the rune at one of them
ends at another and steps over none (`Chain`); the stack leads back to exactly
the recorded offsets before the index, in order (`Stacked`). None of the checked properties is
inductive alone: `SeekExact` fails after a `seek` if an index behind may be
recorded but not on the stack, and `LineAccurate` fails after `prev` if recorded
lines may be wrong. Each operation's lemma (`AdvanceInv`, `AdvanceMoveInv`,
`PeekedInv`, `RetreatInv`, `SeekToInv`) proves that it keeps `ReaderInv`. From it
follow `ReaderTypeCorrect`, `ReaderRecordsPositions`, `ReaderSeekExact` and
`ReaderLineAccurate`. A further invariant, `Stands`, adds that every recorded offset is
one at which the decoder, walking the text from its start, starts a character
(`OnBoundaries`), and that the start is recorded. From the start on `Chain` leaves no
boundary before the index out (`BoundariesRecorded`), and a stack that lists each of them
once, in order, is as long as they are many (`ListedOnce`): `ReaderRecordsBounded`.
`ReaderImplementsCursor` is the refinement of
`RuneCursor`. The runes to the left and right of the index are recursive functions of
the text, so their equations come first (`RunesEquation`); `Place` counts
the characters to the left of an offset, `RetreatIsOneRune` says that going back
undoes exactly one of them, and one lemma per action (`CursorMoves`,
`CursorStepsBack`, `CursorSeeks`) maps it to a step of the cursor.
`Columned` says that every recorded position has the column of
its offset, the distance from the last newline. `next` keeps it and `move_next` does
not, so it is no invariant of the reader: it is one of the scanner, which only reads
with `next`.

**ScannerProofs.** A position is *saved* in a reader (`Saved`) if it
is recorded and not ahead; reading on keeps it saved, and going back keeps those
before it saved. The invariant `ScanInv` says: `ReaderInv` and `Columned`; the start of the
text and the position of the running handler are saved; so is the mark of a
version comment, behind that position; the token begins no earlier than where
the call started (`Begun` tells at which labels there is a token yet); without a
call there is nothing saved; the rest has its type. `BacktrackLands` and
`TypeOK` follow from it but are not inductive: without `Saved` a step could leave
behind a position that no longer can be reached, and without the order of the
positions a token could begin before its call. One lemma per action proves
`Good`: the invariant is kept, and the step is one of `TokenStream` or changes
nothing there. From `Good` follow

- `ScannerTypeCorrect`: `Spec => []TypeOK`,
- `ScannerBacktracksExactly`: `Spec => []BacktrackLands`,
- `ScannerPosAccurate`: `Spec => []PosAccurate`, from `Columned`,
- `ScannerImplementsTokenStream`: `Spec => ImplementsTokenStream`, the refinement,
- `ScanSpecIsSpec`: they hold of the client of the other runs as well.

The second part of the module follows a call to its token. First come two invariants on
top of `ScanInv`, with one lemma per action each. `Ahead`: the handlers of `/`, `*` and `#` are called while that character is
next, and the reader is past it afterwards; it is needed because the step that calls
`scan()` again is several steps behind the one that read the character, and the trie
says which handler belongs to which rune. `Behind`: if the bang flag is set, `/*!` is
in the text before the current token, or before the index when there is no token yet.
The flag alone is not inductive: a handler may go back to the start of its token, so
the opener must be shown to lie before that. From them follow

- `ScannerNestsForward`: `Spec => NestedScanAdvances`,
- `ScannerBangOpenedHere`: `Spec => []BangOpenedHere`.

Then `ScannerProgresses`: `ScanSpec => []Progress`, from the invariant
`Paced` on top of `ScanInv` and `Ahead`. A handler that may return has something:
the reader is past the first character of its token, or that character starts no
token (`Got`). What makes this hard are the handlers that go back to the start and
read again, as a number or an identifier. `Paced` remembers for them what the
token begins with (`Numeral`, `Word`), so that the loop they call reads at least one
rune; and it says with which runes the trie is entered, so that a walk that ends at
the root was at a character without a rule.

`ScannerCallsDescend`: `Spec => CallsDescend`, the action property. What decreases is
the measure of a call, four naturals in lexicographic order (`Measure`): the text left
from the start of the token, which a nested `scan()` has moved (`Ahead`); the rank of
the label, which a handler only climbs down (`Rank`), also when it goes back and reads
again as something else; the text left from the index, for the loops; and the turn
inside one round of a loop. The order matters: going back enlarges what is left
from the index, so the rank has to come before it, and a comment returns to the first
label, so the start of the token has to come before the rank. The exception is exact:
at the end of the text the loop of `scanQuotedIdent` stays where it is. `MeasuresEnd` says
that no infinite sequence of measures descends, since the lexicographic order on
tuples of naturals is well founded. Together they are the safety half of
`ScanReturns`: a call takes finitely many steps unless it gets to that loop.

**LiteralProofs.** `ScannerPrefixedLiterals`: `ScanSpec => []PrefixedLiterals`.
The first invariant, `Led`, is about the dispatch: the character a token begins with
is one of the handler that runs, only a rune without a handler goes further down the
trie, and after `x` or `b` the word is read only when no quote is next. It
separates the literals from the other words, and it needs the handlers of the trie to
be told apart: the proof found two guards of `Handler` that overlapped in the model
(the letters `b`, `n`, `x` are registered on their own, `misc.cc:88`).
`Prefixed` then follows such a literal through its handler: the token and the
predicate match the letter, a quote stands right behind it, and the run of digits
counted from the quote ends where the one counted from the index does. The equality
of the two runs is what is inductive; that the index is at the end of the run holds only
once the loop is done. `Known` is the conjunction of the invariants so far, on which the other
properties of tokens can stand.

`ScannerNumberTokens`: `ScanSpec => []NumberTokens`. `Numbered` says, for each stage of
the handler of a number, which bytes stand between the start of the token and the
index, and what is next. The bytes alone are not inductive: the handler decides what
a number becomes by the character it has not read, so the look-ahead belongs to the
invariant: a loop that has not begun yet has something to read, `scanDigits` behind
`0x1` is called where no digit is next, and a `0x` without digits is recognised by
comparing the index with the mark that was saved when it started. Only then does a token that is taken back
and read again as a word end up with the form of a word. Where `scanFloat` goes back
the invariant also has to remember what the text went on with, which is gone from the
index by then: that the digits of a radix had a point or an `e` behind them, or that an
`e` had no exponent (`GoesOnAsFloat`, `LacksExponent`). That separates the `0` of `0b1e`, which
is the code's, from a `0` cut off any other number; `SpoiltRadixWord`, `SpoiltIntegerWord`
and `SpoiltFloatWord` say that a word the handler makes of a number is none of its forms.

**TextProofs.** `ScannerQuotedIdentifiers`, `ScannerStringLiterals`,
`ScannerSkipsTrivia` and `ScannerWordsAreIdentifiers`, for `ScanSpec`.
The references `LiteralEnd` and `Unquoted` walk the text between the quotes; their
equations (`EndEquation`, `UnquotedEquation`) say what they make of an offset in terms of
the next one. Nothing the scanner keeps says where the literal will end, so the
invariant quantifies over it: `Told` says that what the references make of the literal
from its opening quote, for every offset it may end at, is what has been built so far
joined to what they make of the text from the index on. A step of a reference (a doubled
quote, an escape, a byte) takes several labels of the handler, and a rune may be
several bytes, so `QuotedTold` and `StringTold` say at each label how far `Told` has come: a quote or
a backslash that has been read is not yet accounted for, a rune that is to be written is. The
value so far is `_buf` once that is used and the text itself before (`Value`); that the
two agree at the step that starts using the buffer is the point of `setUseBuf`. That a
rune is written back as the bytes it was read from needs `encode` to undo `decode`, and
that no byte of a longer rune looks like a quote needs the lack of overlong forms.

`ScannerSkipsTrivia` has the same form. `TriviaEquation` says that `AfterTrivia` stays
where no piece of trivia stands and otherwise goes on behind the first one (`AfterPiece`).
`Skipped` is inductive: what was to be skipped from where the call started is what is
left to skip from the index on while the scanner looks for a token, and from the
start of the token while a handler runs; for the handlers of `/`, `*` and `#` `Handled`
adds what they have read since, for instance that the comment is not closed up to
the index, or up to the byte before it when that is the star of a possible `*/`. The
handler decides only at its end whether this was a token or is to be
dropped, and then `Handled` is what makes the piece end at the index. `Behind` remembers
that the flag is set only with an opener behind the reader. `AfterTrivia` is a
function over pairs of an offset and a flag because the prover has no functions of two
arguments.

`ScannerWordsAreIdentifiers` stands on `SkipsTrivia`, which makes the place where the
trivia ends the beginning of the token. `Worded` says that the run of identifier
characters counted from there ends where the one counted from the index does, and that
what the trie is walked for is no character `scan()` takes for a word by itself;
`Led` and `Prefixed` leave no other handler to return such a token.

**ConsoleProofs.** `ConsoleColorsRange` and `ConsoleLeavesDefault` hold at the end of the
call, so the invariant `ConsoleInv` says the same of what has been written when the
loop has come to `j`: the characters before `j` are shown, once and in order (`Shows`),
each in the colours it is to have (`Painted`), and behind them the colours are on just
when `begin < j <= end`. That last part is what `Painted` needs to be kept by the
next character; it fails for a range given backwards, hence the condition
`begin <= end`. `AppendItem` says what one more item does to the colours in force:
nothing to those of the items before it, a code adds one, a reset removes all;
`OneByOne` takes apart what an iteration writes at once, and one lemma per action
puts the items together again. `DumpsAnyBuffer` is about `dump_to_string` as a function,
for every sequence of bytes, by the arithmetic of rows and cells;
`ConsoleDumpsEveryByte` is its case for the buffers of the run.

**MapProofs.** The invariant `MapInv` says that the keys of a table under construction
are those of the entries inserted so far, each with the value of the first entry that
lists it. That an entry is *first* has to be part of it: when a key is new, no entry before
listed it, and what is inserted later changes nothing. `MapsLoseRepeatedKeys` is exact:
`EntriesKept` holds at a point of the construction if and only if no two of the
entries so far give one key different values. `MapsKeepEntries` is the consequence
for lists without such a pair - which the seven lists of the program are, as the run
`tables` shows. `MapsAreTheirLists` says what a complete table is as a function of its
list, and `MapsAreMapOf` that it is the function `MapOf` which stands for the tables in
the lookups of **Keywords**.

**Only model-checked.** `ScanReturns` is liveness under fairness, out of the
prover's reach; `CallsDescend` and `MeasuresEnd` are what can be proved of it. The six
properties of **MCTables** (`TokenTellsTable`, `AliasesShareToken`,
`SynonymsInterchangeable`, `EveryCodeHasMessage`, `RedactsArguments`, `TablesAgree`) are
about the contents of seven constant lists, two thousand entries and more. By
`MapsAreTheirLists` and `MapsAreMapOf` a complete table is a function of its list, so
these are statements without a variable, which TLC evaluates once and for all: the
run is not a small instance but the whole case, and a proof could only repeat the
enumeration.

## 5. Not modelled

- `getNextToken` returns a constant and `EnableWindowFunc` sets a flag that nothing
  reads; `isOptimizerHint` is never true, so no comment is a hint.
- The conversions of `rune_t` to the types of C++, its comparisons, and the const
  accessors of the reader.
- The constants of `const.hh:6-62` (limits and names of types) and the version
  strings: nothing reads them.
- The wording of error messages; what `fmt` does with a format.
- What `strlen` reads behind a sequence that is cut off by the end of the text.
- `utility_test` and the server's `main`, which print a line.

## 6. What is left

Everything in the repository that changes state is an action of a module. As the
code grows: `startWithAt` and the keywords, once the scanner uses them -
`Keywords` and `scanIdentifierOrString` are there to be composed with it - and the
optimizer hints. Every safety and action property that a run checks is proved but for
those of **MCTables**, which are about constants; liveness, `ScanReturns`, is
model-checked, because it rests on fairness.
