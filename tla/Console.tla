------------------------------ MODULE Console ------------------------------
(***************************************************************************)
(* The console helpers: colorizer (common/colorizer.cc), whose             *)
(* colorize_range is a loop that is modelled step by step, and             *)
(* HexFormatter (common/hex_formatter.cc).                                 *)
(*                                                                         *)
(* A text is its length: its characters are its offsets.  What is written  *)
(* to the stream is a sequence of characters and escape codes.             *)
(***************************************************************************)
EXTENDS Integers, Sequences

CONSTANTS MaxLength,   \* length of the longest text
          Colors       \* foreground colours (term_colors_t) a caller uses

ASSUME MaxLengthAssumption == MaxLength \in Nat
ASSUME ColorsAssumption == Colors \subseteq 30 .. 45

VARIABLES
    enabled,           \* g_color_enabled
    length,            \* text.length()
    begin, end,        \* the range to colour
    fg_color, bg_color,
    j,                 \* the loop variable
    colored_source,    \* the stream written so far
    returned           \* the call has returned

args == <<enabled, length, begin, end, fg_color, bg_color>>
vars == <<args, j, colored_source, returned>>

black == 30

Character(k) == [kind |-> "char", is |-> k]
color_code(color) == [kind |-> "color", is |-> color]
color_code_reset == [kind |-> "reset", is |-> 0]

\* uint8_t arithmetic on an enumerator of term_colors_t.
make_bg_color(color) == (color + 10) % 256

ColorsOn == <<color_code(make_bg_color(bg_color)), color_code(fg_color)>>
Text == [k \in 1 .. length |-> Character(k - 1)]

colorize == IF enabled THEN ColorsOn \o Text \o <<color_code_reset>> ELSE Text

-----------------------------------------------------------------------------
Init ==
    /\ enabled \in BOOLEAN
    /\ length \in 0 .. MaxLength
    /\ begin \in 0 .. (MaxLength + 1)
    /\ end \in 0 .. (MaxLength + 1)
    /\ fg_color \in Colors
    /\ bg_color = black
    /\ j = 0
    /\ colored_source = <<>>
    /\ returned = FALSE

Write(items) ==
    /\ enabled /\ ~returned /\ j < length
    /\ colored_source' = colored_source \o items
    /\ j' = j + 1
    /\ UNCHANGED <<args, returned>>

\* begin == end colours the one character there.
ColorOne ==
    /\ begin = end /\ j = begin
    /\ Write(ColorsOn \o <<Character(j), color_code_reset>>)

ColorStart ==
    /\ begin # end /\ j = begin
    /\ Write(ColorsOn \o <<Character(j)>>)

\* A variant of ColorEnd: the colours end behind the character at end.
ColorEnd_Inclusive ==
    /\ begin # end /\ j = end
    /\ Write(<<Character(j), color_code_reset>>)

\* A variant of ColorEnd: the colours go on to the end of the text.
ColorEnd_NoReset ==
    /\ begin # end /\ j = end
    /\ Write(<<Character(j)>>)

ColorEnd ==
    /\ begin # end /\ j = end
    /\ Write(<<color_code_reset, Character(j)>>)

Plain == j \notin {begin, end} /\ Write(<<Character(j)>>)

Return ==
    /\ ~returned
    /\ enabled => j = length
    /\ returned' = TRUE
    /\ colored_source' = IF enabled THEN colored_source ELSE Text
    /\ UNCHANGED <<args, j>>

Next == ColorOne \/ ColorStart \/ ColorEnd \/ Plain \/ Return

Spec == Init /\ [][Next]_vars

-----------------------------------------------------------------------------
\* HexFormatter::dump_to_string of a buffer: rows of sixteen cells, each with
\* the offset of its first byte, the bytes in hexadecimal (Blank past the end)
\* and as characters.
Blank == -1
isprint(b) == b \in 32 .. 126

\* A variant of dump_to_string: the last row is dumped only when it is full.
dump_to_string_FullRows(buf) ==
    [row \in 1 .. (Len(buf) \div 16) |->
       LET i == (row - 1) * 16
       IN  [at  |-> i,
            hex |-> [c \in 1 .. 16 |-> IF i + c <= Len(buf) THEN buf[i + c] ELSE Blank],
            chars |-> [k \in 1 .. 16 |-> IF isprint(buf[i + k]) THEN buf[i + k] ELSE 46]]]

dump_to_string(buf) ==
    [row \in 1 .. ((Len(buf) + 15) \div 16) |->
       LET i == (row - 1) * 16
           left == IF Len(buf) - i < 16 THEN Len(buf) - i ELSE 16
       IN  [at  |-> i,
            hex |-> [c \in 1 .. 16 |-> IF i + c <= Len(buf) THEN buf[i + c] ELSE Blank],
            chars |-> [k \in 1 .. left |-> IF isprint(buf[i + k]) THEN buf[i + k] ELSE 46]]]

-----------------------------------------------------------------------------
\* What a terminal shows: the codes in force when the first k items are written,
\* those since the last reset.
InForce(items, k) ==
    {items[m].is : m \in {m \in 1 .. k : /\ items[m].kind = "color"
                                         /\ \A n \in m .. k : items[n].kind # "reset"}}

Characters(items) == {k \in DOMAIN items : items[k].kind = "char"}

\* Every character of the text, once and in order.
ShowsText(items) ==
    /\ {items[k].is : k \in Characters(items)} = 0 .. length - 1
    /\ \A k, n \in Characters(items) : k < n => items[k].is < items[n].is

InRange(k) == IF begin = end THEN k = begin ELSE begin <= k /\ k < end

\* colorize_range shows every character of the text once and in order, and in
\* the colours exactly those of the range - of a range given in order.
ColorsRange ==
    returned =>
        /\ ShowsText(colored_source)
        /\ begin <= end =>
             \A k \in Characters(colored_source) :
                InForce(colored_source, k) =
                   IF enabled /\ InRange(colored_source[k].is) THEN {bg_color + 10, fg_color}
                   ELSE {}

\* The terminal is left without colours by colorize always, and by
\* colorize_range when the range ends before the text does.  (A range up to the
\* last character is never reset: the loop ends before j reaches end.)
LeavesDefault ==
    /\ InForce(colorize, Len(colorize)) = {}
    /\ returned /\ begin <= end /\ end < length =>
          InForce(colored_source, Len(colored_source)) = {}

\* A dump holds every byte of the buffer once and in order, in rows that line
\* up and of which only the last is padded; beside each byte stands its character,
\* or a dot for one that is not printed.
Dumps(buf) ==
    LET rows == dump_to_string(buf)
        cell(n) == rows[((n - 1) \div 16) + 1].hex[((n - 1) % 16) + 1]
    IN  /\ Len(buf) <= 16 * Len(rows) /\ 16 * Len(rows) < Len(buf) + 16
        /\ \A n \in 1 .. 16 * Len(rows) : cell(n) = IF n <= Len(buf) THEN buf[n] ELSE Blank
        /\ \A r \in DOMAIN rows :
             /\ rows[r].at = 16 * (r - 1)
             /\ DOMAIN rows[r].hex = 1 .. 16
             /\ rows[r].chars = [c \in {c \in 1 .. 16 : rows[r].hex[c] # Blank} |->
                                   IF isprint(rows[r].hex[c]) THEN rows[r].hex[c] ELSE 46]

DumpsEveryByte ==
    j = 0 /\ begin = 0 /\ end = 0 => Dumps([k \in 1 .. length |-> (k * 37) % 256])
=============================================================================
