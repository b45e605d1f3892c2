-------------------------------- MODULE Utf8 --------------------------------
(***************************************************************************)
(* The UTF-8 layer of px_tidb: common/utf8/rune.hh and rune.cc, and the    *)
(* character classes of parser/misc.hh.  Pure operators, no state.         *)
(*                                                                         *)
(* A byte is a number in Byte, a string a sequence of bytes, a rune the    *)
(* int32 value of rune_t.  Offsets into a string count from 0 as in the    *)
(* source, so that the byte at offset i of s is s[i + 1].                  *)
(***************************************************************************)
EXTENDS Integers, Sequences

Byte == 0 .. 255

rune_invalid == \hFFFD
rune_max == \h10FFFF
rune_bom == \hFEFF
rune_eof == -1

Continuation == \h80 .. \hBF

\* The values a reader can yield: EOF, a byte, or an accepted code point.
Rune == rune_eof .. rune_max

is_errored(r) == r \in {rune_eof, rune_invalid}

(***************************************************************************)
(* s_utf8_first: the low nibble of the entry of a lead byte is the length  *)
(* of its sequence, the high nibble selects the range that the second byte *)
(* must be in.  ASCII (0xf0) and bytes that never lead (0xf1) stand alone. *)
(***************************************************************************)
SequenceSize(lead) ==
    CASE lead \in \hC2 .. \hDF -> 2
      [] lead \in \hE0 .. \hEF -> 3
      [] lead \in \hF0 .. \hF4 -> 4
      [] OTHER                 -> 1

AcceptRange(lead) ==
    CASE lead = \hE0 -> \hA0 .. \hBF
      [] lead = \hED -> \h80 .. \h9F
      [] lead = \hF0 -> \h90 .. \hBF
      [] lead = \hF4 -> \h80 .. \h8F
      [] OTHER       -> Continuation

\* A variant of IsMultibyte: any continuation byte may come second (overlong forms, surrogates).
IsMultibyte_AnySecondByte(s, i) ==
    LET size == SequenceSize(s[i + 1])
    IN  /\ size > 1
        /\ i + size <= Len(s)
        /\ \A k \in 2 .. size : s[i + k] \in Continuation

(***************************************************************************)
(* decode(str + i, length - i).  When the bytes at i are not a sequence    *)
(* the tables accept, every early return leaves value = s0 and width = 1.  *)
(***************************************************************************)
IsMultibyte(s, i) ==
    LET size == SequenceSize(s[i + 1])
    IN  /\ size > 1
        /\ i + size <= Len(s)
        /\ s[i + 2] \in AcceptRange(s[i + 1])
        /\ size > 2 => s[i + 3] \in Continuation
        /\ size > 3 => s[i + 4] \in Continuation

DecodeWidth(s, i) == IF IsMultibyte(s, i) THEN SequenceSize(s[i + 1]) ELSE 1

Low6(b) == b % 64

\* v << 6 | (b & 0x3f)
Six(v, b) == v * 64 + Low6(b)

\* A variant of DecodeValue: the lead byte of four is masked like that of three.
DecodeValue_KeepsLeadBit(s, i) ==
    LET w == DecodeWidth(s, i)
    IN  CASE w = 1 -> s[i + 1]
          [] w = 2 -> Six(s[i + 1] % 32, s[i + 2])
          [] w = 3 -> Six(Six(s[i + 1] % 32, s[i + 2]), s[i + 3])
          [] w = 4 -> Six(Six(Six(s[i + 1] % 32, s[i + 2]), s[i + 3]), s[i + 4])

DecodeValue(s, i) ==
    LET w == DecodeWidth(s, i)
    IN  CASE w = 1 -> s[i + 1]
          [] w = 2 -> Six(s[i + 1] % 32, s[i + 2])
          [] w = 3 -> Six(Six(s[i + 1] % 32, s[i + 2]), s[i + 3])
          [] w = 4 -> Six(Six(Six(s[i + 1] % 8, s[i + 2]), s[i + 3]), s[i + 4])

\* A variant of encode: Latin-1 as one byte, the branch that rune.cc:174-179 has
\* commented out.
encode_Latin1AsByte(r) ==
    CASE r < \h100 -> << r % 256 >>
      [] r >= \h100 /\ r < \h800 ->
            << \hC0 + (r \div 64), \h80 + Low6(r) >>
      [] r >= \h800 /\ r < \h10000 ->
            << \hE0 + (r \div 4096), \h80 + Low6(r \div 64), \h80 + Low6(r) >>
      [] r >= \h10000 ->
            << \hF0 + (r \div 262144), \h80 + Low6(r \div 4096),
               \h80 + Low6(r \div 64), \h80 + Low6(r) >>

(***************************************************************************)
(* encode(r).data[0 .. width - 1] for the runes a reader yields.  The cast *)
(* of EOF (-1) to uint8_t is 0xff.  The surrogates and rune_invalid take   *)
(* the three-byte form like their neighbours (the source has a branch of   *)
(* its own for surrogates with the same bytes); a rune above rune_max,     *)
(* which no reader yields, is outside Rune.                                *)
(***************************************************************************)
encode(r) ==
    CASE r < \h80 -> << r % 256 >>
      [] r >= \h80 /\ r < \h800 ->
            << \hC0 + (r \div 64), \h80 + Low6(r) >>
      [] r >= \h800 /\ r < \h10000 ->
            << \hE0 + (r \div 4096), \h80 + Low6(r \div 64), \h80 + Low6(r) >>
      [] r >= \h10000 ->
            << \hF0 + (r \div 262144), \h80 + Low6(r \div 4096),
               \h80 + Low6(r \div 64), \h80 + Low6(r) >>

\* A variant of LeadSize: five-bit leads are tested for before six-bit ones, without the zero.
LeadSize_NoZeroBit(b) ==
    CASE b < \h80              -> 1
      [] b \in \hC0 .. \hDF    -> 2
      [] b \in \hE0 .. \hFF    -> 3
      [] OTHER                 -> 0

\* The step of utf8::strlen behind a byte, 0 for one that leads nothing.
LeadSize(b) ==
    CASE b < \h80              -> 1
      [] b \in \hC0 .. \hDF    -> 2
      [] b \in \hE0 .. \hEF    -> 3
      [] b \in \hF0 .. \hF7    -> 4
      [] OTHER                 -> 0

(***************************************************************************)
(* utf8::strlen counts lead bytes up to a NUL - the terminator at Len(s)   *)
(* or one in s - and gives -1 at a byte that leads nothing.  A sequence    *)
(* that the end of s cuts short takes it past the terminator, where what   *)
(* it reads is undefined: StrlenOverruns.                                  *)
(***************************************************************************)
StrlenOverruns == -2

strlen(s) ==
    LET len[i \in 0 .. Len(s)] ==
            IF i = Len(s) \/ s[i + 1] = 0 THEN 0
            ELSE LET n == LeadSize(s[i + 1])
                     rest == IF i + n > Len(s) THEN StrlenOverruns ELSE len[i + n]
                 IN  IF n = 0 THEN -1 ELSE IF rest < 0 THEN rest ELSE rest + 1
    IN  len[0]

(***************************************************************************)
(* Character classes.  utf8proc is external: of its categories ZS is given *)
(* in full above Latin-1, the others by representatives (U+0903 for MC).   *)
(***************************************************************************)
CategoryZS == {\h1680, \h202F, \h205F, \h3000} \cup (\h2000 .. \h200A)
CategoryMC == {\h0903}

is_space(r) == \/ r \in (9 .. 13) \cup {32}
               \/ r \in {\h85, \hA0}
               \/ r \in CategoryMC \cup CategoryZS

CategoryND == \h0660 .. \h0669
CategoryNL == {\h2160}
CategoryL == {\h00E9, \h0416, \h4E2D}

is_digit(r) == r \in (48 .. 57) \cup CategoryND
is_xdigit(r) == r \in (48 .. 57) \cup (65 .. 70) \cup (97 .. 102) \cup CategoryND \cup CategoryNL
is_alpha(r) == r \in {95} \cup (65 .. 90) \cup (97 .. 122) \cup CategoryL
is_alnum(r) == is_alpha(r) \/ is_digit(r)

isLetter(r) == r \in (97 .. 122) \cup (65 .. 90)
isDigit(r) == r \in 48 .. 57
isIdentExtend(r) == r \in \h80 .. \hFFFF
\* A variant of isIdentChar: $ does not continue an identifier, although it starts one.
isIdentChar_NoDollar(r) == isLetter(r) \/ isDigit(r) \/ r = 95 \/ isIdentExtend(r)

isIdentChar(r) == isLetter(r) \/ isDigit(r) \/ r \in {95, 36} \/ isIdentExtend(r)
isUserVarChar(r) == isIdentChar(r) \/ r = 46
=============================================================================
