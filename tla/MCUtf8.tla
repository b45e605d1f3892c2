------------------------------- MODULE MCUtf8 -------------------------------
(***************************************************************************)
(* decode and encode against the definition of UTF-8 (RFC 3629), over      *)
(* every string of at most MaxLen bytes of Bytes, grown one byte at a time *)
(* so that each prefix - a sequence cut short - is a case as well; and     *)
(* over every single byte.                                                 *)
(***************************************************************************)
EXTENDS Utf8

CONSTANTS Bytes, MaxLen

ASSUME BytesAssumption == Bytes \subseteq Byte

VARIABLE text

Init == \E b \in Byte : text = <<b>>

Grow == /\ text[1] \in Bytes
        /\ Len(text) < MaxLen
        /\ \E b \in Bytes : text' = Append(text, b)

Spec == Init /\ [][Grow]_text

\* The bytes on either side of every boundary of the two tables.
BoundaryBytes == {\h00, \h41, \h7F, \h80, \h8F, \h90, \h9F, \hA0, \hBF, \hC1,
                  \hC2, \hDF, \hE0, \hED, \hEF, \hF0, \hF4, \hF5}

-----------------------------------------------------------------------------
\* Reference: the bit patterns 110xxxxx, 1110xxxx, 11110xxx and 10xxxxxx.
Pattern(n, s) ==
    /\ Len(s) >= n
    /\ s[1] \in CASE n = 2 -> 192 .. 223 [] n = 3 -> 224 .. 239 [] n = 4 -> 240 .. 247
    /\ \A k \in 2 .. n : s[k] \in 128 .. 191

Assembled(n, s) ==
    CASE n = 2 -> (s[1] - 192) * 64 + (s[2] - 128)
      [] n = 3 -> (s[1] - 224) * 4096 + (s[2] - 128) * 64 + (s[3] - 128)
      [] n = 4 -> (s[1] - 240) * 262144 + (s[2] - 128) * 4096
                    + (s[3] - 128) * 64 + (s[4] - 128)

Shortest(n) == CASE n = 2 -> 128 [] n = 3 -> 2048 [] n = 4 -> 65536

Surrogate == 55296 .. 57343

WellFormed(n, s) ==
    /\ Pattern(n, s)
    /\ Assembled(n, s) >= Shortest(n)
    /\ Assembled(n, s) <= 1114111
    /\ Assembled(n, s) \notin Surrogate

\* The table-driven decoder accepts a multi-byte sequence exactly when it is
\* the shortest form of a code point that is no surrogate and within range,
\* and then yields that code point: no overlong form, no truncated sequence,
\* no byte taken that belongs to the next character.
DecodesWellFormed ==
    \A n \in 2 .. 4 :
        /\ DecodeWidth(text, 0) = n <=> WellFormed(n, text)
        /\ WellFormed(n, text) => DecodeValue(text, 0) = Assembled(n, text)

\* What decode accepts, encode writes back byte for byte, so that copying a
\* literal rune by rune (lazyBuf::writeRune) reproduces the source text.
EncodeInvertsDecode ==
    LET w == DecodeWidth(text, 0)
    IN  (w > 1 \/ text[1] < 128) => encode(DecodeValue(text, 0)) = SubSeq(text, 1, w)

\* Reference: the offsets from k on at which the decoder, walking s, starts a
\* character, in order.
StartsFrom(s, k) ==
    LET from[i \in 0 .. Len(s)] ==
          IF i = Len(s) THEN << >> ELSE << i >> \o from[i + DecodeWidth(s, i)]
    IN  from[k]

\* Character i of s is a sequence that decode accepts or ASCII, and not NUL.
Whole(s, i) == DecodeWidth(s, i) > 1 \/ s[i + 1] \in 1 .. 127

\* utf8::strlen, which steps by the lead byte alone, counts the characters of
\* every text without NUL that decode accepts whole; so it does not overrun it.
StrlenCounts ==
    LET starts == StartsFrom(text, 0)
    IN  (\A k \in DOMAIN starts : Whole(text, starts[k])) => strlen(text) = Len(starts)

\* The identifier classes of misc.hh and those of rune_t were written apart;
\* on ASCII they differ in the dollar sign only.
ClassesAgree ==
    \A k \in DOMAIN text : text[k] < 128 =>
        /\ isIdentChar(text[k]) <=> is_alnum(text[k]) \/ text[k] = 36
        /\ isDigit(text[k]) => is_xdigit(text[k]) /\ is_digit(text[k])
        /\ ~(is_space(text[k]) /\ isIdentChar(text[k]))
=============================================================================
