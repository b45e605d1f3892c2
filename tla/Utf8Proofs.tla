----------------------------- MODULE Utf8Proofs -----------------------------
(***************************************************************************)
(* decode, encode and strlen against the definition of UTF-8 for strings   *)
(* of any bytes and any length.                                            *)
(***************************************************************************)
EXTENDS MCUtf8, TextLaws

\* The text is never empty.
TextOK == text \in Seq(Byte) /\ Len(text) \in Nat /\ 0 < Len(text)

\* A text grown byte by byte is a string of bytes.
LEMMA TextInvariant == Spec => []TextOK
<1>1. Init => TextOK
    <2> SUFFICES ASSUME NEW b \in Byte, text = << b >>
                 PROVE  TextOK
        BY DEF Init
    <2> QED
        BY SMT DEF TextOK
<1>2. TextOK /\ [Grow]_text => TextOK'
    <2> SUFFICES ASSUME TextOK, [Grow]_text
                 PROVE  TextOK'
        OBVIOUS
    <2>1. CASE Grow
        <3>1. PICK b \in Byte : text' = Append(text, b)
            BY <2>1, BytesAssumption DEF Grow
        <3> QED
            BY <3>1, AppendProperties, SMT DEF TextOK
    <2>2. CASE text' = text
        BY <2>2 DEF TextOK
    <2> QED
        BY <2>1, <2>2
<1> QED
    BY <1>1, <1>2, PTL DEF Spec

-----------------------------------------------------------------------------
(* What the tables accept is what the definition calls well-formed. *)

\* Two bytes: no overlong form.
LEMMA WellFormedTwo ==
    ASSUME NEW s \in Seq(Byte), 2 <= Len(s)
    PROVE  WellFormed(2, s) <=> SequenceSize(s[1]) = 2 /\ s[2] \in AcceptRange(s[1])
<1> DEFINE b == s[1]
           c == s[2]
<1>1. b \in Byte /\ c \in Byte
    BY SMT
<1>2. Pattern(2, s) <=> b \in 192 .. 223 /\ c \in 128 .. 191
    BY SMT DEF Pattern
<1>3. Assembled(2, s) = (b - 192) * 64 + (c - 128) /\ Shortest(2) = 128
    BY SMT DEF Assembled, Shortest
<1> HIDE DEF b, c
<1>4. ASSUME b \in 192 .. 223, c \in 128 .. 191
      PROVE  /\ (b - 192) * 64 + (c - 128) >= 128 <=> b \in 194 .. 223
             /\ (b - 192) * 64 + (c - 128) <= 1114111
             /\ (b - 192) * 64 + (c - 128) \notin Surrogate
    BY <1>4, SMT DEF Surrogate
<1>5. b \in 194 .. 223 => b \in 192 .. 223
    BY SMT
<1>6. SequenceSize(b) = 2 /\ c \in AcceptRange(b) <=>
          b \in 194 .. 223 /\ c \in 128 .. 191
    BY <1>1, AcceptedPairs, SMT
<1>7. WellFormed(2, s) <=> SequenceSize(b) = 2 /\ c \in AcceptRange(b)
    BY <1>2, <1>3, <1>4, <1>5, <1>6, SMT DEF WellFormed
<1> QED
    BY <1>7, SMT DEF b, c

\* The surrogates as bounds.
LEMMA SurrogateBounds == \A v \in Int : v \in Surrogate <=> v >= 55296 /\ v <= 57343
BY SMT DEF Surrogate

\* v is long enough for three bytes, in range and a surrogate as x tells.
TellsThree(x, v) ==
    /\ v >= 2048 <=> x >= 32
    /\ v <= 1114111
    /\ v \in Surrogate <=> x \in 864 .. 895

\* The value of three bytes by its leading ten bits.
LEMMA ThreeByteRanges ==
    ASSUME NEW x \in 0 .. 1023, NEW z \in 0 .. 63, NEW v, v = x * 64 + z
    PROVE  TellsThree(x, v)
<1>1. v >= 2048 <=> x >= 32
    BY SMT
<1>2. v <= 1114111
    BY SMT
<1>3. v >= 55296 <=> x >= 864
    BY SMT
<1>4. v <= 57343 <=> x <= 895
    BY SMT
<1>5. v \in Int
    BY SMT
<1>6. v \in Surrogate <=> v >= 55296 /\ v <= 57343
    BY <1>5, SurrogateBounds, SMT
<1>7. x \in 864 .. 895 <=> x >= 864 /\ x <= 895
    BY SMT
<1> QED
    BY <1>1, <1>2, <1>3, <1>4, <1>6, <1>7, SMT DEF TellsThree

\* v is long enough for four bytes and in range as x tells, and no surrogate then.
TellsFour(x, v) ==
    /\ v >= 65536 /\ v <= 1114111 <=> x \in 16 .. 271
    /\ v >= 65536 => v \notin Surrogate

\* The low twelve bits of v are y, the nine above them x.
Splits(v, x, y) == x \in 0 .. 511 /\ y \in 0 .. 4095 /\ v = x * 4096 + y

\* The value of four bytes by its leading nine bits.
LEMMA FourByteRanges ==
    ASSUME NEW x, NEW y, NEW v, Splits(v, x, y)
    PROVE  TellsFour(x, v)
<1> USE DEF Splits
<1>1. v >= 65536 <=> x >= 16
    BY SMT
<1>2. v <= 1114111 <=> x <= 271
    BY SMT
<1>3. v \in Int
    BY SMT
<1>4. v >= 65536 => ~ (v <= 57343)
    BY <1>3, SMT
<1>5. v \in Surrogate <=> v >= 55296 /\ v <= 57343
    BY <1>3, SurrogateBounds, SMT
<1>6. x \in 16 .. 271 <=> x >= 16 /\ x <= 271
    BY SMT
<1> QED
    BY <1>1, <1>2, <1>4, <1>5, <1>6, SMT DEF TellsFour

\* Three bytes: no overlong form and no surrogate, told by the second byte.
LEMMA WellFormedThree ==
    ASSUME NEW s \in Seq(Byte), 3 <= Len(s)
    PROVE  WellFormed(3, s) <=> /\ SequenceSize(s[1]) = 3 /\ s[2] \in AcceptRange(s[1])
                                /\ s[3] \in Continuation
<1> DEFINE b == s[1]
           c == s[2]
           d == s[3]
           x == (b - 224) * 64 + (c - 128)
<1>1. b \in Byte /\ c \in Byte /\ d \in Byte
    BY SMT
<1>2. Pattern(3, s) <=> b \in 224 .. 239 /\ c \in 128 .. 191 /\ d \in 128 .. 191
    BY SMT DEF Pattern
<1>3. /\ Assembled(3, s) = (b - 224) * 4096 + (c - 128) * 64 + (d - 128)
      /\ Shortest(3) = 2048
    BY SMT DEF Assembled, Shortest
<1> HIDE DEF b, c, d
<1>4. ASSUME b \in 224 .. 239, c \in 128 .. 191, d \in 128 .. 191
      PROVE  /\ Assembled(3, s) >= 2048 <=> x >= 32
             /\ Assembled(3, s) <= 1114111
             /\ Assembled(3, s) \in Surrogate <=> x \in 864 .. 895
    <2>1. Assembled(3, s) = x * 64 + (d - 128) /\ x \in 0 .. 1023 /\ d - 128 \in 0 .. 63
        BY <1>3, <1>4, SMT
    <2> DEFINE z == d - 128
               v == Assembled(3, s)
    <2>2. z \in 0 .. 63 /\ x \in 0 .. 1023 /\ v = x * 64 + z
        BY <2>1, SMT
    <2> HIDE DEF x, z, v
    <2>3. TellsThree(x, v)
        BY ZenonT(60), <2>2, ThreeByteRanges
    <2> QED
        BY <2>3, SMT DEF v, TellsThree
<1>5. SequenceSize(b) = 3 /\ c \in AcceptRange(b) <=>
          /\ b \in 224 .. 239 /\ c \in 128 .. 191
          /\ x >= 32 /\ x \notin 864 .. 895
    BY <1>1, AcceptedPairs, SMT
<1> HIDE DEF x
<1>6. WellFormed(3, s) <=> /\ SequenceSize(b) = 3 /\ c \in AcceptRange(b)
                           /\ d \in 128 .. 191
    <2> DEFINE v == Assembled(3, s)
               Leads == b \in 224 .. 239
               Low == v >= 2048
               High == v <= 1114111
               Paired == v \in Surrogate
               Long == x >= 32
               Middle == x \in 864 .. 895
    <2>1. WellFormed(3, s) <=> Pattern(3, s) /\ Low /\ High /\ ~ Paired
        BY <1>3, SMT DEF WellFormed
    <2>2. Leads /\ c \in 128 .. 191 /\ d \in 128 .. 191 =>
              (Low <=> Long) /\ High /\ (Paired <=> Middle)
        BY <1>4, SMT
    <2>3. Pattern(3, s) <=> Leads /\ c \in 128 .. 191 /\ d \in 128 .. 191
        BY <1>2, SMT
    <2>4. SequenceSize(b) = 3 /\ c \in AcceptRange(b) <=>
              Leads /\ c \in 128 .. 191 /\ Long /\ ~ Middle
        BY <1>5, SMT
    <2> HIDE DEF Low, High, Paired, Leads, Long, Middle
    <2> QED
        BY <2>1, <2>2, <2>3, <2>4
<1>7. Continuation = 128 .. 191
    BY SMT DEF Continuation
<1> QED
    BY <1>6, <1>7, SMT DEF b, c, d

\* Four bytes: no overlong form and nothing above U+10FFFF, told by the second
\* byte again.
LEMMA WellFormedFour ==
    ASSUME NEW s \in Seq(Byte), 4 <= Len(s)
    PROVE  WellFormed(4, s) <=> /\ SequenceSize(s[1]) = 4 /\ s[2] \in AcceptRange(s[1])
                                /\ s[3] \in Continuation /\ s[4] \in Continuation
<1> DEFINE b == s[1]
           c == s[2]
           d == s[3]
           e == s[4]
           x == (b - 240) * 64 + (c - 128)
           y == (d - 128) * 64 + (e - 128)
<1>1. b \in Byte /\ c \in Byte /\ d \in Byte /\ e \in Byte
    BY SMT
<1>2. Pattern(4, s) <=> /\ b \in 240 .. 247 /\ c \in 128 .. 191
                        /\ d \in 128 .. 191 /\ e \in 128 .. 191
    BY SMT DEF Pattern
<1>3. /\ Assembled(4, s) = (b - 240) * 262144 + (c - 128) * 4096
                             + (d - 128) * 64 + (e - 128)
      /\ Shortest(4) = 65536
    BY SMT DEF Assembled, Shortest
<1> HIDE DEF b, c, d, e
<1>4. ASSUME b \in 240 .. 247, c \in 128 .. 191, d \in 128 .. 191, e \in 128 .. 191
      PROVE  /\ Assembled(4, s) >= 65536 /\ Assembled(4, s) <= 1114111 <=> x \in 16 .. 271
             /\ Assembled(4, s) >= 65536 => Assembled(4, s) \notin Surrogate
    <2>1. Assembled(4, s) = x * 4096 + y /\ x \in 0 .. 511 /\ y \in 0 .. 4095
        BY <1>3, <1>4, SMT
    <2> DEFINE v == Assembled(4, s)
    <2>2. Splits(v, x, y)
        BY <2>1, SMT DEF Splits
    <2> HIDE DEF x, y, v
    <2>3. TellsFour(x, v)
        BY <2>2, FourByteRanges
    <2> QED
        BY <2>3, SMT DEF v, TellsFour
<1>5. SequenceSize(b) = 4 /\ c \in AcceptRange(b) <=>
          /\ b \in 240 .. 247 /\ c \in 128 .. 191
          /\ x \in 16 .. 271
    BY <1>1, AcceptedPairs, SMT
<1> HIDE DEF x
<1>6. WellFormed(4, s) <=> /\ SequenceSize(b) = 4 /\ c \in AcceptRange(b)
                           /\ d \in 128 .. 191 /\ e \in 128 .. 191
    <2> DEFINE v == Assembled(4, s)
               Leads == b \in 240 .. 247
               Low == v >= 65536
               High == v <= 1114111
               Paired == v \in Surrogate
    <2>1. WellFormed(4, s) <=> Pattern(4, s) /\ Low /\ High /\ ~ Paired
        BY <1>3, SMT DEF WellFormed
    <2>2. Leads /\ c \in 128 .. 191 /\ d \in 128 .. 191 /\ e \in 128 .. 191 =>
              (Low /\ High <=> x \in 16 .. 271) /\ (Low => ~ Paired)
        BY <1>4, SMT
    <2>3. Pattern(4, s) <=> Leads /\ c \in 128 .. 191 /\ d \in 128 .. 191 /\ e \in 128 .. 191
        BY <1>2, SMT
    <2>4. SequenceSize(b) = 4 /\ c \in AcceptRange(b) <=>
              Leads /\ c \in 128 .. 191 /\ x \in 16 .. 271
        BY <1>5, SMT
    <2> HIDE DEF Low, High, Paired, Leads
    <2> QED
        BY <2>1, <2>2, <2>3, <2>4
<1>7. Continuation = 128 .. 191
    BY SMT DEF Continuation
<1> QED
    BY <1>6, <1>7, SMT DEF b, c, d, e

\* The width of the first character, by the bytes there.
LEMMA FirstWidth ==
    ASSUME NEW s \in Seq(Byte), 0 < Len(s)
    PROVE  /\ DecodeWidth(s, 0) = 2 <=>
                /\ 2 <= Len(s) /\ SequenceSize(s[1]) = 2 /\ s[2] \in AcceptRange(s[1])
           /\ DecodeWidth(s, 0) = 3 <=>
                /\ 3 <= Len(s) /\ SequenceSize(s[1]) = 3 /\ s[2] \in AcceptRange(s[1])
                /\ s[3] \in Continuation
           /\ DecodeWidth(s, 0) = 4 <=>
                /\ 4 <= Len(s) /\ SequenceSize(s[1]) = 4 /\ s[2] \in AcceptRange(s[1])
                /\ s[3] \in Continuation /\ s[4] \in Continuation
<1> DEFINE size == SequenceSize(s[1])
           second == s[2] \in AcceptRange(s[1])
           third == s[3] \in Continuation
           fourth == s[4] \in Continuation
<1>1. s[1] \in Byte
    BY SMT
<1>2. size \in 1 .. 4
    BY <1>1, SequenceSizeOfByte
<1>3. Len(s) \in Nat /\ 0 + 1 = 1 /\ 0 + 2 = 2 /\ 0 + 3 = 3 /\ 0 + 4 = 4
    BY LenProperties
<1>4. IsMultibyte(s, 0) <=> /\ size > 1 /\ size <= Len(s) /\ second
                            /\ size > 2 => third
                            /\ size > 3 => fourth
    <2>1. 0 + size = size
        BY <1>2
    <2> QED
        BY <1>3, <2>1 DEF IsMultibyte
<1>5. DecodeWidth(s, 0) = IF IsMultibyte(s, 0) THEN size ELSE 1
    BY <1>3 DEF DecodeWidth
<1> HIDE DEF size, second, third, fourth
<1>6. /\ DecodeWidth(s, 0) = 2 <=> 2 <= Len(s) /\ size = 2 /\ second
      /\ DecodeWidth(s, 0) = 3 <=> 3 <= Len(s) /\ size = 3 /\ second /\ third
      /\ DecodeWidth(s, 0) = 4 <=> 4 <= Len(s) /\ size = 4 /\ second /\ third /\ fourth
    BY <1>2, <1>3, <1>4, <1>5
<1> QED
    BY <1>6 DEF size, second, third, fourth

\* The value of the first character, as the bit patterns give it.
LEMMA FirstValue ==
    ASSUME NEW s \in Seq(Byte), 0 < Len(s), NEW n \in 2 .. 4, DecodeWidth(s, 0) = n
    PROVE  DecodeValue(s, 0) = Assembled(n, s)
<1> DEFINE b == s[1]
           c == s[2]
           d == s[3]
           e == s[4]
           x == b % 32
           y == b % 8
<1>1. IsMultibyte(s, 0)
    <2>1. n # 1
        BY SMT
    <2> QED
        BY <2>1 DEF DecodeWidth
<1>2. /\ b \in Byte /\ n = SequenceSize(b)
      /\ c \in AcceptRange(b)
      /\ n > 2 => d \in Continuation
      /\ n > 3 => e \in Continuation
      /\ n = 2 => DecodeValue(s, 0) = Six(x, c)
      /\ n = 3 => DecodeValue(s, 0) = Six(Six(x, c), d)
      /\ n = 4 => DecodeValue(s, 0) = Six(Six(Six(y, c), d), e)
    <2>1. 0 \in Nat /\ 0 + 1 = 1 /\ 0 + 2 = 2 /\ 0 + 3 = 3 /\ 0 + 4 = 4
        OBVIOUS
    <2> QED
        BY <1>1, <2>1, SequenceParts
<1>3. c \in Continuation
    BY <1>2, AcceptRangeOfByte
<1>4. /\ n = 2 => b \in 194 .. 223 /\ x = b - 192
      /\ n = 3 => b \in 224 .. 239 /\ x = b - 224
      /\ n = 4 => b \in 240 .. 244 /\ y = b - 240
    BY <1>2, LeadBits
<1>5. /\ n = 2 => Assembled(n, s) = (b - 192) * 64 + (c - 128)
      /\ n = 3 => Assembled(n, s) = (b - 224) * 4096 + (c - 128) * 64 + (d - 128)
      /\ n = 4 => Assembled(n, s) = (b - 240) * 262144 + (c - 128) * 4096
                                      + (d - 128) * 64 + (e - 128)
    BY SMT DEF Assembled
<1>6. \A k \in Continuation : k \in Int /\ k >= 128
    BY SMT DEF Continuation
<1>7. x \in Nat /\ y \in Nat
    <2>1. \A k \in Byte : k % 32 \in Nat /\ k % 8 \in Nat
        BY SMT DEF Byte
    <2> QED
        BY <1>2, <2>1
<1> HIDE DEF b, c, d, e, x, y
<1>8. ASSUME n = 2 PROVE DecodeValue(s, 0) = Assembled(n, s)
    <2>1. Six(x, c) = x * 64 + (c - \h80)
        BY <1>3, <1>7, SixSplits
    <2> QED
        BY <1>2, <1>4, <1>5, <1>8, <2>1, SMT
<1>9. ASSUME n = 3 PROVE DecodeValue(s, 0) = Assembled(n, s)
    <2> DEFINE u == Six(x, c)
    <2>1. x \in Nat /\ d \in Continuation /\ x = b - 224 /\ b \in Int
        BY <1>2, <1>4, <1>9, SMT
    <2>2. u = x * 64 + (c - \h80) /\ u \in Nat
        <3>1. u = x * 64 + (c - \h80)
            BY <1>3, <2>1, SixSplits
        <3>2. u \in Nat
            BY <1>3, <2>1, SixNat
        <3> QED
            BY <3>1, <3>2
    <2> HIDE DEF u
    <2>3. Six(u, d) = u * 64 + (d - \h80)
        BY <2>1, <2>2, SixSplits
    <2>4. c \in Int /\ d \in Int
        BY <1>3, <1>6, <2>1
    <2>5. DecodeValue(s, 0) = Six(u, d)
        BY <1>2, <1>9 DEF u
    <2>6. Assembled(n, s) = x * 4096 + (c - 128) * 64 + (d - 128)
        BY <1>5, <1>9, <2>1, SMT
    <2>7. x * 4096 + (c - 128) * 64 + (d - 128) = (x * 64 + (c - 128)) * 64 + (d - 128)
        BY <2>1, <2>4, SMT
    <2> QED
        BY <2>2, <2>3, <2>5, <2>6, <2>7, SMT
<1>10. ASSUME n = 4 PROVE DecodeValue(s, 0) = Assembled(n, s)
    <2> DEFINE t == Six(y, c)
               u == Six(t, d)
    <2>1. y \in Nat /\ d \in Continuation /\ e \in Continuation /\ y = b - 240 /\ b \in Int
        BY <1>2, <1>4, <1>10, SMT
    <2>2. t = y * 64 + (c - \h80) /\ t \in Nat
        <3>1. t = y * 64 + (c - \h80)
            BY <1>3, <2>1, SixSplits
        <3>2. t \in Nat
            BY <1>3, <2>1, SixNat
        <3> QED
            BY <3>1, <3>2
    <2> HIDE DEF t
    <2>3. u = t * 64 + (d - \h80) /\ u \in Nat
        BY <2>1, <2>2, SixSplits, SixNat
    <2> HIDE DEF u
    <2>4. Six(u, e) = u * 64 + (e - \h80)
        BY <2>1, <2>3, SixSplits
    <2>5. c \in Int /\ d \in Int /\ e \in Int
        BY <1>3, <1>6, <2>1
    <2>6. DecodeValue(s, 0) = Six(u, e)
        BY <1>2, <1>10, SMT DEF t, u
    <2>7. Assembled(n, s) = y * 262144 + (c - 128) * 4096 + (d - 128) * 64 + (e - 128)
        BY <1>5, <1>10, <2>1, SMT
    <2>8. y * 262144 + (c - 128) * 4096 + (d - 128) * 64 + (e - 128)
            = ((y * 64 + (c - 128)) * 64 + (d - 128)) * 64 + (e - 128)
        BY <2>1, <2>5, SMT
    <2> QED
        BY <2>2, <2>3, <2>4, <2>6, <2>7, <2>8, SMT
<1>11. n = 2 \/ n = 3 \/ n = 4
    BY SMT
<1> QED
    BY <1>8, <1>9, <1>10, <1>11, SMT

\* decode accepts exactly the shortest forms of code points that are no
\* surrogates, whatever the text, and yields the code point.
THEOREM Utf8DecodesWellFormed == Spec => []DecodesWellFormed
<1>1. TextOK => DecodesWellFormed
    <2> SUFFICES ASSUME TextOK, NEW n \in 2 .. 4
                 PROVE  /\ DecodeWidth(text, 0) = n <=> WellFormed(n, text)
                        /\ WellFormed(n, text) => DecodeValue(text, 0) = Assembled(n, text)
        BY DEF DecodesWellFormed
    <2>1. text \in Seq(Byte) /\ Len(text) \in Nat /\ 0 < Len(text)
        BY DEF TextOK
    <2>2. n <= Len(text) => (DecodeWidth(text, 0) = n <=> WellFormed(n, text))
        <3>1. n = 2 \/ n = 3 \/ n = 4
            BY SMT
        <3>2. ASSUME n = 2, n <= Len(text)
              PROVE  DecodeWidth(text, 0) = n <=> WellFormed(n, text)
            BY <2>1, <3>2, FirstWidth, WellFormedTwo
        <3>3. ASSUME n = 3, n <= Len(text)
              PROVE  DecodeWidth(text, 0) = n <=> WellFormed(n, text)
            BY <2>1, <3>3, FirstWidth, WellFormedThree
        <3>4. ASSUME n = 4, n <= Len(text)
              PROVE  DecodeWidth(text, 0) = n <=> WellFormed(n, text)
            BY <2>1, <3>4, FirstWidth, WellFormedFour
        <3> QED
            BY <3>1, <3>2, <3>3, <3>4
    <2>3. DecodeWidth(text, 0) = n => n <= Len(text)
        <3>1. 0 \in Nat /\ 0 + DecodeWidth(text, 0) <= Len(text)
            BY <2>1, DecodeWidthBounds
        <3> QED
            BY <2>1, <3>1, SMT
    <2>4. WellFormed(n, text) => n <= Len(text)
        <3>1. WellFormed(n, text) => Pattern(n, text)
            BY SMT DEF WellFormed
        <3>2. Pattern(n, text) => Len(text) >= n
            BY DEF Pattern
        <3> QED
            BY <2>1, <3>1, <3>2
    <2>5. DecodeWidth(text, 0) = n => DecodeValue(text, 0) = Assembled(n, text)
        BY <2>1, FirstValue
    <2> QED
        BY <2>2, <2>3, <2>4, <2>5
<1> QED
    BY <1>1, TextInvariant, PTL

\* What decode accepts, encode writes back byte for byte, in every text.
THEOREM Utf8EncodeInvertsDecode == Spec => []EncodeInvertsDecode
<1>1. TextOK => EncodeInvertsDecode
    <2> SUFFICES ASSUME TextOK
                 PROVE  EncodeInvertsDecode
        OBVIOUS
    <2> DEFINE w == DecodeWidth(text, 0)
    <2>1. text \in Seq(Byte) /\ Len(text) \in Nat /\ 0 < Len(text)
        BY DEF TextOK
    <2>2. w \in 1 .. 4 /\ 0 \in Nat /\ 0 + 1 = 1
        BY <2>1, DecodeWidthBounds
    <2>3. 0 + w = w
        BY <2>2
    <2>4. w > 1 \/ text[1] < 128 => encode(DecodeValue(text, 0)) = SubSeq(text, 1, w)
        BY <2>1, <2>2, <2>3, EncodeUndoesDecode
    <2> QED
        BY <2>4 DEF EncodeInvertsDecode
<1> QED
    BY <1>1, TextInvariant, PTL

\* The two families of character classes agree on every ASCII byte.
THEOREM Utf8ClassesAgree == Spec => []ClassesAgree
<1> DEFINE Word(b) == b \in 97 .. 122 \/ b \in 65 .. 90 \/ b \in 48 .. 57 \/ b = 95
<1>1. ASSUME NEW b \in 0 .. 127
      PROVE  /\ isIdentChar(b) <=> is_alnum(b) \/ b = 36
             /\ isDigit(b) => is_xdigit(b) /\ is_digit(b)
             /\ ~ (is_space(b) /\ isIdentChar(b))
    <2>1. isIdentChar(b) <=> Word(b) \/ b = 36
        <3>1. ~ isIdentExtend(b)
            <4>1. isIdentExtend(b) => b >= 128
                BY SMT DEF isIdentExtend
            <4>2. ~ (b >= 128)
                BY SMT
            <4> QED
                BY <4>1, <4>2
        <3>2. isLetter(b) \/ isDigit(b) \/ b = 95 <=> Word(b)
            BY SMT DEF isLetter, isDigit
        <3> HIDE DEF Word
        <3> QED
            BY <3>1, <3>2 DEF isIdentChar
    <2>2. is_alnum(b) <=> Word(b)
        BY SMT DEF is_alnum, is_alpha, is_digit, CategoryL, CategoryND
    <2>3. isDigit(b) => is_xdigit(b) /\ is_digit(b)
        BY SMT DEF isDigit, is_xdigit, is_digit
    <2>4. is_space(b) => b \in 9 .. 13 \/ b = 32
        BY SMT DEF is_space, CategoryMC, CategoryZS
    <2>5. b \in 9 .. 13 \/ b = 32 => ~ (Word(b) \/ b = 36)
        BY SMT
    <2> HIDE DEF Word
    <2> QED
        BY <2>1, <2>2, <2>3, <2>4, <2>5
<1>2. TextOK => ClassesAgree
    <2> SUFFICES ASSUME TextOK, NEW k \in DOMAIN text, text[k] < 128
                 PROVE  text[k] \in 0 .. 127
        BY <1>1 DEF ClassesAgree
    <2>1. text[k] \in Byte
        BY DEF TextOK
    <2>2. \A b \in Byte : b < 128 => b \in 0 .. 127
        BY SMT DEF Byte
    <2> QED
        BY <2>1, <2>2
<1> QED
    BY <1>2, TextInvariant, PTL

-----------------------------------------------------------------------------
(* What utf8::strlen counts. *)

\* The starts from an offset on are that offset and those from the next on.
LEMMA StartsEquation ==
    ASSUME NEW s \in Seq(Byte)
    PROVE  \A i \in 0 .. Len(s) :
               /\ StartsFrom(s, i) \in Seq(Nat)
               /\ StartsFrom(s, i) = IF i = Len(s) THEN << >>
                                     ELSE << i >> \o StartsFrom(s, i + DecodeWidth(s, i))
<1> DEFINE D == 0 .. Len(s)
           V == Seq(Nat)
           rank == [i \in D |-> Len(s) - i]
           onward == [i \in D |-> IF i = Len(s) THEN i ELSE i + DecodeWidth(s, i)]
           Stop == {Len(s)}
           base == [i \in D |-> << >>]
           step == [i \in D |-> [t \in V |-> << i >> \o t]]
<1>1. Len(s) \in Nat
    BY LenProperties
<1>2. \A i \in D : i # Len(s) => /\ DecodeWidth(s, i) \in 1 .. 4
                                 /\ i + DecodeWidth(s, i) \in D
    BY <1>1, DecodeWidthBounds
<1>3. Descends(D, rank, Len(s), Stop, onward)
    <2>1. rank \in [D -> Nat] /\ \A i \in D : rank[i] <= Len(s)
        BY <1>1
    <2>2. onward \in [D -> D]
        BY <1>1, <1>2
    <2>3. \A i \in D : i \notin Stop => rank[onward[i]] < rank[i]
        <3> SUFFICES ASSUME NEW i \in D, i \notin Stop
                     PROVE  rank[onward[i]] < rank[i]
            OBVIOUS
        <3> DEFINE j == i + DecodeWidth(s, i)
        <3>1. onward[i] = j /\ i < j /\ j \in D /\ i \in Nat
            BY <1>1, <1>2
        <3> HIDE DEF j
        <3>2. rank[j] = Len(s) - j /\ rank[i] = Len(s) - i
            BY <3>1
        <3>3. j \in Nat
            BY <1>1, <3>1
        <3>4. Len(s) - j < Len(s) - i
            BY <1>1, <3>1, <3>3
        <3> QED
            BY <3>1, <3>2, <3>4
    <2> QED
        BY <2>1, <2>2, <2>3 DEF Descends
<1>4. base \in [D -> V] /\ step \in [D -> [V -> V]]
    <2>1. << >> \in V
        OBVIOUS
    <2>2. \A i \in D : \A t \in V : << i >> \o t \in V
        <3> SUFFICES ASSUME NEW i \in D, NEW t \in V
                     PROVE  << i >> \o t \in V
            OBVIOUS
        <3>1. << i >> \in Seq(Nat)
            BY <1>1
        <3> QED
            BY <3>1, ConcatProperties
    <2> HIDE DEF D, V
    <2> QED
        BY <2>1, <2>2
<1>5. PICK f \in [D -> V] : Recurses(f, D, Stop, onward, base, step)
    <2> DEFINE n == Len(s)
    <2>1. n \in Nat /\ Descends(D, rank, n, Stop, onward)
        BY <1>1, <1>3
    <2> HIDE DEF D, V, rank, onward, Stop, base, step, n
    <2> QED
        BY <1>4, <2>1, Recursion
<1>6. f = [i \in D |-> IF i = Len(s) THEN << >> ELSE << i >> \o f[i + DecodeWidth(s, i)]]
    <2>1. \A i \in D : f[i] = IF i = Len(s) THEN << >> ELSE << i >> \o f[i + DecodeWidth(s, i)]
        <3> SUFFICES ASSUME NEW i \in D
                     PROVE  f[i] = IF i = Len(s) THEN << >>
                                   ELSE << i >> \o f[i + DecodeWidth(s, i)]
            OBVIOUS
        <3>1. f[i] = IF i \in Stop THEN base[i] ELSE step[i][f[onward[i]]]
            BY <1>5 DEF Recurses
        <3>2. base[i] = << >> /\ (i \in Stop <=> i = Len(s))
            OBVIOUS
        <3>3. ASSUME i # Len(s)
              PROVE  step[i][f[onward[i]]] = << i >> \o f[i + DecodeWidth(s, i)]
            <4> DEFINE j == i + DecodeWidth(s, i)
            <4>1. onward[i] = j /\ j \in D
                BY <1>2, <3>3
            <4> HIDE DEF D, V, j
            <4>2. f[j] \in V
                BY <4>1
            <4>3. step[i] = [t \in V |-> << i >> \o t]
                OBVIOUS
            <4> HIDE DEF step, onward
            <4> QED
                BY <4>1, <4>2, <4>3 DEF j
        <3> HIDE DEF D, V, Stop, base, step, onward
        <3> QED
            BY <3>1, <3>2, <3>3
    <2> HIDE DEF D, V
    <2> QED
        BY <2>1
<1> DEFINE Equation(from) ==
        from = [i \in D |-> IF i = Len(s) THEN << >> ELSE << i >> \o from[i + DecodeWidth(s, i)]]
           g == CHOOSE from : Equation(from)
<1>7. Equation(g)
    BY <1>6
<1>8. \A i : StartsFrom(s, i) = g[i]
    BY DEF StartsFrom
<1>9. g = [i \in D |-> IF i = Len(s) THEN << >> ELSE << i >> \o g[i + DecodeWidth(s, i)]]
    BY <1>7
<1> HIDE DEF g
<1>10. \A i \in D : g[i] = IF i = Len(s) THEN << >> ELSE << i >> \o g[i + DecodeWidth(s, i)]
    BY <1>9
<1>11. \A i \in D : g[i] \in Seq(Nat)
    <2> DEFINE T == {i \in D : g[i] \in Seq(Nat)}
    <2>1. ASSUME NEW i \in D, \A j \in D : i < j => j \in T
          PROVE  i \in T
        <3>1. CASE i = Len(s)
            <4>1. g[i] = << >>
                BY <1>10, <3>1
            <4>2. << >> \in Seq(Nat)
                OBVIOUS
            <4> QED
                BY <4>1, <4>2
        <3>2. CASE i # Len(s)
            <4> DEFINE j == i + DecodeWidth(s, i)
                       w == DecodeWidth(s, i)
            <4>1. j \in D /\ i < j /\ i \in Nat
                <5>1. w \in 1 .. 4 /\ j \in D
                    BY <1>2, <3>2
                <5>2. i \in Nat
                    BY <1>1
                <5> HIDE DEF w, T
                <5> QED
                    BY <5>1, <5>2 DEF w
            <4>2. g[j] \in Seq(Nat) /\ << i >> \in Seq(Nat)
                BY <2>1, <4>1
            <4>3. g[i] = << i >> \o g[j]
                BY <1>10, <3>2
            <4> HIDE DEF j, D
            <4>4. g[i] \in Seq(Nat)
                BY <4>2, <4>3, ConcatProperties
            <4> QED
                BY <4>4
        <3> QED
            BY <3>1, <3>2
    <2> HIDE DEF T
    <2>2. D \subseteq T
        BY <1>1, <2>1, FromTheEnd
    <2> QED
        BY <2>2 DEF T
<1> QED
    BY <1>8, <1>10, <1>11

\* Where strlen stops, with what, and how it steps otherwise.
StrlenStops(s, i) ==
    \/ i = Len(s) \/ s[i + 1] = 0
    \/ LeadSize(s[i + 1]) = 0
    \/ i + LeadSize(s[i + 1]) > Len(s)

StrlenStopped(s, i) ==
    IF i = Len(s) \/ s[i + 1] = 0 THEN 0
    ELSE IF LeadSize(s[i + 1]) = 0 THEN -1 ELSE StrlenOverruns

\* The step behind a byte goes forward.
LEMMA LeadSizeBounds ==
    ASSUME NEW b \in Byte
    PROVE  LeadSize(b) \in 0 .. 4
BY SMT DEF LeadSize, Byte

\* len counts from an offset on as strlen does from the start.
Counts(s, len) ==
    /\ strlen(s) = len[0]
    /\ \A i \in 0 .. Len(s) :
           len[i] = IF StrlenStops(s, i) THEN StrlenStopped(s, i)
                    ELSE LET rest == len[i + LeadSize(s[i + 1])]
                         IN  IF rest < 0 THEN rest ELSE rest + 1

\* Such a count exists.
LEMMA StrlenEquation ==
    ASSUME NEW s \in Seq(Byte)
    PROVE  \E len : Counts(s, len)
<1> DEFINE D == 0 .. Len(s)
           V == Int
           n(i) == LeadSize(s[i + 1])
           rank == [i \in D |-> Len(s) - i]
           Stop == {i \in D : StrlenStops(s, i)}
           onward == [i \in D |-> IF i \in Stop THEN i ELSE i + n(i)]
           base == [i \in D |-> StrlenStopped(s, i)]
           up == [x \in V |-> IF x < 0 THEN x ELSE x + 1]
           step == [i \in D |-> up]
<1>1. Len(s) \in Nat
    BY LenProperties
<1>2. \A i \in D : i \notin Stop => /\ n(i) \in 1 .. 4
                                    /\ i + n(i) \in D
    <2> SUFFICES ASSUME NEW i \in D, i \notin Stop
                 PROVE  n(i) \in 1 .. 4 /\ i + n(i) \in D
        OBVIOUS
    <2>1. ~ StrlenStops(s, i)
        OBVIOUS
    <2>2. i # Len(s) /\ n(i) # 0 /\ ~ (i + n(i) > Len(s))
        BY <2>1 DEF StrlenStops
    <2>3. i \in Nat /\ i < Len(s)
        BY <1>1, <2>2
    <2>4. s[i + 1] \in Byte
        BY <2>3, ByteAt
    <2>5. n(i) \in 0 .. 4
        BY <2>4, LeadSizeBounds
    <2> HIDE DEF n
    <2> QED
        BY <1>1, <2>2, <2>3, <2>5
<1>3. Descends(D, rank, Len(s), Stop, onward)
    <2>1. rank \in [D -> Nat] /\ \A i \in D : rank[i] <= Len(s)
        BY <1>1
    <2>2. onward \in [D -> D]
        <3> HIDE DEF Stop, n, D
        <3> QED
            BY <1>2
    <2>3. \A i \in D : i \notin Stop => rank[onward[i]] < rank[i]
        <3> SUFFICES ASSUME NEW i \in D, i \notin Stop
                     PROVE  rank[onward[i]] < rank[i]
            OBVIOUS
        <3> DEFINE j == i + n(i)
        <3> HIDE DEF Stop, n
        <3>1. i \in Nat /\ n(i) \in 1 .. 4
            BY <1>1, <1>2
        <3>2. onward[i] = j /\ i < j /\ j \in D
            BY <1>2, <3>1
        <3> HIDE DEF j
        <3>3. rank[j] = Len(s) - j /\ rank[i] = Len(s) - i
            BY <3>2
        <3>4. j \in Nat
            BY <1>1, <3>2
        <3>5. Len(s) - j < Len(s) - i
            BY <1>1, <3>1, <3>2, <3>4
        <3> QED
            BY <3>2, <3>3, <3>5
    <2> QED
        BY <2>1, <2>2, <2>3 DEF Descends
<1>4. base \in [D -> V] /\ step \in [D -> [V -> V]]
    <2>1. \A i \in D : StrlenStopped(s, i) \in V
        BY DEF StrlenStopped, StrlenOverruns
    <2>2. up \in [V -> V]
        OBVIOUS
    <2> HIDE DEF D, V, up
    <2> QED
        BY <2>1, <2>2
<1>5. PICK f \in [D -> V] : Recurses(f, D, Stop, onward, base, step)
    <2> DEFINE m == Len(s)
    <2>1. m \in Nat /\ Descends(D, rank, m, Stop, onward)
        BY <1>1, <1>3
    <2> HIDE DEF D, V, rank, onward, Stop, base, step, m
    <2> QED
        BY <1>4, <2>1, Recursion
<1> DEFINE Body(len, i) ==
        IF i = Len(s) \/ s[i + 1] = 0 THEN 0
        ELSE LET k == LeadSize(s[i + 1])
                 rest == IF i + k > Len(s) THEN StrlenOverruns ELSE len[i + k]
             IN  IF k = 0 THEN -1 ELSE IF rest < 0 THEN rest ELSE rest + 1
<1>6. ASSUME NEW len, NEW i
      PROVE  Body(len, i) = IF StrlenStops(s, i) THEN StrlenStopped(s, i)
                            ELSE LET rest == len[i + LeadSize(s[i + 1])]
                                 IN  IF rest < 0 THEN rest ELSE rest + 1
    <2>1. StrlenOverruns < 0
        BY DEF StrlenOverruns
    <2> QED
        BY <2>1 DEF StrlenStops, StrlenStopped
<1>7. f = [i \in D |-> Body(f, i)]
    <2>1. \A i \in D : f[i] = Body(f, i)
        <3> SUFFICES ASSUME NEW i \in D
                     PROVE  f[i] = Body(f, i)
            OBVIOUS
        <3>1. f[i] = IF i \in Stop THEN base[i] ELSE step[i][f[onward[i]]]
            BY <1>5 DEF Recurses
        <3>2. base[i] = StrlenStopped(s, i) /\ (i \in Stop <=> StrlenStops(s, i))
            OBVIOUS
        <3>3. ASSUME i \notin Stop
              PROVE  step[i][f[onward[i]]] = LET rest == f[i + LeadSize(s[i + 1])]
                                             IN  IF rest < 0 THEN rest ELSE rest + 1
            <4> DEFINE j == i + n(i)
            <4>1. onward[i] = j /\ j \in D
                BY <1>2, <3>3
            <4> HIDE DEF D, j
            <4>2. f[j] \in V
                BY <4>1
            <4>3. step[i] = up
                OBVIOUS
            <4>4. up[f[j]] = IF f[j] < 0 THEN f[j] ELSE f[j] + 1
                BY <4>2
            <4> HIDE DEF step, onward, up
            <4> QED
                BY <4>1, <4>3, <4>4 DEF j
        <3> HIDE DEF D, V, Stop, base, step, onward, Body
        <3> QED
            BY <1>6, <3>1, <3>2, <3>3
    <2> HIDE DEF D, V, Body
    <2> QED
        BY <2>1
<1> DEFINE Equation(len) == len = [i \in D |-> Body(len, i)]
           g == CHOOSE len : Equation(len)
<1>8. Equation(g)
    BY <1>7
<1>9. strlen(s) = g[0]
    BY DEF strlen
<1> HIDE DEF g
<1>10. \A i \in D : g[i] = Body(g, i)
    <2> HIDE DEF Body
    <2>1. g = [i \in D |-> Body(g, i)]
        BY <1>8
    <2> QED
        BY <2>1
<1>11. \A i \in D : g[i] = IF StrlenStops(s, i) THEN StrlenStopped(s, i)
                          ELSE LET rest == g[i + LeadSize(s[i + 1])]
                               IN  IF rest < 0 THEN rest ELSE rest + 1
    <2> HIDE DEF Body
    <2> QED
        BY <1>6, <1>10
<1> QED
    BY <1>9, <1>11 DEF Counts

\* strlen and decode agree on the length behind a byte that leads a sequence.
LEMMA LeadSizes ==
    ASSUME NEW b \in Byte
    PROVE  /\ b \in 1 .. 127 => b # 0 /\ LeadSize(b) = 1
           /\ SequenceSize(b) \in 2 .. 4 => b # 0 /\ LeadSize(b) = SequenceSize(b)
<1>1. b \in 1 .. 127 => b # 0 /\ LeadSize(b) = 1
    BY SMT DEF LeadSize, Byte
<1>2. b \in 194 .. 223 => b # 0 /\ LeadSize(b) = 2
    BY SMT DEF LeadSize, Byte
<1>3. b \in 224 .. 239 => b # 0 /\ LeadSize(b) = 3
    BY SMT DEF LeadSize, Byte
<1>4. b \in 240 .. 244 => b # 0 /\ LeadSize(b) = 4
    BY SMT DEF LeadSize, Byte
<1> DEFINE n == SequenceSize(b)
<1>5. /\ n = 2 => b # 0 /\ LeadSize(b) = 2
      /\ n = 3 => b # 0 /\ LeadSize(b) = 3
      /\ n = 4 => b # 0 /\ LeadSize(b) = 4
    BY <1>2, <1>3, <1>4, LeadBits
<1> HIDE DEF n
<1>6. n \in 2 .. 4 => n = 2 \/ n = 3 \/ n = 4
    BY SMT
<1>7. n \in 2 .. 4 => b # 0 /\ LeadSize(b) = n
    BY <1>5, <1>6
<1> QED
    BY <1>1, <1>7 DEF n

\* On a whole character strlen steps by its width.
LEMMA WholeSteps ==
    ASSUME NEW s \in Seq(Byte), NEW i \in Nat, i < Len(s), Whole(s, i)
    PROVE  s[i + 1] # 0 /\ LeadSize(s[i + 1]) = DecodeWidth(s, i)
<1> DEFINE b == s[i + 1]
<1>1. b \in Byte
    BY ByteAt
<1>2. CASE DecodeWidth(s, i) > 1
    <2>1. IsMultibyte(s, i)
        BY <1>2 DEF DecodeWidth
    <2>2. DecodeWidth(s, i) = SequenceSize(b) /\ SequenceSize(b) \in 2 .. 4
        BY <2>1, SequenceParts
    <2> HIDE DEF b
    <2>3. b # 0 /\ LeadSize(b) = SequenceSize(b)
        BY <1>1, <2>2, LeadSizes
    <2> QED
        BY <2>2, <2>3 DEF b
<1>3. CASE ~ (DecodeWidth(s, i) > 1)
    <2>1. b \in 1 .. 127
        BY <1>3 DEF Whole
    <2>2. DecodeWidth(s, i) = 1
        BY <1>3, DecodeWidthBounds
    <2> HIDE DEF b
    <2>3. b # 0 /\ LeadSize(b) = 1
        BY <1>1, <2>1, LeadSizes
    <2> QED
        BY <2>2, <2>3 DEF b
<1> QED
    BY <1>2, <1>3

\* strlen counts the characters of every text made of whole ones.
LEMMA StrlenIsLength ==
    ASSUME NEW s \in Seq(Byte), \A k \in DOMAIN StartsFrom(s, 0) : Whole(s, StartsFrom(s, 0)[k])
    PROVE  strlen(s) = Len(StartsFrom(s, 0))
<1> DEFINE D == 0 .. Len(s)
           St(i) == StartsFrom(s, i)
           AllWhole(i) == \A k \in DOMAIN St(i) : Whole(s, St(i)[k])
<1>1. Len(s) \in Nat
    BY LenProperties
<1>2. PICK len : Counts(s, len)
    BY StrlenEquation
<1>3. strlen(s) = len[0]
    BY <1>2 DEF Counts
<1>4. \A i \in D : len[i] = IF StrlenStops(s, i) THEN StrlenStopped(s, i)
                            ELSE LET rest == len[i + LeadSize(s[i + 1])]
                                 IN  IF rest < 0 THEN rest ELSE rest + 1
    BY <1>2 DEF Counts
<1> DEFINE T == {i \in D : AllWhole(i) => len[i] = Len(St(i))}
<1>5. ASSUME NEW i \in D, \A j \in D : i < j => j \in T
      PROVE  i \in T
    <2> SUFFICES ASSUME AllWhole(i)
                 PROVE  len[i] = Len(St(i))
        OBVIOUS
    <2>1. CASE i = Len(s)
        <3>1. St(i) = << >>
            BY <2>1, StartsEquation
        <3>2. len[i] = 0
            BY <1>4, <2>1 DEF StrlenStops, StrlenStopped
        <3> HIDE DEF St
        <3> QED
            BY <3>1, <3>2
    <2>2. CASE i # Len(s)
        <3> DEFINE w == DecodeWidth(s, i)
                   j == i + w
                   t == St(j)
                   n == Len(t)
        <3>1. i \in Nat /\ i < Len(s)
            BY <1>1, <2>2
        <3>2. w \in 1 .. 4 /\ j <= Len(s)
            BY <3>1, DecodeWidthBounds
        <3>3. j \in D /\ i < j /\ 0 < w
            <4> HIDE DEF w
            <4> QED
                BY <1>1, <3>1, <3>2
        <3>4. St(i) = << i >> \o t /\ t \in Seq(Nat) /\ n \in Nat
            BY <2>2, <3>3, StartsEquation, LenProperties
        <3>5. /\ Len(St(i)) = n + 1 /\ DOMAIN St(i) = 1 .. n + 1
              /\ St(i)[1] = i /\ DOMAIN t = 1 .. n
              /\ \A k \in 1 .. n : St(i)[k + 1] = t[k]
            <4> DEFINE u == << i >> \o t
            <4>1. << i >> \in Seq(Nat) /\ Len(<< i >>) = 1 /\ << i >>[1] = i
                BY <3>1
            <4>2. /\ u \in Seq(Nat) /\ Len(u) = 1 + n
                  /\ \A k \in 1 .. 1 + n : u[k] = IF k <= 1 THEN << i >>[k] ELSE t[k - 1]
                <5> HIDE DEF t
                <5> QED
                    BY <3>4, <4>1, ConcatProperties
            <4>3. DOMAIN u = 1 .. 1 + n /\ DOMAIN t = 1 .. n
                BY <3>4, <4>2, LenProperties
            <4>4. u[1] = i
                BY <3>4, <4>1, <4>2
            <4>5. \A k \in 1 .. n : u[k + 1] = t[k]
                <5> SUFFICES ASSUME NEW k \in 1 .. n
                             PROVE  u[k + 1] = t[k]
                    OBVIOUS
                <5>1. k + 1 \in 1 .. 1 + n /\ ~ (k + 1 <= 1) /\ (k + 1) - 1 = k
                    BY <3>4
                <5> HIDE DEF u, t, n
                <5> QED
                    BY <4>2, <5>1
            <4> HIDE DEF u, t, n
            <4>6. 1 + n = n + 1
                BY <3>4
            <4> QED
                BY <3>4, <4>2, <4>3, <4>4, <4>5, <4>6 DEF u
        <3>6. Whole(s, i)
            <4>1. 1 \in 1 .. n + 1
                BY <3>4
            <4> HIDE DEF St, n
            <4> QED
                BY <3>5, <4>1
        <3>7. s[i + 1] # 0 /\ LeadSize(s[i + 1]) = w
            BY <3>1, <3>6, WholeSteps
        <3>8. AllWhole(j)
            <4> SUFFICES ASSUME NEW k \in 1 .. n
                         PROVE  Whole(s, t[k])
                BY <3>5
            <4>1. k + 1 \in 1 .. n + 1
                BY <3>4
            <4>2. Whole(s, St(i)[k + 1])
                BY <3>5, <4>1
            <4> HIDE DEF St, t, n
            <4> QED
                BY <3>5, <4>2
        <3>9. len[j] = n
            <4>1. j \in T
                BY <1>5, <3>3
            <4> HIDE DEF j
            <4> QED
                BY <3>8, <4>1
        <3>10. ~ StrlenStops(s, i)
            <4>1. LeadSize(s[i + 1]) # 0 /\ ~ (i + LeadSize(s[i + 1]) > Len(s))
                <5> HIDE DEF w
                <5> QED
                    BY <1>1, <3>1, <3>2, <3>7
            <4> QED
                BY <2>2, <3>7, <4>1 DEF StrlenStops
        <3>11. len[i] = IF len[j] < 0 THEN len[j] ELSE len[j] + 1
            BY <1>4, <3>7, <3>10
        <3>12. ~ (n < 0)
            BY <3>4
        <3> HIDE DEF j, n, t, w, T, D
        <3> QED
            BY <3>5, <3>9, <3>11, <3>12
    <2> QED
        BY <2>1, <2>2
<1> HIDE DEF T
<1>6. D \subseteq T
    BY <1>1, <1>5, FromTheEnd
<1>7. 0 \in T
    BY <1>1, <1>6
<1> QED
    BY <1>3, <1>7 DEF T

\* utf8::strlen counts the characters of every text without NUL that decode
\* accepts whole, however long.
THEOREM Utf8StrlenCounts == Spec => []StrlenCounts
<1>1. TextOK => StrlenCounts
    BY StrlenIsLength DEF TextOK, StrlenCounts
<1> QED
    BY <1>1, TextInvariant, PTL
=============================================================================
