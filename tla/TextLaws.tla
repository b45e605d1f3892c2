------------------------------ MODULE TextLaws ------------------------------
(***************************************************************************)
(* What every proof about a text rests on: induction, facts about decode   *)
(* and encode for every string of bytes, and the invariant of a reader_t   *)
(* with the proof that every method preserves it.  That is stated of a     *)
(* reader value, so that the proofs about Reader (any client) and about    *)
(* Scanner (one client) rest on the same lemmas.                           *)
(***************************************************************************)
EXTENDS Utf8Reader, FiniteSetTheorems, SequenceTheorems, WellFoundedInduction, TLAPS

-----------------------------------------------------------------------------
(***************************************************************************)
(* Induction over the naturals, from the library's well-founded relations, *)
(* and what it says of the recursive functions the properties compare with.*)
(***************************************************************************)
\* A set of naturals that has an element has a least one.
LEMMA LeastElement ==
    ASSUME NEW T, T \subseteq Nat, T # {}
    PROVE  \E x \in T : \A y \in T : x <= y
<1> DEFINE less == OpToRel(<, Nat)
<1>1. \A x, y \in Nat : <<y, x>> \in less <=> y < x
    BY DEF OpToRel
<1>2. IsWellFoundedOn(less, Nat)
    BY NatLessThanWellFounded
<1> HIDE DEF less
<1>3. PICK x \in T : \A y \in T : ~ (<<y, x>> \in less)
    BY <1>2, WFMin
<1>4. ASSUME NEW y \in T
      PROVE  x <= y
    <2>1. x \in Nat /\ y \in Nat
        OBVIOUS
    <2>2. ~ (y < x)
        BY <1>1, <1>3, <2>1
    <2> QED
        BY <2>1, <2>2
<1> QED
    BY <1>4

\* Induction: a set that has 0, and with each number the next, has them all.
LEMMA Induction ==
    ASSUME NEW T, 0 \in T, \A n \in Nat : n \in T => n + 1 \in T
    PROVE  Nat \subseteq T
<1> DEFINE Out == {n \in Nat : n \notin T}
<1> SUFFICES ASSUME Out # {} PROVE FALSE
    OBVIOUS
<1>1. PICK x \in Out : \A y \in Out : x <= y
    BY LeastElement
<1>2. x # 0 /\ x - 1 \in Nat /\ x - 1 \notin Out
    BY <1>1
<1>3. x - 1 \in T /\ (x - 1) + 1 = x
    BY <1>1, <1>2
<1> QED
    BY <1>1, <1>2, <1>3

\* Induction from the end of a text: what holds of an offset because it holds of
\* those behind it holds of all.
LEMMA FromTheEnd ==
    ASSUME NEW N \in Nat, NEW T,
           \A i \in 0 .. N : (\A j \in 0 .. N : i < j => j \in T) => i \in T
    PROVE  0 .. N \subseteq T
<1> DEFINE Left == {n \in Nat : n <= N /\ N - n \notin T}
<1> SUFFICES ASSUME NEW k \in 0 .. N, k \notin T
             PROVE  FALSE
    OBVIOUS
<1>1. N - k \in Left
    OBVIOUS
<1>2. PICK x \in Left : \A y \in Left : x <= y
    BY <1>1, LeastElement
<1>3. N - x \in 0 .. N /\ N - x \notin T /\ x \in Nat
    BY <1>2
<1>4. ASSUME NEW j \in 0 .. N, N - x < j
      PROVE  j \in T
    <2>1. N - j \in Nat /\ N - j <= N /\ N - (N - j) = j /\ N - j < x
        BY <1>3, <1>4
    <2> QED
        BY <1>2, <1>3, <2>1
<1> QED
    BY <1>3, <1>4

\* Each step of the recursion goes to an argument of a smaller rank.
Descends(D, rank, bound, Stop, onward) ==
    /\ rank \in [D -> Nat]
    /\ \A x \in D : rank[x] <= bound
    /\ onward \in [D -> D]
    /\ \A x \in D : x \notin Stop => rank[onward[x]] < rank[x]

\* At an argument in Stop the value of f is given by base, elsewhere it comes
\* from the one at the argument onward[x].
Recurses(f, D, Stop, onward, base, step) ==
    \A x \in D : f[x] = IF x \in Stop THEN base[x] ELSE step[x][f[onward[x]]]

\* A function that is defined by recursion exists.
LEMMA Recursion ==
    ASSUME NEW D, NEW V, NEW rank, NEW bound \in Nat, NEW Stop, NEW onward,
           Descends(D, rank, bound, Stop, onward),
           NEW base \in [D -> V], NEW step \in [D -> [V -> V]]
    PROVE  \E f \in [D -> V] : Recurses(f, D, Stop, onward, base, step)
<1> DEFINE Value(f, x) == IF x \in Stop THEN base[x] ELSE step[x][f[onward[x]]]
           Upto(n) == \E f \in [D -> V] : \A x \in D : rank[x] < n => f[x] = Value(f, x)
           T == {n \in Nat : Upto(n)}
<1> USE DEF Descends
<1>1. 0 \in T
    <2>1. \A x \in D : ~ (rank[x] < 0)
        OBVIOUS
    <2> QED
        BY <2>1
<1>2. ASSUME NEW n \in Nat, n \in T
      PROVE  n + 1 \in T
    <2>1. PICK f \in [D -> V] : \A x \in D : rank[x] < n => f[x] = Value(f, x)
        BY <1>2
    <2> DEFINE g == [x \in D |-> Value(f, x)]
    <2>2. \A x \in D : Value(f, x) \in V
        OBVIOUS
    <2>3. g \in [D -> V] /\ \A x \in D : g[x] = Value(f, x)
        BY <2>2
    <2> HIDE DEF g
    <2>4. ASSUME NEW x \in D, rank[x] < n + 1, x \notin Stop
          PROVE  g[onward[x]] = f[onward[x]]
        <3>1. rank[onward[x]] < n /\ onward[x] \in D
            BY <2>4
        <3> QED
            BY <2>1, <2>3, <3>1
    <2>5. \A x \in D : rank[x] < n + 1 => g[x] = Value(g, x)
        BY <2>3, <2>4
    <2> QED
        BY <2>3, <2>5
<1>3. bound + 1 \in T
    BY <1>1, <1>2, Induction
<1>4. PICK f \in [D -> V] : \A x \in D : rank[x] < bound + 1 => f[x] = Value(f, x)
    BY <1>3
<1>5. \A x \in D : f[x] = Value(f, x)
    BY <1>4
<1> QED
    BY <1>5 DEF Recurses

-----------------------------------------------------------------------------
(* What the tables of decode accept. *)

\* The entry of a byte in s_utf8_first is a length from 1 to 4; only the bytes
\* C2 to F4 lead more than one, and F0 to F4 four.
LEMMA SequenceSizeOfByte ==
    ASSUME NEW b \in Byte
    PROVE  /\ SequenceSize(b) \in 1 .. 4
           /\ SequenceSize(b) > 1 => b \in \hC2 .. \hF4
           /\ SequenceSize(b) = 4 => b \in \hF0 .. \hF4
BY SMT DEF SequenceSize, Byte

\* Every accept range is a set of continuation bytes.
LEMMA AcceptRangeOfByte ==
    ASSUME NEW b \in Byte
    PROVE  AcceptRange(b) \subseteq Continuation
BY SMT DEF AcceptRange, Continuation

\* The byte at an offset inside the text.
LEMMA ByteAt ==
    ASSUME NEW s \in Seq(Byte), NEW i \in Nat, i < Len(s)
    PROVE  i + 1 \in DOMAIN s /\ s[i + 1] \in Byte
BY SMT

\* decode takes at least one byte and never reads past the end of the text
\* (rune.cc:245 returns before it looks at bytes that are not there).
LEMMA DecodeWidthBounds ==
    ASSUME NEW s \in Seq(Byte), NEW i \in Nat, i < Len(s)
    PROVE  /\ DecodeWidth(s, i) \in 1 .. 4
           /\ i + DecodeWidth(s, i) <= Len(s)
BY ByteAt, SequenceSizeOfByte, SMT DEF DecodeWidth, IsMultibyte

\* In a sequence that decode accepts the lead byte is above ASCII and every
\* byte after it is a continuation byte.
LEMMA SequenceBytes ==
    ASSUME NEW s \in Seq(Byte), NEW i \in Nat, i < Len(s), IsMultibyte(s, i)
    PROVE  /\ s[i + 1] \in \hC2 .. \hF4
           /\ DecodeWidth(s, i) \in 2 .. 4
           /\ \A k \in 2 .. DecodeWidth(s, i) : s[i + k] \in Continuation
<1> DEFINE size == SequenceSize(s[i + 1])
<1>1. s[i + 1] \in Byte
    BY ByteAt
<1>2. /\ size > 1
      /\ s[i + 2] \in AcceptRange(s[i + 1])
      /\ size > 2 => s[i + 3] \in Continuation
      /\ size > 3 => s[i + 4] \in Continuation
    BY DEF IsMultibyte
<1>3. s[i + 2] \in Continuation
    BY <1>1, <1>2, AcceptRangeOfByte
<1>4. size \in 2 .. 4 /\ s[i + 1] \in \hC2 .. \hF4
    BY <1>1, <1>2, SequenceSizeOfByte
<1>5. DecodeWidth(s, i) = size
    BY DEF DecodeWidth
<1> HIDE DEF size
<1>6. \A k \in 2 .. size : s[i + k] \in Continuation
    BY <1>2, <1>3, <1>4, SMT
<1> QED
    BY <1>4, <1>5, <1>6

\* A number that a rune can have.
CodePoint(x) == x \in Nat /\ x <= rune_max

\* The bits that the masks 0x1f and 0x07 leave of a byte.
LEMMA BitsOfByte ==
    ASSUME NEW b \in Byte
    PROVE  /\ CodePoint(b)
           /\ b % 32 \in 0 .. 31
           /\ b \in \hF0 .. \hF4 => b % 8 \in 0 .. 4 /\ (b % 8 <= 3 \/ b = \hF4)
<1>1. b \in 0 .. 255
    BY DEF Byte
<1>2. CodePoint(b)
    BY <1>1, SMT DEF CodePoint, rune_max
<1>3. b % 32 \in 0 .. 31
    BY <1>1, SMT
<1>4. b \in \hF0 .. \hF4 => b % 8 \in 0 .. 4 /\ (b % 8 <= 3 \/ b = \hF4)
    BY SMT
<1> QED
    BY <1>2, <1>3, <1>4

\* x is a number from 0 to n.
UpTo(n, x) == x \in Nat /\ x <= n

\* A byte after the lead adds six bits: the bounds of the value step by step.
LEMMA SixBounds ==
    ASSUME NEW v, NEW b \in Continuation
    PROVE  /\ UpTo(3, v) => UpTo(255, Six(v, b))
           /\ UpTo(31, v) => UpTo(2047, Six(v, b))
           /\ UpTo(271, v) => UpTo(17407, Six(v, b))
           /\ UpTo(2047, v) => UpTo(131071, Six(v, b))
           /\ UpTo(17407, v) => UpTo(1114111, Six(v, b))
<1>1. Low6(b) \in 0 .. 63
    BY SMT DEF Low6, Continuation
<1> QED
    BY <1>1, SMT DEF Six, UpTo

\* Six more bits on a natural number are a natural number.
LEMMA SixNat ==
    ASSUME NEW v \in Nat, NEW b \in Continuation
    PROVE  Six(v, b) \in Nat
BY SMT DEF Six, Low6, Continuation

\* Behind the lead byte F4 the second byte carries no more than 15.
LEMMA LastAcceptRange ==
    ASSUME NEW b \in AcceptRange(\hF4)
    PROVE  UpTo(271, Six(4, b))
<1>1. b \in \h80 .. \h8F
    BY SMT DEF AcceptRange
<1>2. Low6(b) <= 15 /\ Low6(b) \in 0 .. 63
    BY <1>1, SMT DEF Low6
<1> QED
    BY <1>2, SMT DEF Six, UpTo

\* The largest value of two, three and four bytes is a code point.
LEMMA CodePoints ==
    ASSUME NEW x
    PROVE  UpTo(2047, x) \/ UpTo(131071, x) \/ UpTo(1114111, x) => CodePoint(x)
BY SMT DEF UpTo, CodePoint, rune_max

\* rune_invalid and the runes from 0 to rune_max are runes, and so is EOF.
LEMMA RuneFacts ==
    /\ rune_max \in Nat
    /\ rune_invalid \in Rune
    /\ rune_eof \in Rune
    /\ \A x \in Nat : x <= rune_max => x \in Rune
<1>1. rune_max \in Nat /\ rune_invalid \in Nat /\ rune_invalid <= rune_max
    BY SMT DEF rune_max, rune_invalid
<1>2. \A x \in Nat : x <= rune_max => x \in Rune
    BY <1>1, SMT DEF Rune, rune_eof
<1>3. rune_eof \in Rune
    BY <1>1, SMT DEF Rune, rune_eof
<1> QED
    BY <1>1, <1>2, <1>3

\* The tables leave no overlong form: the bits of the first two bytes are not
\* all zero, and those of the lead byte of two are not either.
LEMMA NoOverlongForm ==
    ASSUME NEW b \in Byte, NEW c \in AcceptRange(b)
    PROVE  /\ SequenceSize(b) = 2 => b % 32 \in Nat /\ b % 32 >= 1
           /\ SequenceSize(b) = 3 => b % 32 \in Nat /\ Six(b % 32, c) >= 1
           /\ SequenceSize(b) = 4 => b % 8 \in Nat /\ Six(b % 8, c) >= 1
<1>1. b \in 0 .. 255
    BY DEF Byte
<1>2. SequenceSize(b) = 2 => b \in \hC2 .. \hDF
    BY <1>1, SMT DEF SequenceSize
<1>3. SequenceSize(b) = 3 => b \in \hE0 .. \hEF
    BY <1>1, SMT DEF SequenceSize
<1>4. SequenceSize(b) = 4 => b \in \hF0 .. \hF4
    BY <1>1, SMT DEF SequenceSize
<1>5. c \in Continuation
    BY AcceptRangeOfByte
<1>6. ASSUME b \in \hE0 .. \hEF
      PROVE  b % 32 \in Nat /\ Six(b % 32, c) >= 1
    <2>1. CASE b = \hE0
        <3>1. c \in \hA0 .. \hBF
            BY <2>1, SMT DEF AcceptRange
        <3>2. Low6(c) \in 32 .. 63
            BY <3>1, SMT DEF Low6
        <3> QED
            BY <2>1, <3>2, SMT DEF Six
    <2>2. CASE b \in \hE1 .. \hEF
        <3>1. Low6(c) \in 0 .. 63
            BY <1>5, SMT DEF Low6, Continuation
        <3>2. b % 32 \in 1 .. 15
            BY <2>2, SMT
        <3> QED
            BY <3>1, <3>2, SMT DEF Six
    <2> QED
        BY <1>6, <2>1, <2>2, SMT
<1>7. ASSUME b \in \hF0 .. \hF4
      PROVE  b % 8 \in Nat /\ Six(b % 8, c) >= 1
    <2>1. CASE b = \hF0
        <3>1. c \in \h90 .. \hBF
            BY <2>1, SMT DEF AcceptRange
        <3>2. Low6(c) \in 16 .. 63
            BY <3>1, SMT DEF Low6
        <3> QED
            BY <2>1, <3>2, SMT DEF Six
    <2>2. CASE b \in \hF1 .. \hF4
        <3>1. Low6(c) \in 0 .. 63
            BY <1>5, SMT DEF Low6, Continuation
        <3>2. b % 8 \in 1 .. 4
            BY <2>2, SMT
        <3> QED
            BY <3>1, <3>2, SMT DEF Six
    <2> QED
        BY <1>7, <2>1, <2>2, SMT
<1>8. b \in \hC2 .. \hDF => b % 32 \in Nat /\ b % 32 >= 1
    BY SMT
<1> QED
    BY <1>2, <1>3, <1>4, <1>6, <1>7, <1>8

\* Six more bits on a value that is not zero leave ASCII's control characters.
LEMMA SixFloor ==
    ASSUME NEW v \in Nat, NEW b \in Continuation, v >= 1
    PROVE  Six(v, b) \in Nat /\ Six(v, b) >= 64
<1>1. Low6(b) \in 0 .. 63
    BY SMT DEF Low6, Continuation
<1> QED
    BY <1>1, SMT DEF Six

\* A sequence of several bytes never decodes to one of the first 64 runes.
LEMMA MultibyteValue ==
    ASSUME NEW s \in Seq(Byte), NEW i \in Nat, i < Len(s), IsMultibyte(s, i)
    PROVE  DecodeValue(s, i) >= 64
<1> DEFINE lead == s[i + 1]
           w    == DecodeWidth(s, i)
<1>1. lead \in Byte
    BY ByteAt
<1>2. w = SequenceSize(lead) /\ s[i + 2] \in AcceptRange(lead)
    BY DEF DecodeWidth, IsMultibyte
<1>3. w \in 2 .. 4 /\ \A k \in 2 .. w : s[i + k] \in Continuation
    BY SequenceBytes
<1>4. s[i + 2] \in Continuation
    BY <1>3, SMT
<1>5. CASE w = 2
    <2>1. DecodeValue(s, i) = Six(lead % 32, s[i + 2])
        BY <1>5, SMT DEF DecodeValue
    <2>2. lead % 32 \in Nat /\ lead % 32 >= 1
        BY <1>1, <1>2, <1>5, NoOverlongForm
    <2> QED
        BY <1>4, <2>1, <2>2, SixFloor
<1>6. CASE w = 3
    <2> DEFINE two == Six(lead % 32, s[i + 2])
    <2>1. DecodeValue(s, i) = Six(two, s[i + 3])
        BY <1>6, SMT DEF DecodeValue
    <2>2. two >= 1 /\ lead % 32 \in Nat
        BY <1>1, <1>2, <1>6, NoOverlongForm
    <2>3. two \in Nat
        BY <1>4, <2>2, SixNat
    <2>4. s[i + 3] \in Continuation
        BY <1>3, <1>6, SMT
    <2> QED
        BY <2>1, <2>2, <2>3, <2>4, SixFloor
<1>7. CASE w = 4
    <2> DEFINE two   == Six(lead % 8, s[i + 2])
               three == Six(two, s[i + 3])
    <2>1. DecodeValue(s, i) = Six(three, s[i + 4])
        BY <1>7, SMT DEF DecodeValue
    <2>2. two >= 1 /\ lead % 8 \in Nat
        BY <1>1, <1>2, <1>7, NoOverlongForm
    <2>3. two \in Nat
        BY <1>4, <2>2, SixNat
    <2>4. s[i + 3] \in Continuation /\ s[i + 4] \in Continuation
        BY <1>3, <1>7, SMT
    <2>5. three \in Nat /\ three >= 64
        BY <2>2, <2>3, <2>4, SixFloor
    <2>6. three >= 1
        BY <2>5, SMT
    <2> QED
        BY <2>1, <2>4, <2>5, <2>6, SixFloor
<1> QED
    BY <1>3, <1>5, <1>6, <1>7, SMT

\* A newline is a byte of its own: decode yields 10 exactly where the text has
\* the byte 10, and takes that byte alone, so that a line counted in runes is
\* a line counted in bytes.
LEMMA NewlineIsAByte ==
    ASSUME NEW s \in Seq(Byte), NEW i \in Nat, i < Len(s)
    PROVE  /\ s[i + 1] = 10 <=> DecodeValue(s, i) = 10
           /\ s[i + 1] = 10 => DecodeWidth(s, i) = 1
           /\ \A k \in i + 2 .. i + DecodeWidth(s, i) : s[k] # 10
<1>1. CASE IsMultibyte(s, i)
    <2>1. s[i + 1] \in \hC2 .. \hF4
        BY <1>1, SequenceBytes
    <2>2. s[i + 1] # 10
        <3>1. \A b \in \hC2 .. \hF4 : b # 10
            BY SMT
        <3> QED
            BY <2>1, <3>1
    <2>3. \A k \in 2 .. DecodeWidth(s, i) : s[i + k] # 10
        <3>1. \A b \in Continuation : b # 10
            BY SMT DEF Continuation
        <3> QED
            BY <1>1, <3>1, SequenceBytes
    <2>4. DecodeWidth(s, i) \in 2 .. 4
        BY <1>1, SequenceBytes
    <2>5. \A k \in i + 2 .. i + DecodeWidth(s, i) : s[k] # 10
        <3> SUFFICES ASSUME NEW k \in i + 2 .. i + DecodeWidth(s, i)
                     PROVE  s[k] # 10
            OBVIOUS
        <3>1. k - i \in 2 .. DecodeWidth(s, i) /\ i + (k - i) = k
            BY <2>4, SMT
        <3> QED
            BY <2>3, <3>1
    <2>6. DecodeValue(s, i) # 10
        <3>1. \A v : v >= 64 => v # 10
            BY SMT
        <3> QED
            BY <1>1, <3>1, MultibyteValue
    <2> QED
        BY <2>2, <2>5, <2>6
<1>2. CASE ~ IsMultibyte(s, i)
    <2>1. DecodeWidth(s, i) = 1
        BY <1>2 DEF DecodeWidth
    <2>2. DecodeValue(s, i) = s[i + 1]
        BY <2>1 DEF DecodeValue
    <2>3. \A k \in i + 2 .. i + DecodeWidth(s, i) : FALSE
        BY <2>1, SMT
    <2> QED
        BY <2>1, <2>2, <2>3
<1> QED
    BY <1>1, <1>2

\* What decode yields is a byte or a code point, never above U+10FFFF: four
\* bytes stay below U+110000 because of the last accept range.
LEMMA DecodeValueInRange ==
    ASSUME NEW s \in Seq(Byte), NEW i \in Nat, i < Len(s)
    PROVE  CodePoint(DecodeValue(s, i))
<1> DEFINE lead == s[i + 1]
           w    == DecodeWidth(s, i)
<1>1. lead \in Byte
    BY ByteAt
<1>2. CASE w = 1
    <2>1. DecodeValue(s, i) = lead
        BY <1>2 DEF DecodeValue
    <2> QED
        BY <1>1, <2>1, BitsOfByte
<1>3. CASE w # 1
    <2>1. IsMultibyte(s, i) /\ w = SequenceSize(lead)
        BY <1>3 DEF DecodeWidth
    <2>2. w \in 2 .. 4 /\ \A k \in 2 .. w : s[i + k] \in Continuation
        BY <2>1, SequenceBytes
    <2>3. s[i + 2] \in Continuation
        BY <2>2, SMT
    <2> DEFINE two   == Six(lead % 32, s[i + 2])
               three == Six(two, s[i + 3])
    <2>4. UpTo(2047, two)
        <3>1. UpTo(31, lead % 32)
            <4>1. lead % 32 \in 0 .. 31
                BY <1>1, BitsOfByte
            <4>2. \A x \in 0 .. 31 : UpTo(31, x)
                BY SMT DEF UpTo
            <4> QED
                BY <4>1, <4>2
        <3> QED
            BY <2>3, <3>1, SixBounds, SMT
    <2>5. CASE w = 2
        <3>1. DecodeValue(s, i) = two
            BY <2>5, SMT DEF DecodeValue
        <3> QED
            BY <2>4, <3>1, CodePoints, SMT
    <2>6. CASE w = 3
        <3>1. DecodeValue(s, i) = three
            BY <2>6, SMT DEF DecodeValue
        <3>2. s[i + 3] \in Continuation
            BY <2>2, <2>6, SMT
        <3>3. UpTo(131071, three)
            BY <2>4, <3>2, SixBounds, SMT
        <3> QED
            BY <3>1, <3>3, CodePoints, SMT
    <2>7. CASE w = 4
        <3> DEFINE second == Six(lead % 8, s[i + 2])
                   third  == Six(second, s[i + 3])
                   fourth == Six(third, s[i + 4])
        <3>1. DecodeValue(s, i) = fourth
            BY <2>7, SMT DEF DecodeValue
        <3>2. s[i + 3] \in Continuation /\ s[i + 4] \in Continuation
            BY <2>2, <2>7, SMT
        <3>3. UpTo(271, second)
            <4>1. lead \in \hF0 .. \hF4
                <5>1. SequenceSize(lead) = 4
                    BY <2>1, <2>7
                <5> QED
                    BY <1>1, <5>1, SequenceSizeOfByte
            <4>2. UpTo(3, lead % 8) \/ (lead % 8 = 4 /\ lead = \hF4)
                BY <1>1, <4>1, BitsOfByte, SMT DEF UpTo
            <4>3. CASE UpTo(3, lead % 8)
                <5>1. UpTo(255, second)
                    BY <2>3, <4>3, SixBounds, SMT
                <5> QED
                    BY <5>1, SMT DEF UpTo
            <4>4. CASE lead % 8 = 4 /\ lead = \hF4
                <5>1. s[i + 2] \in AcceptRange(\hF4)
                    BY <2>1, <4>4 DEF IsMultibyte
                <5> QED
                    BY <4>4, <5>1, LastAcceptRange
            <4> QED
                BY <4>2, <4>3, <4>4
        <3>4. UpTo(17407, third)
            BY <3>2, <3>3, SixBounds, SMT
        <3>5. UpTo(1114111, fourth)
            BY <3>2, <3>4, SixBounds, SMT
        <3> QED
            BY <3>1, <3>5, CodePoints, SMT
    <2> QED
        BY <2>2, <2>5, <2>6, <2>7, SMT
<1> QED
    BY <1>2, <1>3

\* A continuation byte made of the low six bits of a number.
LEMMA LowByte ==
    ASSUME NEW n \in Int
    PROVE  \h80 + Low6(n) \in Byte
BY SMT DEF Low6, Byte

\* encode writes bytes, EOF included.
LEMMA EncodeIsBytes ==
    ASSUME NEW r \in Rune
    PROVE  encode(r) \in Seq(Byte)
<1>1. r \in Int /\ -1 <= r /\ r <= rune_max
    BY RuneFacts, SMT DEF Rune, rune_eof
<1>2. rune_max = 1114111
    BY SMT DEF rune_max
<1>3. CASE r < \h80
    <2>1. encode(r) = << r % 256 >>
        BY <1>1, <1>2, <1>3, SMT DEF encode
    <2>2. r % 256 \in Byte
        BY <1>1, SMT DEF Byte
    <2> QED
        BY <2>1, <2>2
<1>4. CASE r >= \h80 /\ r < \h800
    <2>1. encode(r) = << \hC0 + (r \div 64), \h80 + Low6(r) >>
        BY <1>1, <1>2, <1>4, SMT DEF encode
    <2>2. \hC0 + (r \div 64) \in Byte
        BY <1>1, <1>4, SMT DEF Byte
    <2>3. \h80 + Low6(r) \in Byte
        BY <1>1, LowByte
    <2> QED
        BY <2>1, <2>2, <2>3
<1>5. CASE r >= \h800 /\ r < \h10000
    <2>1. encode(r) = << \hE0 + (r \div 4096), \h80 + Low6(r \div 64), \h80 + Low6(r) >>
        BY <1>1, <1>2, <1>5, SMT DEF encode
    <2>2. \hE0 + (r \div 4096) \in Byte /\ r \div 64 \in Int
        BY <1>1, <1>5, SMT DEF Byte
    <2>3. \h80 + Low6(r) \in Byte /\ \h80 + Low6(r \div 64) \in Byte
        BY <1>1, <2>2, LowByte
    <2> QED
        BY <2>1, <2>2, <2>3
<1>6. CASE r >= \h10000 /\ r <= 1114111
    <2>1. encode(r) = << \hF0 + (r \div 262144), \h80 + Low6(r \div 4096),
                         \h80 + Low6(r \div 64), \h80 + Low6(r) >>
        BY <1>1, <1>2, <1>6, SMT DEF encode
    <2>2. \hF0 + (r \div 262144) \in Byte /\ r \div 64 \in Int /\ r \div 4096 \in Int
        BY <1>1, <1>6, SMT DEF Byte
    <2>3. /\ \h80 + Low6(r) \in Byte /\ \h80 + Low6(r \div 64) \in Byte
          /\ \h80 + Low6(r \div 4096) \in Byte
        BY <1>1, <2>2, LowByte
    <2> QED
        BY <2>1, <2>2, <2>3
<1> QED
    BY <1>1, <1>2, <1>3, <1>4, <1>5, <1>6, SMT

-----------------------------------------------------------------------------
(* encode undoes decode. *)

\* The last byte of a sequence is read off its value, and so is the value of
\* the bytes before it.
LEMMA SixSplits ==
    ASSUME NEW v \in Nat, NEW b \in Continuation
    PROVE  /\ Six(v, b) = v * 64 + (b - \h80)
           /\ Six(v, b) \div 64 = v
           /\ \h80 + Low6(Six(v, b)) = b
<1>1. b \in \h80 .. \hBF
    BY DEF Continuation
<1>2. Low6(b) = b - \h80
    BY <1>1, SMT DEF Low6
<1>3. Six(v, b) = v * 64 + (b - \h80)
    BY <1>2 DEF Six
<1> DEFINE z == b - \h80
           n == v * 64 + z
<1>4. z \in 0 .. 63 /\ b = \h80 + z
    BY <1>1, SMT
<1> HIDE DEF z
<1>5. n \div 64 = v /\ n % 64 = z
    BY <1>4, SMT
<1> QED
    BY <1>3, <1>4, <1>5 DEF Low6, z

\* Shifting right by 12 and by 18 is shifting by 6 twice and three times.
LEMMA ShiftsCompose ==
    ASSUME NEW n \in Nat
    PROVE  /\ n \div 4096 = (n \div 64) \div 64
           /\ n \div 262144 = ((n \div 64) \div 64) \div 64
BY SMT

\* The bits of a lead byte are its distance from the first lead of its length.
LEMMA LeadBits ==
    ASSUME NEW b \in Byte
    PROVE  /\ SequenceSize(b) = 2 => b \in 194 .. 223 /\ b % 32 = b - 192
           /\ SequenceSize(b) = 3 => b \in 224 .. 239 /\ b % 32 = b - 224
           /\ SequenceSize(b) = 4 => b \in 240 .. 244 /\ b % 8 = b - 240
<1>1. SequenceSize(b) = 2 => b \in 194 .. 223
    BY SMT DEF SequenceSize, Byte
<1>2. SequenceSize(b) = 3 => b \in 224 .. 239
    BY SMT DEF SequenceSize, Byte
<1>3. SequenceSize(b) = 4 => b \in 240 .. 244
    BY SMT DEF SequenceSize, Byte
<1>4. /\ b \in 194 .. 223 => b % 32 = b - 192
      /\ b \in 224 .. 239 => b % 32 = b - 224
      /\ b \in 240 .. 244 => b % 8 = b - 240
    BY SMT
<1> QED
    BY <1>1, <1>2, <1>3, <1>4

\* What the tables accept in the first two bytes, as numbers.
LEMMA AcceptedPairs ==
    ASSUME NEW b \in Byte, NEW c \in Byte
    PROVE  /\ SequenceSize(b) = 2 /\ c \in AcceptRange(b) <=>
                b \in 194 .. 223 /\ c \in 128 .. 191
           /\ SequenceSize(b) = 3 /\ c \in AcceptRange(b) <=>
                /\ b \in 224 .. 239 /\ c \in 128 .. 191
                /\ (b - 224) * 64 + (c - 128) >= 32
                /\ (b - 224) * 64 + (c - 128) \notin 864 .. 895
           /\ SequenceSize(b) = 4 /\ c \in AcceptRange(b) <=>
                /\ b \in 240 .. 247 /\ c \in 128 .. 191
                /\ (b - 240) * 64 + (c - 128) \in 16 .. 271
<1>1. b \in 0 .. 255 /\ c \in 0 .. 255
    BY DEF Byte
<1>2. SequenceSize(b) = 2 /\ c \in AcceptRange(b) <=>
          b \in 194 .. 223 /\ c \in 128 .. 191
    BY <1>1, SMT DEF SequenceSize, AcceptRange, Continuation
<1>3. SequenceSize(b) = 3 /\ c \in AcceptRange(b) <=>
          /\ b \in 224 .. 239 /\ c \in 128 .. 191
          /\ (b - 224) * 64 + (c - 128) >= 32
          /\ (b - 224) * 64 + (c - 128) \notin 864 .. 895
    BY <1>1, SMT DEF SequenceSize, AcceptRange, Continuation
<1>4. SequenceSize(b) = 4 /\ c \in AcceptRange(b) <=>
          /\ b \in 240 .. 247 /\ c \in 128 .. 191
          /\ (b - 240) * 64 + (c - 128) \in 16 .. 271
    <2>1. SequenceSize(b) = 4 <=> b \in 240 .. 244
        BY <1>1, SMT DEF SequenceSize
    <2>2. c \in AcceptRange(b) <=>
              /\ c \in 128 .. 191
              /\ b = 240 => c >= 144
              /\ b = 244 => c <= 143
              /\ b = 224 => c >= 160
              /\ b = 237 => c <= 159
        BY <1>1, SMT DEF AcceptRange, Continuation
    <2>3. ASSUME b \in 240 .. 247, c \in 128 .. 191
          PROVE  (b - 240) * 64 + (c - 128) \in 16 .. 271 <=>
                     /\ b \in 240 .. 244
                     /\ b = 240 => c >= 144
                     /\ b = 244 => c <= 143
        BY <2>3, SMT
    <2>4. b \in 240 .. 244 => b \in 240 .. 247 /\ b # 224 /\ b # 237
        BY SMT
    <2> QED
        BY <2>1, <2>2, <2>3, <2>4
<1> QED
    BY <1>2, <1>3, <1>4

\* Six more bits carry the bounds of each length over to the next.
LEMMA SixRanges ==
    ASSUME NEW v \in Nat, NEW b \in Continuation
    PROVE  /\ Six(v, b) \in Nat
           /\ v >= 2 => Six(v, b) >= 128
           /\ v >= 16 => Six(v, b) >= 1024
           /\ v >= 32 => Six(v, b) >= 2048
           /\ v >= 1024 => Six(v, b) >= 65536
           /\ v <= 31 => Six(v, b) <= 2047
           /\ v <= 1023 => Six(v, b) <= 65535
           /\ v <= 15 => Six(v, b) <= 1023
<1>1. b - \h80 \in 0 .. 63
    BY SMT DEF Continuation
<1>2. Six(v, b) = v * 64 + (b - \h80)
    BY SixSplits
<1> QED
    BY <1>1, <1>2, SMT

\* The form encode chooses for a rune.
LEMMA EncodeForms ==
    ASSUME NEW r \in Nat
    PROVE  /\ r < \h80 => encode(r) = << r % 256 >>
           /\ r >= \h80 /\ r < \h800 =>
                encode(r) = << \hC0 + (r \div 64), \h80 + Low6(r) >>
           /\ r >= \h800 /\ r < \h10000 =>
                encode(r) = << \hE0 + (r \div 4096), \h80 + Low6(r \div 64), \h80 + Low6(r) >>
           /\ r >= \h10000 =>
                encode(r) = << \hF0 + (r \div 262144), \h80 + Low6(r \div 4096),
                               \h80 + Low6(r \div 64), \h80 + Low6(r) >>
<1>1. r < \h80 => encode(r) = << r % 256 >>
    BY SMT DEF encode
<1>2. r >= \h80 /\ r < \h800 =>
          encode(r) = << \hC0 + (r \div 64), \h80 + Low6(r) >>
    BY SMT DEF encode
<1>3. r >= \h800 /\ r < \h10000 =>
          encode(r) = << \hE0 + (r \div 4096), \h80 + Low6(r \div 64), \h80 + Low6(r) >>
    BY SMT DEF encode
<1>4. r >= \h10000 =>
          encode(r) = << \hF0 + (r \div 262144), \h80 + Low6(r \div 4096),
                         \h80 + Low6(r \div 64), \h80 + Low6(r) >>
    BY SMT DEF encode
<1> QED
    BY <1>1, <1>2, <1>3, <1>4

\* Two bytes that decode accepts are those encode writes for their value.
LEMMA EncodeTwo ==
    ASSUME NEW b \in Byte, NEW c \in AcceptRange(b), SequenceSize(b) = 2
    PROVE  encode(Six(b % 32, c)) = << b, c >>
<1> DEFINE x == b % 32
           v == Six(x, c)
<1>1. c \in Continuation
    BY AcceptRangeOfByte
<1>2. x \in 2 .. 31 /\ x \in Nat /\ \hC0 + x = b
    BY LeadBits, SMT
<1>3. v \div 64 = x /\ \h80 + Low6(v) = c /\ v = x * 64 + (c - \h80)
    BY <1>1, <1>2, SixSplits
<1>4. v \in 128 .. 2047
    BY <1>1, <1>2, <1>3, SMT DEF Continuation
<1> HIDE DEF x, v
<1>5. encode(v) = << \hC0 + (v \div 64), \h80 + Low6(v) >>
    BY SMTT(30), <1>4, EncodeForms
<1> QED
    BY <1>2, <1>3, <1>5 DEF v, x

\* So are three bytes.
LEMMA EncodeThree ==
    ASSUME NEW b \in Byte, NEW c \in AcceptRange(b), NEW d \in Continuation,
           SequenceSize(b) = 3
    PROVE  encode(Six(Six(b % 32, c), d)) = << b, c, d >>
<1> DEFINE x == b % 32
           u == Six(x, c)
           v == Six(u, d)
<1>1. c \in Continuation /\ c \in Byte
    BY AcceptRangeOfByte, SMT DEF Continuation, Byte
<1>2. x \in 0 .. 15 /\ x \in Nat /\ \hE0 + x = b /\ x = b - 224
    BY LeadBits, SMT
<1>3. u \div 64 = x /\ \h80 + Low6(u) = c /\ u = x * 64 + (c - \h80)
    BY <1>1, <1>2, SixSplits
<1>4. u >= 32 /\ u <= 1023 /\ u \in Nat
    <2>1. x * 64 + (c - 128) >= 32
        BY <1>1, <1>2, AcceptedPairs
    <2>2. x <= 15
        BY <1>2
    <2> QED
        BY <1>1, <1>2, <1>3, <2>1, <2>2, SixRanges
<1> HIDE DEF u
<1>5. v \div 64 = u /\ \h80 + Low6(v) = d
    BY <1>4, SixSplits
<1>6. v >= \h800 /\ v < \h10000 /\ v \in Nat
    <2>1. v >= 2048 /\ v <= 65535 /\ v \in Nat
        BY <1>4, SixRanges
    <2> HIDE DEF v
    <2> QED
        BY <2>1
<1> HIDE DEF x, v
<1>7. encode(v) = << \hE0 + (v \div 4096), \h80 + Low6(v \div 64), \h80 + Low6(v) >>
    BY <1>6, EncodeForms
<1> HIDE DEF u
<1>8. v \div 4096 = x
    BY <1>3, <1>5, <1>6, ShiftsCompose
<1> QED
    BY <1>2, <1>3, <1>5, <1>7, <1>8 DEF v, u, x

\* And four.
LEMMA EncodeFour ==
    ASSUME NEW b \in Byte, NEW c \in AcceptRange(b), NEW d \in Continuation,
           NEW e \in Continuation, SequenceSize(b) = 4
    PROVE  encode(Six(Six(Six(b % 8, c), d), e)) = << b, c, d, e >>
<1> DEFINE x == b % 8
           t == Six(x, c)
           u == Six(t, d)
           v == Six(u, e)
<1>1. c \in Continuation /\ c \in Byte
    BY AcceptRangeOfByte, SMT DEF Continuation, Byte
<1>2. x \in 0 .. 4 /\ x \in Nat /\ \hF0 + x = b /\ x = b - 240
    BY LeadBits, SMT
<1>3. t \div 64 = x /\ \h80 + Low6(t) = c /\ t = x * 64 + (c - \h80)
    BY <1>1, <1>2, SixSplits
<1>4. t >= 16 /\ t \in Nat
    <2>1. x * 64 + (c - 128) \in 16 .. 271
        BY <1>1, <1>2, AcceptedPairs
    <2> HIDE DEF t
    <2> QED
        BY <1>3, <2>1
<1> HIDE DEF t
<1>5. u \div 64 = t /\ \h80 + Low6(u) = d
    BY <1>4, SixSplits
<1>6. u >= 1024 /\ u \in Nat
    BY <1>4, SixRanges
<1> HIDE DEF u
<1>7. v \div 64 = u /\ \h80 + Low6(v) = e
    BY <1>6, SixSplits
<1>8. v >= \h10000 /\ v \in Nat
    BY <1>6, SixRanges
<1> HIDE DEF x, v
<1>9. encode(v) = << \hF0 + (v \div 262144), \h80 + Low6(v \div 4096),
                     \h80 + Low6(v \div 64), \h80 + Low6(v) >>
    BY <1>8, EncodeForms
<1> HIDE DEF t, u
<1>10. v \div 4096 = t /\ v \div 262144 = x
    BY <1>3, <1>5, <1>7, <1>8, ShiftsCompose
<1> QED
    BY <1>2, <1>3, <1>5, <1>7, <1>9, <1>10 DEF v, u, t, x

\* The first bytes from an offset on, one by one.
LEMMA FewBytes ==
    ASSUME NEW s \in Seq(Byte), NEW i \in Nat, NEW n \in 1 .. 4, i + n <= Len(s)
    PROVE  /\ n = 1 => SubSeq(s, i + 1, i + n) = << s[i + 1] >>
           /\ n = 2 => SubSeq(s, i + 1, i + n) = << s[i + 1], s[i + 2] >>
           /\ n = 3 => SubSeq(s, i + 1, i + n) = << s[i + 1], s[i + 2], s[i + 3] >>
           /\ n = 4 => SubSeq(s, i + 1, i + n) = << s[i + 1], s[i + 2], s[i + 3], s[i + 4] >>
<1> DEFINE t == SubSeq(s, i + 1, i + n)
<1>1. \A k \in i + 1 .. i + n : s[k] \in Byte
    BY SMT
<1>2. t \in Seq(Byte) /\ Len(t) = n /\ \A k \in 1 .. n : t[k] = s[i + k]
    <2>1. i + 1 \in Int /\ i + n \in Int
        OBVIOUS
    <2>2. /\ t \in Seq(Byte)
          /\ Len(t) = IF i + 1 <= i + n THEN (i + n) - (i + 1) + 1 ELSE 0
          /\ \A k \in 1 .. (i + n) - (i + 1) + 1 : t[k] = s[(i + 1) + k - 1]
        BY <1>1, <2>1, SubSeqProperties
    <2>3. (IF i + 1 <= i + n THEN (i + n) - (i + 1) + 1 ELSE 0) = n
        BY SMT
    <2>4. (i + n) - (i + 1) + 1 = n /\ \A k \in 1 .. n : (i + 1) + k - 1 = i + k
        BY SMT
    <2> HIDE DEF t
    <2> QED
        BY <2>2, <2>3, <2>4
<1>3. n \in 1 .. 4 /\ s[i + 1] \in Byte
    BY SMT
<1> HIDE DEF t
<1>4. ASSUME n = 1 PROVE t = << s[i + 1] >>
    <2> DEFINE u == << s[i + 1] >>
    <2>1. u \in Seq(Byte) /\ Len(u) = n /\ \A k \in 1 .. n : u[k] = s[i + k]
        BY <1>1, <1>4, SMT
    <2> HIDE DEF u
    <2>2. t = u
        BY <1>2, <2>1, SeqEqual
    <2> QED
        BY <2>2 DEF u
<1>5. ASSUME n = 2 PROVE t = << s[i + 1], s[i + 2] >>
    <2> DEFINE u == << s[i + 1], s[i + 2] >>
    <2>1. u \in Seq(Byte) /\ Len(u) = n /\ \A k \in 1 .. n : u[k] = s[i + k]
        BY <1>1, <1>5, SMT
    <2> HIDE DEF u
    <2>2. t = u
        BY <1>2, <2>1, SeqEqual
    <2> QED
        BY <2>2 DEF u
<1>6. ASSUME n = 3 PROVE t = << s[i + 1], s[i + 2], s[i + 3] >>
    <2> DEFINE u == << s[i + 1], s[i + 2], s[i + 3] >>
    <2>1. u \in Seq(Byte) /\ Len(u) = n /\ \A k \in 1 .. n : u[k] = s[i + k]
        BY <1>1, <1>6, SMT
    <2> HIDE DEF u
    <2>2. t = u
        BY <1>2, <2>1, SeqEqual
    <2> QED
        BY <2>2 DEF u
<1>7. ASSUME n = 4 PROVE t = << s[i + 1], s[i + 2], s[i + 3], s[i + 4] >>
    <2> DEFINE u == << s[i + 1], s[i + 2], s[i + 3], s[i + 4] >>
    <2>1. u \in Seq(Byte) /\ Len(u) = n /\ \A k \in 1 .. n : u[k] = s[i + k]
        BY <1>1, <1>7, SMT
    <2> HIDE DEF u
    <2>2. t = u
        BY <1>2, <2>1, SeqEqual
    <2> QED
        BY <2>2 DEF u
<1> QED
    BY <1>3, <1>4, <1>5, <1>6, <1>7 DEF t

\* The bytes of a sequence that decode accepts, and its value.
LEMMA SequenceParts ==
    ASSUME NEW s \in Seq(Byte), NEW i \in Nat, i < Len(s), IsMultibyte(s, i)
    PROVE  LET b == s[i + 1]
               w == DecodeWidth(s, i)
           IN  /\ b \in Byte /\ w = SequenceSize(b) /\ w \in 2 .. 4
               /\ i + w <= Len(s)
               /\ s[i + 2] \in AcceptRange(b)
               /\ w > 2 => s[i + 3] \in Continuation
               /\ w > 3 => s[i + 4] \in Continuation
               /\ w = 2 => DecodeValue(s, i) = Six(b % 32, s[i + 2])
               /\ w = 3 => DecodeValue(s, i) = Six(Six(b % 32, s[i + 2]), s[i + 3])
               /\ w = 4 => DecodeValue(s, i) = Six(Six(Six(b % 8, s[i + 2]), s[i + 3]), s[i + 4])
<1> DEFINE b == s[i + 1]
           w == DecodeWidth(s, i)
<1>1. b \in Byte
    BY ByteAt
<1>2. w = SequenceSize(b)
    BY DEF DecodeWidth
<1>3. w \in 2 .. 4
    BY SequenceBytes
<1>4. /\ i + w <= Len(s)
      /\ s[i + 2] \in AcceptRange(b)
      /\ w > 2 => s[i + 3] \in Continuation
      /\ w > 3 => s[i + 4] \in Continuation
    BY <1>2 DEF IsMultibyte
<1>5. /\ w = 2 => DecodeValue(s, i) = Six(b % 32, s[i + 2])
      /\ w = 3 => DecodeValue(s, i) = Six(Six(b % 32, s[i + 2]), s[i + 3])
      /\ w = 4 => DecodeValue(s, i) = Six(Six(Six(b % 8, s[i + 2]), s[i + 3]), s[i + 4])
    BY SMT DEF DecodeValue
<1> HIDE DEF b, w
<1>6. /\ b \in Byte /\ w = SequenceSize(b) /\ w \in 2 .. 4
      /\ i + w <= Len(s)
      /\ s[i + 2] \in AcceptRange(b)
      /\ w > 2 => s[i + 3] \in Continuation
      /\ w > 3 => s[i + 4] \in Continuation
      /\ w = 2 => DecodeValue(s, i) = Six(b % 32, s[i + 2])
      /\ w = 3 => DecodeValue(s, i) = Six(Six(b % 32, s[i + 2]), s[i + 3])
      /\ w = 4 => DecodeValue(s, i) = Six(Six(Six(b % 8, s[i + 2]), s[i + 3]), s[i + 4])
    BY <1>1, <1>2, <1>3, <1>4, <1>5
<1> QED
    BY <1>6 DEF b, w

\* An ASCII byte is its own remainder.
LEMMA AsciiByte ==
    ASSUME NEW x \in Byte, x < 128
    PROVE  x \in Nat /\ x < \h80 /\ x % 256 = x
<1>1. x \in 0 .. 127
    BY SMT DEF Byte
<1> QED
    BY <1>1, SMT

\* What decode accepts at an offset, encode writes back byte for byte; an ASCII
\* byte as well.
LEMMA EncodeUndoesDecode ==
    ASSUME NEW s \in Seq(Byte), NEW i \in Nat, i < Len(s),
           DecodeWidth(s, i) > 1 \/ s[i + 1] < 128
    PROVE  encode(DecodeValue(s, i)) = SubSeq(s, i + 1, i + DecodeWidth(s, i))
<1> DEFINE b == s[i + 1]
           w == DecodeWidth(s, i)
<1>1. b \in Byte
    BY ByteAt
<1>2. w \in 1 .. 4 /\ i + w <= Len(s)
    BY DecodeWidthBounds
<1>3. CASE IsMultibyte(s, i)
    <2>1. /\ w = SequenceSize(b) /\ w \in 2 .. 4
          /\ s[i + 2] \in AcceptRange(b)
          /\ w > 2 => s[i + 3] \in Continuation
          /\ w > 3 => s[i + 4] \in Continuation
          /\ w = 2 => DecodeValue(s, i) = Six(b % 32, s[i + 2])
          /\ w = 3 => DecodeValue(s, i) = Six(Six(b % 32, s[i + 2]), s[i + 3])
          /\ w = 4 => DecodeValue(s, i) = Six(Six(Six(b % 8, s[i + 2]), s[i + 3]), s[i + 4])
        BY <1>3, SequenceParts
    <2> HIDE DEF b, w
    <2>2. CASE w = 2
        <3>1. encode(DecodeValue(s, i)) = << b, s[i + 2] >>
            BY <1>1, <2>1, <2>2, EncodeTwo
        <3> QED
            BY <1>2, <2>2, <3>1, FewBytes DEF b, w
    <2>3. CASE w = 3
        <3>1. s[i + 3] \in Continuation
            BY <2>1, <2>3
        <3>2. encode(DecodeValue(s, i)) = << b, s[i + 2], s[i + 3] >>
            BY <1>1, <2>1, <2>3, <3>1, EncodeThree
        <3> QED
            BY <1>2, <2>3, <3>2, FewBytes DEF b, w
    <2>4. CASE w = 4
        <3>1. s[i + 3] \in Continuation /\ s[i + 4] \in Continuation
            BY <2>1, <2>4
        <3>2. encode(DecodeValue(s, i)) = << b, s[i + 2], s[i + 3], s[i + 4] >>
            BY <1>1, <2>1, <2>4, <3>1, EncodeFour
        <3> QED
            BY <1>2, <2>4, <3>2, FewBytes DEF b, w
    <2> QED
        BY <2>1, <2>2, <2>3, <2>4
<1>4. CASE ~ IsMultibyte(s, i)
    <2>1. w = 1 /\ DecodeValue(s, i) = b
        BY <1>4 DEF DecodeWidth, DecodeValue
    <2>2. b < 128
        BY <2>1
    <2> HIDE DEF b, w
    <2>3. encode(b) = << b >>
        <3>1. \A x \in Byte : x < 128 => x \in Nat /\ x < \h80 /\ x % 256 = x
            BY AsciiByte
        <3>2. b \in Nat /\ b < \h80 /\ b % 256 = b
            BY <1>1, <2>2, <3>1
        <3> QED
            BY <3>2, EncodeForms
    <2>4. SubSeq(s, i + 1, i + w) = << b >>
        BY <1>2, <2>1, FewBytes DEF b
    <2> QED
        BY <2>1, <2>3, <2>4 DEF w
<1> QED
    BY <1>3, <1>4

-----------------------------------------------------------------------------
(***************************************************************************)
(* The invariant of a reader.                                              *)
(***************************************************************************)
\* Of two recorded offsets i < j the rune at i ends at a recorded offset no
\* later than j: what is recorded are boundaries of runes, without gaps.
Chain(s, D) ==
    \A i, j \in D : i < j => /\ i + DecodeWidth(s, i) \in D
                             /\ i + DecodeWidth(s, i) <= j

\* The width stack leads back to every recorded offset before index, and to
\* nothing else, one after the other.
Stacked(D, index, starts) ==
    /\ \A k \in DOMAIN starts : starts[k] \in D /\ starts[k] < index
    /\ \A k, l \in DOMAIN starts : k < l => starts[k] < starts[l]
    /\ \A i \in D : i < index => \E k \in DOMAIN starts : starts[k] = i

NewlinesBefore(s, i) == Cardinality({k \in 1 .. i : s[k] = 10})

\* Every recorded position has its own offset and counts the lines before it.
Recorded(s, f) ==
    \A i \in DOMAIN f : f[i].offset = i /\ f[i].line = NewlinesBefore(s, i)

ReaderInv(r) ==
    /\ ReaderOK(r)
    /\ r.index \in DOMAIN r.idx2pos
    /\ r.pos = r.idx2pos[r.index]
    /\ Recorded(r.slice, r.idx2pos)
    /\ Chain(r.slice, DOMAIN r.idx2pos)
    /\ Stacked(DOMAIN r.idx2pos, r.index, r.starts)

-----------------------------------------------------------------------------
(* Each part of the invariant after a rune is consumed. *)

\* The new boundary continues the chain.
LEMMA ChainGrows ==
    ASSUME NEW s, NEW D \in SUBSET Nat, NEW i \in D, NEW j \in Nat,
           Chain(s, D), j = i + DecodeWidth(s, i), DecodeWidth(s, i) \in Nat
    PROVE  Chain(s, D \cup {j})
<1> DEFINE E == D \cup {j}
<1> SUFFICES ASSUME NEW a \in E, NEW b \in E, a < b
             PROVE  a + DecodeWidth(s, a) \in E /\ a + DecodeWidth(s, a) <= b
    BY DEF Chain
<1>1. CASE a \in D /\ b \in D
    BY <1>1 DEF Chain
<1>2. CASE a \in D /\ b = j
    <2>1. CASE a = i
        BY <1>2, <2>1, SMT
    <2>2. CASE a < i
        <3> DEFINE end == a + DecodeWidth(s, a)
        <3>1. end \in D /\ end <= i
            BY <1>2, <2>2 DEF Chain
        <3>2. end \in Nat /\ end \in E
            BY <3>1
        <3>3. i <= j
            BY SMT
        <3> HIDE DEF end
        <3>4. end <= j
            BY <3>1, <3>2, <3>3, SMT
        <3> QED
            BY <1>2, <3>2, <3>4 DEF end
    <2>3. CASE i < a
        <3>1. j <= a
            BY <1>2, <2>3 DEF Chain
        <3> QED
            BY <1>2, <3>1, SMT
    <2> QED
        BY <1>2, <2>1, <2>2, <2>3, SMT
<1>3. CASE a = j /\ a \notin D /\ b \in D
    <2>1. i < b
        BY <1>3, SMT
    <2> QED
        BY <1>3, <2>1 DEF Chain
<1> QED
    BY <1>1, <1>2, <1>3, SMT

\* Pushing the offset of the rune that was consumed keeps the stack exact.
LEMMA StackGrows ==
    ASSUME NEW s, NEW D \in SUBSET Nat, NEW i \in D, NEW j \in Nat, NEW starts \in Seq(Nat),
           Chain(s, D), Stacked(D, i, starts),
           j = i + DecodeWidth(s, i), DecodeWidth(s, i) \in 1 .. 4
    PROVE  Stacked(D \cup {j}, j, Append(starts, i))
<1> DEFINE E   == D \cup {j}
           new == Append(starts, i)
           n   == Len(starts)
<1>1. /\ n \in Nat
      /\ DOMAIN starts = 1 .. n
      /\ DOMAIN new = 1 .. n + 1
      /\ \A k \in 1 .. n : new[k] = starts[k]
      /\ new[n + 1] = i
    BY AppendProperties, LenProperties, SMT
<1> HIDE DEF new, n
<1>2. i < j
    BY SMT
<1>3. \A k \in 1 .. n : starts[k] \in D /\ starts[k] < i /\ starts[k] \in Nat
    BY <1>1 DEF Stacked
<1>4. \A k \in DOMAIN new : new[k] \in E /\ new[k] < j
    BY <1>1, <1>2, <1>3, SMT
<1>5. \A k, l \in 1 .. n : k < l => starts[k] < starts[l]
    BY <1>1 DEF Stacked
<1>6. \A k, l \in DOMAIN new : k < l => new[k] < new[l]
    BY <1>1, <1>3, <1>5, SMT
<1>7. ASSUME NEW a \in E, a < j
      PROVE  \E k \in DOMAIN new : new[k] = a
    <2>1. a \in D
        BY <1>7, SMT
    <2>2. ~ (i < a)
        <3>1. i < a => j <= a
            BY <2>1 DEF Chain
        <3> QED
            BY <1>7, <2>1, <3>1, SMT
    <2>3. CASE a = i
        BY <1>1, <2>3, SMT
    <2>4. CASE a < i
        <3>1. PICK k \in 1 .. n : starts[k] = a
            BY <1>1, <2>1, <2>4 DEF Stacked
        <3> QED
            BY <1>1, <3>1, SMTT(30)
    <2> QED
        BY <2>1, <2>2, <2>3, <2>4, SMT
<1> QED
    BY <1>4, <1>6, <1>7 DEF Stacked, new

\* A newline rune is a newline byte: NUL and a byte order mark are no newlines.
LEMMA NewlineRune ==
    ASSUME NEW s \in Seq(Byte), NEW i \in Nat, i < Len(s)
    PROVE  RuneAt(s, i) = 10 <=> s[i + 1] = 10
<1>1. rune_invalid # 10 /\ rune_bom # 10
    BY SMT DEF rune_invalid, rune_bom
<1>2. s[i + 1] = 10 <=> DecodeValue(s, i) = 10
    BY NewlineIsAByte
<1>3. CASE s[i + 1] = 0
    <2>1. RuneAt(s, i) = rune_invalid
        BY <1>3 DEF RuneAt
    <2> QED
        BY <1>1, <1>3, <2>1
<1>4. CASE s[i + 1] # 0 /\ i > 0 /\ DecodeValue(s, i) = rune_bom
    <2>1. RuneAt(s, i) = rune_invalid
        BY <1>4 DEF RuneAt
    <2> QED
        BY <1>1, <1>2, <1>4, <2>1
<1>5. CASE s[i + 1] # 0 /\ ~ (i > 0 /\ DecodeValue(s, i) = rune_bom)
    <2>1. RuneAt(s, i) = DecodeValue(s, i)
        BY <1>5 DEF RuneAt
    <2> QED
        BY <1>2, <2>1
<1> QED
    BY <1>3, <1>4, <1>5

\* The newlines before an offset are finitely many.
LEMMA NewlinesFinite ==
    ASSUME NEW s, NEW i \in Nat
    PROVE  /\ IsFiniteSet({k \in 1 .. i : s[k] = 10})
           /\ NewlinesBefore(s, i) \in Nat
<1>1. IsFiniteSet(1 .. i)
    BY FS_Interval, SMT
<1>2. {k \in 1 .. i : s[k] = 10} \in SUBSET (1 .. i)
    OBVIOUS
<1>3. IsFiniteSet({k \in 1 .. i : s[k] = 10})
    BY <1>1, <1>2, FS_Subset
<1> QED
    BY <1>3, FS_CardinalityType DEF NewlinesBefore

\* The line count after a rune: one more exactly when the rune is a newline.
LEMMA NewlinesGrow ==
    ASSUME NEW s \in Seq(Byte), NEW i \in Nat, i < Len(s)
    PROVE  NewlinesBefore(s, i + DecodeWidth(s, i)) =
             IF RuneAt(s, i) = 10 THEN NewlinesBefore(s, i) + 1 ELSE NewlinesBefore(s, i)
<1> DEFINE w      == DecodeWidth(s, i)
           before == {k \in 1 .. i : s[k] = 10}
           after  == {k \in 1 .. i + w : s[k] = 10}
<1>1. w \in 1 .. 4
    BY DecodeWidthBounds
<1>2. IsFiniteSet(before) /\ NewlinesBefore(s, i) = Cardinality(before)
    BY NewlinesFinite DEF NewlinesBefore
<1>3. NewlinesBefore(s, i + w) = Cardinality(after)
    BY DEF NewlinesBefore
<1>4. \A k \in i + 2 .. i + w : s[k] # 10
    BY NewlineIsAByte
<1> HIDE DEF w
<1>5. \A k \in 1 .. i + w : k \in 1 .. i \/ k = i + 1 \/ k \in i + 2 .. i + w
    BY <1>1, SMT
<1>6. i + 1 \in 1 .. i + w /\ i + 1 \notin 1 .. i /\ \A k \in 1 .. i : k \in 1 .. i + w
    BY <1>1, SMT
<1>7. CASE s[i + 1] = 10
    <2>1. after = before \cup {i + 1} /\ i + 1 \notin before
        BY <1>4, <1>5, <1>6, <1>7, Zenon
    <2>2. Cardinality(after) = Cardinality(before) + 1
        BY <1>2, <2>1, FS_AddElement
    <2> QED
        BY <1>2, <1>3, <1>7, <2>2, NewlineRune DEF w
<1>8. CASE s[i + 1] # 10
    <2>1. after = before
        BY <1>4, <1>5, <1>6, <1>8, Zenon
    <2> QED
        BY <1>2, <1>3, <1>8, <2>1, NewlineRune DEF w
<1> QED
    BY <1>7, <1>8

\* Put adds one key and changes no other entry.
IsPut(g, f, k, v) ==
    /\ DOMAIN g = DOMAIN f \cup {k}
    /\ g[k] = v
    /\ \A x \in DOMAIN f : x # k => g[x] = f[x]
    /\ g \in [DOMAIN g -> {v} \cup {f[x] : x \in DOMAIN f}]

\* Put is what its comment says.
LEMMA PutFacts ==
    ASSUME NEW f, NEW k, NEW v
    PROVE  IsPut(Put(f, k, v), f, k, v)
BY Zenon DEF Put, IsPut

\* A position recorded for the end of a rune: its offset is there, and its line
\* is one more after a newline.  Both next and move_next record such a one; they
\* differ in the column only.
EndsRune(r, p) ==
    /\ p \in Pos
    /\ p.offset = r.index + DecodeWidth(r.slice, r.index)
    /\ p.line = IF RuneAt(r.slice, r.index) = 10 THEN r.pos.line + 1 ELSE r.pos.line

\* The fields of a reader, for the lemmas below.
LEMMA ReaderFields ==
    ASSUME NEW r, ReaderOK(r)
    PROVE  /\ r.slice \in Seq(Byte) /\ Len(r.slice) \in Nat
           /\ r.index \in Nat /\ r.index <= Len(r.slice)
           /\ r.pos \in Pos
           /\ r.starts \in Seq(Nat)
           /\ r.lastWidth \in 1 .. 4
           /\ DOMAIN r.idx2pos \subseteq 0 .. Len(r.slice)
           /\ DOMAIN r.idx2pos \subseteq Nat
           /\ \A i \in DOMAIN r.idx2pos : r.idx2pos[i] \in Pos
<1>1. /\ r.slice \in Seq(Byte)
      /\ r.index \in Nat /\ r.index <= Len(r.slice)
      /\ r.pos \in Pos
      /\ r.starts \in Seq(Nat)
      /\ r.lastWidth \in 1 .. 4
      /\ DOMAIN r.idx2pos \subseteq 0 .. Len(r.slice)
    BY DEF ReaderOK
<1>2. \A i \in DOMAIN r.idx2pos : r.idx2pos[i] \in Pos
    BY DEF ReaderOK
<1>3. Len(r.slice) \in Nat
    BY <1>1, LenProperties
<1>4. DOMAIN r.idx2pos \subseteq Nat
    BY <1>1, <1>3, SMT
<1> QED
    BY <1>1, <1>2, <1>3, <1>4

\* A record with the fields of a reader is made of those fields.
LEMMA RecordOf ==
    ASSUME NEW A, NEW B, NEW C, NEW D, NEW E, NEW F,
           NEW r \in [slice : A, index : B, pos : C, idx2pos : D, starts : E, lastWidth : F]
    PROVE  r = [slice |-> r.slice, index |-> r.index, pos |-> r.pos,
                idx2pos |-> r.idx2pos, starts |-> r.starts, lastWidth |-> r.lastWidth]
BY SMT

\* The shape of a reader, whatever is recorded.
Shape(r, F) == r \in [slice : Seq(Byte), index : Nat, pos : Pos, idx2pos : F,
                      starts : Seq(Nat), lastWidth : 1 .. 4]

\* A record of that shape whose index and recorded positions are inside the
\* text is a well-typed reader.
LEMMA ShapeOK ==
    ASSUME NEW r, NEW F, Shape(r, F),
           r.index <= Len(r.slice),
           DOMAIN r.idx2pos \subseteq 0 .. Len(r.slice),
           r.idx2pos \in [DOMAIN r.idx2pos -> Pos]
    PROVE  ReaderOK(r)
<1>1. r = [slice |-> r.slice, index |-> r.index, pos |-> r.pos,
           idx2pos |-> r.idx2pos, starts |-> r.starts, lastWidth |-> r.lastWidth]
    BY RecordOf DEF Shape
<1>2. /\ r.slice \in Seq(Byte) /\ r.index \in Nat /\ r.pos \in Pos
      /\ r.starts \in Seq(Nat) /\ r.lastWidth \in 1 .. 4
    BY DEF Shape
<1> QED
    BY <1>1, <1>2, Zenon DEF ReaderOK

\* A well-typed reader has that shape.
LEMMA ShapeOf ==
    ASSUME NEW r, ReaderOK(r), NEW F, r.idx2pos \in F
    PROVE  Shape(r, F)
<1>1. r \in [slice : Seq(Byte), index : Nat, pos : Pos, idx2pos : {r.idx2pos},
             starts : Seq(Nat), lastWidth : 1 .. 4]
    BY DEF ReaderOK
<1> QED
    BY <1>1, SMT DEF Shape

-----------------------------------------------------------------------------
(* The methods. *)

\* A new reader: one position, nothing to go back to.
LEMMA NewReaderInv ==
    ASSUME NEW t \in Seq(Byte)
    PROVE  ReaderInv(NewReader(t))
<1> DEFINE f == [i \in {0} |-> Origin]
           r == NewReader(t)
<1>1. Origin \in Pos /\ Origin.offset = 0 /\ Origin.line = 0
    BY SMT DEF Origin, Pos
<1>2. DOMAIN f = {0} /\ f[0] = Origin /\ f \in [{0} -> Pos]
    BY <1>1
<1>3. Len(t) \in Nat
    BY LenProperties
<1>4. {0} \subseteq 0 .. Len(t) /\ 0 <= Len(t) /\ 0 \in Nat /\ 1 \in 1 .. 4
    BY <1>3, SMT
<1>5. << >> \in Seq(Nat) /\ DOMAIN << >> = {}
    BY SMT
<1>6. /\ r.slice = t /\ r.index = 0 /\ r.pos = Origin
      /\ r.idx2pos = f /\ r.starts = << >> /\ r.lastWidth = 1
    BY DEF NewReader
<1> HIDE DEF f
<1>7. ReaderOK(r)
    <2>1. ReaderOK([slice |-> t, index |-> 0, pos |-> Origin, idx2pos |-> f,
                    starts |-> << >>, lastWidth |-> 1])
        BY <1>1, <1>2, <1>4, <1>5, SMT DEF ReaderOK
    <2> QED
        BY <2>1 DEF NewReader, f
<1>8. NewlinesBefore(t, 0) = 0
    <2>1. {k \in 1 .. 0 : t[k] = 10} = {}
        BY SMT
    <2> QED
        BY <2>1, FS_EmptySet DEF NewlinesBefore
<1>9. Recorded(t, f)
    BY <1>1, <1>2, <1>8 DEF Recorded
<1>10. Chain(t, {0})
    BY SMT DEF Chain
<1>11. Stacked({0}, 0, << >>)
    BY <1>5, SMT DEF Stacked
<1> QED
    BY <1>2, <1>6, <1>7, <1>9, <1>10, <1>11 DEF ReaderInv

\* next and move_next: whatever column they report, the invariant holds after
\* the rune is consumed.
LEMMA ForwardInv ==
    ASSUME NEW r, ReaderInv(r), ~ Eof(r), NEW p, EndsRune(r, p)
    PROVE  /\ ReaderInv(Forward(r, p))
           /\ Forward(r, p).slice = r.slice
           /\ Forward(r, p).index = p.offset
           /\ Forward(r, p).idx2pos = Put(r.idx2pos, p.offset, p)
           /\ p.offset \in Nat /\ r.index < p.offset
<1> DEFINE s   == r.slice
           D   == DOMAIN r.idx2pos
           j   == p.offset
           f   == Put(r.idx2pos, j, p)
           new == Forward(r, p)
<1>1. ReaderOK(r) /\ r.index \in D /\ r.pos = r.idx2pos[r.index]
    BY DEF ReaderInv
<1>2. /\ s \in Seq(Byte) /\ Len(s) \in Nat
      /\ r.index \in Nat /\ r.index < Len(s)
      /\ r.starts \in Seq(Nat)
      /\ D \subseteq 0 .. Len(s) /\ D \subseteq Nat
      /\ \A i \in D : r.idx2pos[i] \in Pos
    <2>1. r.index < Len(s)
        BY <1>1, ReaderFields, SMT DEF Eof
    <2> QED
        BY <1>1, <2>1, ReaderFields
<1>3. /\ DecodeWidth(s, r.index) \in 1 .. 4
      /\ j = r.index + DecodeWidth(s, r.index)
      /\ j <= Len(s)
    BY <1>2, DecodeWidthBounds DEF EndsRune
<1>4. j \in Nat /\ r.index < j
    BY <1>2, <1>3, SMT
<1>5. p \in Pos /\ p.offset = j
    BY DEF EndsRune
<1>6. /\ DOMAIN f = D \cup {j}
      /\ f[j] = p
      /\ \A i \in D : i # j => f[i] = r.idx2pos[i]
      /\ f \in [DOMAIN f -> {p} \cup {r.idx2pos[x] : x \in D}]
    <2>1. IsPut(f, r.idx2pos, j, p)
        BY PutFacts
    <2> HIDE DEF f, j
    <2> QED
        BY <2>1 DEF IsPut
<1>7. DOMAIN f \subseteq 0 .. Len(s)
    BY <1>2, <1>3, <1>4, <1>6, SMT
<1>8. f \in [DOMAIN f -> Pos]
    <2>1. {p} \cup {r.idx2pos[x] : x \in D} \subseteq Pos
        BY <1>2, <1>5
    <2> HIDE DEF f
    <2> QED
        BY <1>6, <2>1
<1>9. Append(r.starts, r.index) \in Seq(Nat)
    BY <1>2, AppendProperties
<1>10. /\ ReaderOK(new)
       /\ new.slice = s /\ new.index = j /\ new.pos = p
       /\ new.idx2pos = f /\ new.starts = Append(r.starts, r.index)
    <2> DEFINE starts == Append(r.starts, r.index)
    <2>1. Shape(r, {r.idx2pos, f})
        BY <1>1, ShapeOf
    <2>2. /\ Shape(new, {r.idx2pos, f})
          /\ new.slice = s /\ new.index = j /\ new.pos = p
          /\ new.idx2pos = f /\ new.starts = starts
        <3>1. new = [r EXCEPT !.index = j, !.pos = p, !.idx2pos = f, !.starts = starts]
            BY DEF Forward
        <3> HIDE DEF new, f, j, starts
        <3>2. Shape(new, {r.idx2pos, f})
            BY <1>4, <1>5, <1>9, <2>1, <3>1 DEF Shape, starts
        <3>3. /\ new.slice = s /\ new.index = j /\ new.pos = p
              /\ new.idx2pos = f /\ new.starts = starts
            BY <2>1, <3>1, SMT DEF Shape
        <3> QED
            BY <3>2, <3>3
    <2> HIDE DEF new, f, j, starts
    <2>3. ReaderOK(new)
        BY <1>3, <1>7, <1>8, <2>2, ShapeOK
    <2> QED
        BY <2>2, <2>3 DEF starts
<1>11. Recorded(s, f)
    <2>1. p.line = NewlinesBefore(s, j)
        <3>1. r.pos.line = NewlinesBefore(s, r.index)
            BY <1>1 DEF ReaderInv, Recorded
        <3> QED
            BY <1>2, <1>3, <3>1, NewlinesGrow DEF EndsRune
    <2>2. \A i \in D : r.idx2pos[i].offset = i
                       /\ r.idx2pos[i].line = NewlinesBefore(s, i)
        BY DEF ReaderInv, Recorded
    <2> HIDE DEF f
    <2> QED
        BY <1>5, <1>6, <2>1, <2>2 DEF Recorded
<1>12. Chain(s, DOMAIN f)
    <2>1. Chain(s, D)
        BY DEF ReaderInv
    <2>2. DecodeWidth(s, r.index) \in Nat
        BY <1>3, SMT
    <2> HIDE DEF f, j
    <2>3. Chain(s, D \cup {j})
        BY <1>1, <1>2, <1>3, <1>4, <2>1, <2>2, ChainGrows
    <2> QED
        BY <1>6, <2>3
<1>13. Stacked(DOMAIN f, j, Append(r.starts, r.index))
    <2>1. Chain(s, D) /\ Stacked(D, r.index, r.starts)
        BY DEF ReaderInv
    <2> HIDE DEF f, j
    <2>2. Stacked(D \cup {j}, j, Append(r.starts, r.index))
        BY <1>1, <1>2, <1>3, <1>4, <2>1, StackGrows
    <2> QED
        BY <1>6, <2>2
<1> HIDE DEF new, f, j
<1> QED
    BY <1>4, <1>6, <1>10, <1>11, <1>12, <1>13 DEF ReaderInv, new, f, j

\* What next and move_next record follows.
LEMMA PosAfterEndsRune ==
    ASSUME NEW r, ReaderInv(r), ~ Eof(r)
    PROVE  EndsRune(r, PosAfterNext(r)) /\ EndsRune(r, PosAfterMove(r))
<1> DEFINE w == DecodeWidth(r.slice, r.index)
<1>1. /\ r.slice \in Seq(Byte) /\ r.index \in Nat /\ r.index < Len(r.slice)
      /\ r.pos \in Pos
    BY ReaderFields, SMT DEF ReaderInv, Eof
<1>2. w \in Nat
    BY <1>1, DecodeWidthBounds, SMT
<1>3. r.pos.line \in Nat /\ r.pos.col \in Nat
    BY <1>1 DEF Pos
<1> HIDE DEF w
<1>4. CASE RuneAt(r.slice, r.index) = 10
    <2>1. PosAfterNext(r) = [line |-> r.pos.line + 1, col |-> 0, offset |-> r.index + w]
        BY <1>4 DEF PosAfterNext, w
    <2>2. PosAfterMove(r) = [line |-> r.pos.line + 1, col |-> w, offset |-> r.index + w]
        BY <1>4 DEF PosAfterMove, w
    <2>3. r.pos.line + 1 \in Nat /\ 0 \in Nat /\ r.index + w \in Nat
        BY <1>1, <1>2, <1>3, SMT
    <2> QED
        BY <1>2, <1>4, <2>1, <2>2, <2>3 DEF EndsRune, Pos, w
<1>5. CASE RuneAt(r.slice, r.index) # 10
    <2>1. PosAfterNext(r) = [line |-> r.pos.line, col |-> r.pos.col + w,
                             offset |-> r.index + w]
        BY <1>5 DEF PosAfterNext, w
    <2>2. PosAfterMove(r) = PosAfterNext(r)
        BY <1>5, <2>1 DEF PosAfterMove, w
    <2>3. r.pos.col + w \in Nat /\ r.index + w \in Nat
        BY <1>1, <1>2, <1>3, SMT
    <2> QED
        BY <1>2, <1>3, <1>5, <2>1, <2>2, <2>3 DEF EndsRune, Pos, w
<1> QED
    BY <1>4, <1>5

\* A position the reader can go back to: it is recorded and not ahead.
Saved(r, p) ==
    /\ p \in Pos
    /\ p.offset \in DOMAIN r.idx2pos
    /\ r.idx2pos[p.offset] = p
    /\ p.offset <= r.index

\* The position at index is one.
LEMMA PosSaved ==
    ASSUME NEW r, ReaderInv(r)
    PROVE  Saved(r, r.pos) /\ r.pos.offset = r.index
<1>1. /\ r.index \in DOMAIN r.idx2pos /\ r.pos = r.idx2pos[r.index]
      /\ r.idx2pos[r.index].offset = r.index
    BY DEF ReaderInv, Recorded
<1>2. r.index \in Nat /\ r.pos \in Pos
    BY ReaderFields DEF ReaderInv
<1>3. r.index <= r.index
    BY <1>2, SMT
<1> QED
    BY <1>1, <1>2, <1>3 DEF Saved

\* next consumes a rune, at the end of the text nothing; it keeps the invariant
\* and every saved position, for what it records lies ahead.
LEMMA AdvanceInv ==
    ASSUME NEW r, ReaderInv(r)
    PROVE  /\ ReaderInv(Advance(r))
           /\ Advance(r).slice = r.slice
           /\ r.index <= Advance(r).index
           /\ \A p : Saved(r, p) => Saved(Advance(r), p)
<1>1. r.index \in Nat
    BY ReaderFields DEF ReaderInv
<1>2. CASE Eof(r)
    <2>1. Advance(r) = r
        BY <1>2 DEF Advance
    <2>2. r.index <= r.index
        BY <1>1, SMT
    <2> QED
        BY <2>1, <2>2
<1>3. CASE ~ Eof(r)
    <2> DEFINE q   == PosAfterNext(r)
               new == Forward(r, q)
    <2>1. EndsRune(r, q)
        BY <1>3, PosAfterEndsRune
    <2>2. Advance(r) = new
        BY <1>3 DEF Advance
    <2> HIDE DEF q
    <2>3. /\ ReaderInv(new) /\ new.slice = r.slice /\ new.index = q.offset
          /\ new.idx2pos = Put(r.idx2pos, q.offset, q)
          /\ q.offset \in Nat /\ r.index < q.offset
        BY <1>3, <2>1, ForwardInv
    <2>4. IsPut(new.idx2pos, r.idx2pos, q.offset, q)
        BY <2>3, PutFacts
    <2> HIDE DEF new
    <2>5. r.index <= new.index
        BY <1>1, <2>3, SMT
    <2>6. ASSUME NEW p, Saved(r, p)
          PROVE  Saved(new, p)
        <3>1. p.offset \in Nat /\ p.offset <= r.index
            BY <2>6 DEF Saved, Pos
        <3>2. p.offset # q.offset /\ p.offset <= new.index
            BY <1>1, <2>3, <3>1, SMT
        <3> QED
            BY <2>4, <2>6, <3>2 DEF Saved, IsPut
    <2> QED
        BY <2>2, <2>3, <2>5, <2>6
<1> QED
    BY <1>2, <1>3

\* move_next does too.
LEMMA AdvanceMoveInv ==
    ASSUME NEW r, ReaderInv(r)
    PROVE  ReaderInv(AdvanceMove(r))
<1>1. CASE Eof(r)
    BY <1>1 DEF AdvanceMove
<1>2. CASE ~ Eof(r)
    <2> DEFINE p == PosAfterMove(r)
    <2>1. EndsRune(r, p)
        BY <1>2, PosAfterEndsRune
    <2>2. AdvanceMove(r) = Forward(r, p)
        BY <1>2 DEF AdvanceMove
    <2> HIDE DEF p
    <2> QED
        BY <1>2, <2>1, <2>2, ForwardInv
<1> QED
    BY <1>1, <1>2

\* peek and curr change nothing but the width they remember.
LEMMA PeekedInv ==
    ASSUME NEW r, ReaderInv(r)
    PROVE  /\ ReaderInv(Peeked(r))
           /\ Peeked(r).slice = r.slice
           /\ Peeked(r).index = r.index
           /\ Peeked(r).pos = r.pos
           /\ Peeked(r).idx2pos = r.idx2pos
           /\ Peeked(r).starts = r.starts
<1> DEFINE new == Peeked(r)
<1>1. CASE Eof(r)
    BY <1>1 DEF Peeked
<1>2. CASE ~ Eof(r)
    <2>1. ReaderOK(r)
        BY DEF ReaderInv
    <2>2. DecodeWidth(r.slice, r.index) \in 1 .. 4
        <3>1. r.index < Len(r.slice)
            BY <1>2, <2>1, ReaderFields, SMT DEF Eof
        <3> QED
            BY <2>1, <3>1, ReaderFields, DecodeWidthBounds
    <2>3. Shape(r, {r.idx2pos})
        BY <2>1, ShapeOf
    <2>4. new = [r EXCEPT !.lastWidth = DecodeWidth(r.slice, r.index)]
        BY <1>2 DEF Peeked
    <2> HIDE DEF new
    <2>5. Shape(new, {r.idx2pos})
        BY <2>2, <2>3, <2>4 DEF Shape
    <2>6. /\ new.slice = r.slice /\ new.index = r.index /\ new.pos = r.pos
          /\ new.idx2pos = r.idx2pos /\ new.starts = r.starts
        BY <2>3, <2>4, SMT DEF Shape
    <2>7. /\ r.index <= Len(r.slice)
          /\ DOMAIN r.idx2pos \subseteq 0 .. Len(r.slice)
          /\ r.idx2pos \in [DOMAIN r.idx2pos -> Pos]
        BY <2>1 DEF ReaderOK
    <2>8. ReaderOK(new)
        BY <2>5, <2>6, <2>7, ShapeOK
    <2>9. ReaderInv(new)
        BY <2>6, <2>8 DEF ReaderInv
    <2> QED
        BY <2>6, <2>9 DEF new
<1> QED
    BY <1>1, <1>2

\* Popping back to the k-th start leaves an exact stack for that index.
LEMMA StackShrinks ==
    ASSUME NEW D \in SUBSET Nat, NEW i \in Nat, NEW starts \in Seq(Nat), NEW k \in DOMAIN starts,
           Stacked(D, i, starts)
    PROVE  /\ SubSeq(starts, 1, k - 1) \in Seq(Nat)
           /\ Stacked(D, starts[k], SubSeq(starts, 1, k - 1))
<1> DEFINE new == SubSeq(starts, 1, k - 1)
           n   == Len(starts)
<1>1. n \in Nat /\ DOMAIN starts = 1 .. n /\ k \in 1 .. n
    BY LenProperties
<1>2. \A l \in 1 .. n : starts[l] \in Nat /\ starts[l] \in D
    BY <1>1 DEF Stacked
<1>3. /\ new \in Seq(Nat)
      /\ DOMAIN new = 1 .. k - 1
      /\ \A l \in 1 .. k - 1 : new[l] = starts[l]
    BY <1>1, <1>2, SMT
<1> HIDE DEF new, n
<1>4. \A l \in 1 .. k - 1 : l \in 1 .. n /\ l < k
    BY <1>1, SMT
<1>5. \A l, m \in 1 .. n : l < m => starts[l] < starts[m]
    BY <1>1 DEF Stacked
<1>6. \A l \in DOMAIN new : new[l] \in D /\ new[l] < starts[k]
    BY <1>1, <1>2, <1>3, <1>4, <1>5
<1>7. \A l, m \in DOMAIN new : l < m => new[l] < new[m]
    <2> TAKE l \in DOMAIN new, m \in DOMAIN new
    <2>1. /\ new[l] = starts[l] /\ new[m] = starts[m]
          /\ l \in 1 .. n /\ m \in 1 .. n
        BY <1>3, <1>4
    <2> QED
        BY <1>5, <2>1
<1>8. ASSUME NEW a \in D, a < starts[k]
      PROVE  \E l \in DOMAIN new : new[l] = a
    <2>1. a < i
        <3>1. starts[k] < i /\ starts[k] \in Nat
            BY <1>1, <1>2 DEF Stacked
        <3> QED
            BY <1>8, <3>1, SMT
    <2>2. PICK l \in 1 .. n : starts[l] = a
        BY <1>1, <2>1 DEF Stacked
    <2>3. l < k
        <3>1. CASE k < l
            <4>1. starts[k] < a
                BY <1>1, <1>5, <2>2, <3>1
            <4> QED
                BY <1>1, <1>2, <1>8, <4>1, SMT
        <3>2. CASE k = l
            BY <1>1, <1>2, <1>8, <2>2, <3>2, SMT
        <3> QED
            BY <1>1, <3>1, <3>2, SMT
    <2>4. l \in 1 .. k - 1
        BY <1>1, <2>3, SMT
    <2> QED
        BY <1>3, <2>2, <2>4
<1> QED
    BY <1>3, <1>6, <1>7, <1>8 DEF Stacked, new

\* The reader after popping back to the k-th start.
Back(r, k) == [r EXCEPT !.index  = r.starts[k],
                        !.pos    = r.idx2pos[r.starts[k]],
                        !.starts = SubSeq(r.starts, 1, k - 1)]

\* Popping back, by one rune or by many, keeps the invariant and the records.
LEMMA BackInv ==
    ASSUME NEW r, ReaderInv(r), NEW k \in DOMAIN r.starts
    PROVE  /\ ReaderInv(Back(r, k))
           /\ Back(r, k).slice = r.slice
           /\ Back(r, k).index = r.starts[k]
           /\ Back(r, k).idx2pos = r.idx2pos
<1> DEFINE new  == Back(r, k)
           back == r.starts[k]
           D    == DOMAIN r.idx2pos
           pos  == r.idx2pos[back]
           starts == SubSeq(r.starts, 1, k - 1)
<1>1. ReaderOK(r) /\ Stacked(D, r.index, r.starts)
    BY DEF ReaderInv
<1>2. /\ r.slice \in Seq(Byte) /\ r.index \in Nat /\ r.index <= Len(r.slice)
      /\ Len(r.slice) \in Nat /\ r.starts \in Seq(Nat) /\ D \subseteq Nat
      /\ D \subseteq 0 .. Len(r.slice)
      /\ r.idx2pos \in [D -> Pos]
    BY <1>1, ReaderFields DEF ReaderOK
<1>3. back \in D /\ back \in Nat /\ pos \in Pos
    BY <1>1, <1>2 DEF Stacked
<1>4. starts \in Seq(Nat) /\ Stacked(D, back, starts)
    BY <1>1, <1>2, StackShrinks
<1>5. back <= Len(r.slice)
    BY <1>2, <1>3, SMT
<1>6. Shape(r, {r.idx2pos})
    BY <1>1, ShapeOf
<1>7. new = [r EXCEPT !.index = back, !.pos = pos, !.starts = starts]
    BY DEF Back
<1> HIDE DEF new, back, pos, starts
<1>8. Shape(new, {r.idx2pos})
    BY <1>3, <1>4, <1>6, <1>7 DEF Shape
<1>9. /\ new.slice = r.slice /\ new.index = back /\ new.pos = pos
      /\ new.idx2pos = r.idx2pos /\ new.starts = starts
    BY <1>6, <1>7, SMT DEF Shape
<1>10. ReaderOK(new)
    BY <1>2, <1>5, <1>8, <1>9, ShapeOK
<1>11. Recorded(r.slice, r.idx2pos) /\ Chain(r.slice, D)
    BY DEF ReaderInv
<1>12. ReaderInv(new)
    BY <1>3, <1>4, <1>9, <1>10, <1>11 DEF ReaderInv, pos
<1> QED
    BY <1>9, <1>12 DEF new, back

\* prev and move_prev pop one rune.
LEMMA RetreatInv ==
    ASSUME NEW r, ReaderInv(r), CanRetreat(r)
    PROVE  /\ ReaderInv(Retreat(r))
           /\ Retreat(r).slice = r.slice
           /\ Retreat(r).index < r.index
           /\ Retreat(r).idx2pos = r.idx2pos
<1> DEFINE n == Len(r.starts)
<1>1. r.starts \in Seq(Nat) /\ r.starts # << >>
    BY ReaderFields DEF ReaderInv, CanRetreat
<1>2. n \in DOMAIN r.starts
    BY <1>1, SMT
<1>3. Retreat(r) = Back(r, n)
    BY DEF Retreat, Back, Last, Front
<1>4. r.starts[n] < r.index
    BY <1>2 DEF ReaderInv, Stacked
<1> HIDE DEF n
<1> QED
    BY <1>2, <1>3, <1>4, BackInv

\* read returns a rune at every offset inside the text.
LEMMA RuneAtInRune ==
    ASSUME NEW s \in Seq(Byte), NEW i \in Nat, i < Len(s)
    PROVE  RuneAt(s, i) \in Rune
<1>1. DecodeValue(s, i) \in Rune
    BY DecodeValueInRange, RuneFacts DEF CodePoint
<1>2. RuneAt(s, i) \in {rune_invalid, DecodeValue(s, i)}
    <2>1. CASE s[i + 1] = 0
        BY <2>1 DEF RuneAt
    <2>2. CASE s[i + 1] # 0 /\ i > 0 /\ DecodeValue(s, i) = rune_bom
        BY <2>2 DEF RuneAt
    <2>3. CASE s[i + 1] # 0 /\ ~ (i > 0 /\ DecodeValue(s, i) = rune_bom)
        BY <2>3 DEF RuneAt
    <2> QED
        BY <2>1, <2>2, <2>3
<1> QED
    BY <1>1, <1>2, RuneFacts

\* seek succeeds on exactly the recorded offsets that are not ahead of index
\* (reader.cc:61-70): the widths on the stack never step over one of them.
LEMMA SeekOkExact ==
    ASSUME NEW r, ReaderInv(r), NEW i
    PROVE  SeekOk(r, i) <=> /\ i \in DOMAIN r.idx2pos
                            /\ i <= r.index
                            /\ r.slice = << >> \/ i < Len(r.slice)
<1> SUFFICES ASSUME i \in DOMAIN r.idx2pos, i <= r.index
             PROVE  \E l \in Landings(r) : l[1] = i
    BY DEF SeekOk
<1>1. r.starts \in Seq(Nat) /\ r.index \in Nat /\ i \in Nat
    BY ReaderFields DEF ReaderInv
<1>2. DOMAIN r.starts = 1 .. Len(r.starts)
    BY <1>1, LenProperties
<1>3. CASE i = r.index
    <2>1. <<r.index, Len(r.starts)>> \in Landings(r)
        BY DEF Landings
    <2>2. <<r.index, Len(r.starts)>>[1] = i
        BY <1>3
    <2> QED
        BY <2>1, <2>2
<1>4. CASE i # r.index
    <2>1. i < r.index
        BY <1>1, <1>4, SMT
    <2>2. PICK k \in 1 .. Len(r.starts) : r.starts[k] = i
        BY <1>2, <2>1 DEF ReaderInv, Stacked
    <2>3. <<r.starts[k], k - 1>> \in Landings(r)
        BY <2>2 DEF Landings
    <2>4. <<r.starts[k], k - 1>>[1] = i
        BY <2>2
    <2> QED
        BY <2>3, <2>4
<1> QED
    BY <1>3, <1>4

\* A seek that succeeds lands on the offset asked for, reports the position
\* recorded there, and keeps the records and the invariant.
LEMMA SeekToInv ==
    ASSUME NEW r, ReaderInv(r), NEW i, SeekOk(r, i)
    PROVE  /\ ReaderInv(SeekTo(r, i))
           /\ SeekTo(r, i).slice = r.slice
           /\ SeekTo(r, i).index = i
           /\ SeekTo(r, i).idx2pos = r.idx2pos
           /\ SeekTo(r, i).pos = r.idx2pos[i]
<1> DEFINE new == SeekTo(r, i)
<1>1. i \in DOMAIN r.idx2pos /\ i <= r.index
    BY DEF SeekOk
<1>2. CASE i = r.index
    <2>1. new = [r EXCEPT !.pos = r.idx2pos[i]] /\ r.idx2pos[i] = r.pos
        BY <1>2 DEF SeekTo, ReaderInv
    <2>2. ReaderOK(r) /\ Shape(r, {r.idx2pos}) /\ r.pos \in Pos
        BY ReaderFields, ShapeOf DEF ReaderInv
    <2> HIDE DEF new
    <2>3. Shape(new, {r.idx2pos})
        BY <2>1, <2>2 DEF Shape
    <2>4. /\ new.slice = r.slice /\ new.index = r.index /\ new.pos = r.pos
          /\ new.idx2pos = r.idx2pos /\ new.starts = r.starts
        BY <2>1, <2>2, SMT DEF Shape
    <2>5. /\ r.index <= Len(r.slice)
          /\ DOMAIN r.idx2pos \subseteq 0 .. Len(r.slice)
          /\ r.idx2pos \in [DOMAIN r.idx2pos -> Pos]
        BY <2>2 DEF ReaderOK
    <2>6. ReaderOK(new)
        BY <2>3, <2>4, <2>5, ShapeOK
    <2>7. ReaderInv(new)
        BY <2>4, <2>6 DEF ReaderInv
    <2> QED
        BY <1>2, <2>1, <2>4, <2>7 DEF new
<1>3. CASE i # r.index
    <2> DEFINE P(k) == r.starts[k] = i
               K    == 1 .. Len(r.starts)
               m    == CHOOSE k \in K : P(k)
    <2>1. r.starts \in Seq(Nat) /\ r.index \in Nat /\ i \in Nat
        BY <1>1, ReaderFields DEF ReaderInv
    <2>2. DOMAIN r.starts = K
        BY <2>1, LenProperties
    <2>3. i < r.index
        BY <1>1, <1>3, <2>1, SMT
    <2>4. \E k \in K : P(k)
        BY <1>1, <2>2, <2>3 DEF ReaderInv, Stacked
    <2>5. m \in K /\ r.starts[m] = i
        BY <2>4, Zenon
    <2>6. new = [r EXCEPT !.index = i, !.pos = r.idx2pos[i],
                          !.starts = SubSeq(r.starts, 1, m - 1)]
        BY <1>3 DEF SeekTo
    <2> HIDE DEF m
    <2>7. new = Back(r, m)
        BY <2>5, <2>6 DEF Back
    <2>8. Back(r, m).pos = r.idx2pos[i]
        <3>1. ReaderInv(Back(r, m))
            BY <2>2, <2>5, BackInv
        <3> QED
            BY <2>2, <2>5, <3>1, BackInv DEF ReaderInv
    <2> HIDE DEF new
    <2> QED
        BY <2>2, <2>5, <2>7, <2>8, BackInv DEF new
<1> QED
    BY <1>2, <1>3

\* What peek returns is a rune, for every text: EOF, a byte, an accepted code
\* point, or rune_invalid for NUL and a byte order mark inside the text.
LEMMA PeekInRune ==
    ASSUME NEW r, ReaderInv(r)
    PROVE  Peek(r) \in Rune
<1>1. CASE Eof(r)
    BY <1>1, RuneFacts DEF Peek
<1>2. CASE ~ Eof(r)
    <2>1. r.slice \in Seq(Byte) /\ r.index \in Nat /\ r.index < Len(r.slice)
        BY <1>2, ReaderFields, SMT DEF ReaderInv, Eof
    <2>2. RuneAt(r.slice, r.index) \in Rune
        BY <2>1, RuneAtInRune
    <2> QED
        BY <1>2, <2>2 DEF Peek
<1> QED
    BY <1>1, <1>2

\* A saved position is always reached again: updatePos goes back to it, line
\* and column included, and keeps the positions saved before it.
LEMMA UpdatePosLands ==
    ASSUME NEW r, ReaderInv(r), NEW p, Saved(r, p)
    PROVE  /\ ReaderInv(UpdatePos(r, p))
           /\ UpdatePos(r, p).slice = r.slice
           /\ UpdatePos(r, p).index = p.offset
           /\ UpdatePos(r, p).pos = p
           /\ \A q : Saved(r, q) /\ q.offset <= p.offset => Saved(UpdatePos(r, p), q)
<1> DEFINE new == UpdatePos(r, p)
<1>1. /\ p.offset \in DOMAIN r.idx2pos /\ p.offset <= r.index /\ p.offset \in Nat
      /\ r.idx2pos[p.offset] = p
    BY DEF Saved, Pos
<1>2. r.slice \in Seq(Byte) /\ r.index \in Nat /\ r.index <= Len(r.slice) /\ Len(r.slice) \in Nat
    BY ReaderFields DEF ReaderInv
<1>3. /\ ReaderInv(new) /\ new.slice = r.slice /\ new.index = p.offset /\ new.pos = p
      /\ new.idx2pos = r.idx2pos
    <2>1. CASE SeekOk(r, p.offset)
        <3>1. new = SeekTo(r, p.offset)
            BY <2>1 DEF UpdatePos
        <3> QED
            BY <1>1, <2>1, <3>1, SeekToInv
    <2>2. CASE ~ SeekOk(r, p.offset)
        <3>1. new = r
            BY <2>2 DEF UpdatePos
        <3>2. ~ (p.offset < Len(r.slice))
            BY <1>1, <2>2, SeekOkExact
        <3>3. p.offset = r.index
            BY <1>1, <1>2, <3>2, SMT
        <3>4. r.pos = p
            BY <1>1, <3>3 DEF ReaderInv
        <3> QED
            BY <3>1, <3>3, <3>4
    <2> QED
        BY <2>1, <2>2
<1> HIDE DEF new
<1>4. \A q : Saved(r, q) /\ q.offset <= p.offset => Saved(new, q)
    BY <1>3 DEF Saved
<1> QED
    BY <1>3, <1>4 DEF new

\* data yields bytes of the text.
LEMMA DataIsText ==
    ASSUME NEW r, ReaderInv(r), NEW p, p \in Pos
    PROVE  Data(r, p) \in Seq(Byte)
<1>1. r.slice \in Seq(Byte) /\ r.index \in Nat /\ r.index <= Len(r.slice) /\ p.offset \in Nat
    BY ReaderFields DEF ReaderInv, Pos
<1> DEFINE from == p.offset + 1
<1>2. from \in Int /\ from >= 1
    BY <1>1, SMT
<1>3. DOMAIN r.slice = 1 .. Len(r.slice) /\ Len(r.slice) \in Nat
    BY <1>1, LenProperties
<1> HIDE DEF from
<1>4. \A i \in from .. r.index : i \in 1 .. Len(r.slice)
    BY <1>1, <1>2, <1>3, SMT
<1>5. \A i \in from .. r.index : r.slice[i] \in Byte
    BY <1>1, <1>4, ElementOfSeq
<1>6. r.index \in Int
    BY <1>1, SMT
<1>7. SubSeq(r.slice, from, r.index) \in Seq(Byte)
    BY <1>2, <1>5, <1>6, SubSeqProperties
<1> QED
    BY <1>7 DEF Data, from

-----------------------------------------------------------------------------
(* Columns, as next records them.  (move_next does not: it adds the width of   *)
(* a newline after the reset.)                                                *)

\* The column at an offset is its distance from the last newline before it, or
\* from the start of the text.
Column(s, i, c) ==
    \E n \in {k \in 1 .. i : s[k] = 10} \cup {0} :
        /\ c = i - n
        /\ \A k \in {k \in 1 .. i : s[k] = 10} : k <= n

\* Every recorded position has the column of its offset.
Columned(r) == \A i \in DOMAIN r.idx2pos : Column(r.slice, i, r.idx2pos[i].col)

\* A text starts in column 0.
LEMMA NewReaderColumned ==
    ASSUME NEW t
    PROVE  Columned(NewReader(t))
<1>1. DOMAIN NewReader(t).idx2pos = {0} /\ NewReader(t).idx2pos[0].col = 0
    BY DEF NewReader, Origin
<1>2. {k \in 1 .. 0 : t[k] = 10} = {}
    BY SMT
<1>3. 0 = 0 - 0
    BY SMT
<1>4. Column(t, 0, 0)
    BY <1>2, <1>3, Zenon DEF Column
<1> QED
    BY <1>1, <1>4 DEF Columned, NewReader

\* The column behind a rune: 0 behind a newline, otherwise further by its width.
LEMMA ColumnAfterRune ==
    ASSUME NEW s \in Seq(Byte), NEW i \in Nat, i < Len(s), NEW c \in Nat, Column(s, i, c)
    PROVE  Column(s, i + DecodeWidth(s, i),
                  IF RuneAt(s, i) = 10 THEN 0 ELSE c + DecodeWidth(s, i))
<1> DEFINE w == DecodeWidth(s, i)
           before == {k \in 1 .. i : s[k] = 10}
           after  == {k \in 1 .. i + w : s[k] = 10}
<1>1. w \in 1 .. 4
    BY DecodeWidthBounds
<1>2. /\ s[i + 1] = 10 => w = 1
      /\ \A k \in i + 2 .. i + w : s[k] # 10
      /\ RuneAt(s, i) = 10 <=> s[i + 1] = 10
    BY NewlineIsAByte, NewlineRune
<1> HIDE DEF w
<1>3. CASE s[i + 1] = 10
    <2>1. w = 1
        BY <1>2, <1>3
    <2>2. i + 1 \in 1 .. i + 1 /\ 0 = (i + 1) - (i + 1) /\ \A k \in 1 .. i + 1 : k <= i + 1
        BY SMT
    <2>3. Column(s, i + 1, 0)
        BY <1>3, <2>2, Zenon DEF Column
    <2> QED
        BY <1>2, <1>3, <2>1, <2>3 DEF w
<1>4. CASE s[i + 1] # 10
    <2>1. \A k \in 1 .. i + w : k \in 1 .. i \/ k = i + 1 \/ k \in i + 2 .. i + w
        BY <1>1, SMT
    <2>2. \A k \in 1 .. i : k \in 1 .. i + w
        BY <1>1, SMT
    <2>3. after = before
        BY <1>2, <1>4, <2>1, <2>2, Zenon
    <2>4. PICK n \in before \cup {0} : c = i - n /\ \A k \in before : k <= n
        BY DEF Column
    <2>5. n \in Nat
        BY <2>4, SMT
    <2>6. c + w = (i + w) - n
        BY <1>1, <2>4, <2>5, SMT
    <2>7. Column(s, i + w, c + w)
        BY <2>3, <2>4, <2>6, Zenon DEF Column
    <2> QED
        BY <1>2, <1>4, <2>7 DEF w
<1> QED
    BY <1>3, <1>4

\* peek and curr record nothing.
LEMMA PeekedColumned ==
    ASSUME NEW r, ReaderInv(r), Columned(r)
    PROVE  Columned(Peeked(r))
BY PeekedInv DEF Columned

\* next records the column of the offset it reaches.
LEMMA AdvanceColumned ==
    ASSUME NEW r, ReaderInv(r), Columned(r)
    PROVE  Columned(Advance(r))
<1>1. CASE Eof(r)
    BY <1>1 DEF Advance
<1>2. CASE ~ Eof(r)
    <2> DEFINE p   == PosAfterNext(r)
               new == Forward(r, p)
    <2>1. EndsRune(r, p)
        BY <1>2, PosAfterEndsRune
    <2>2. /\ r.slice \in Seq(Byte) /\ r.index \in Nat /\ r.index < Len(r.slice)
          /\ r.index \in DOMAIN r.idx2pos /\ r.pos = r.idx2pos[r.index]
          /\ r.pos.col \in Nat
        BY <1>2, ReaderFields, SMT DEF ReaderInv, Eof, Pos
    <2>3. Column(r.slice, r.index, r.pos.col)
        BY <2>2 DEF Columned
    <2>4. p.col = IF RuneAt(r.slice, r.index) = 10 THEN 0
                  ELSE r.pos.col + DecodeWidth(r.slice, r.index)
        BY DEF PosAfterNext
    <2>5. p.offset = r.index + DecodeWidth(r.slice, r.index)
        BY <2>1 DEF EndsRune
    <2>6. Column(r.slice, p.offset, p.col)
        BY <2>2, <2>3, <2>4, <2>5, ColumnAfterRune
    <2>7. Advance(r) = new
        BY <1>2 DEF Advance
    <2> HIDE DEF p
    <2>8. new.slice = r.slice /\ new.idx2pos = Put(r.idx2pos, p.offset, p)
        BY <1>2, <2>1, ForwardInv
    <2>9. IsPut(new.idx2pos, r.idx2pos, p.offset, p)
        BY <2>8, PutFacts
    <2> HIDE DEF new
    <2>10. \A i \in DOMAIN new.idx2pos : Column(r.slice, i, new.idx2pos[i].col)
        BY <2>6, <2>9 DEF IsPut, Columned
    <2> QED
        BY <2>7, <2>8, <2>10 DEF Columned
<1> QED
    BY <1>1, <1>2

\* updatePos records nothing.
LEMMA UpdatePosColumned ==
    ASSUME NEW r, ReaderInv(r), Columned(r), NEW p
    PROVE  Columned(UpdatePos(r, p))
<1>1. CASE SeekOk(r, p.offset)
    BY <1>1, SeekToInv DEF UpdatePos, Columned
<1>2. CASE ~ SeekOk(r, p.offset)
    BY <1>2 DEF UpdatePos
<1> QED
    BY <1>1, <1>2
=============================================================================
