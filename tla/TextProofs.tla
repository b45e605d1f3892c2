----------------------------- MODULE TextProofs -----------------------------
(***************************************************************************)
(* The text that scan() takes in and the text it skips, for every set of   *)
(* statements: quoted identifiers and string literals (lexer.cc:245-281,   *)
(* scanner.cc:117-206), white space and comments (scanner.cc:84-100,       *)
(* lexer.cc:27-182), and words.  In each, what the handlers have made of   *)
(* the text so far, joined to what the references say of the rest, is what *)
(* they say of the whole.                                                  *)
(***************************************************************************)
EXTENDS LiteralProofs

(***************************************************************************)
(* What the references say of an offset, in terms of the offset behind it. *)
(***************************************************************************)
LEMMA BytesAssociative ==
    ASSUME NEW x \in Seq(Byte), NEW y \in Seq(Byte), NEW z \in Seq(Byte)
    PROVE  (x \o y) \o z = x \o (y \o z)
BY ConcatAssociative

\* What one step of Unquoted takes from the offset k: the quote of a pair, a
\* character that is escaped, or a byte; and where it goes on.
Taken(s, k, q, backslash) ==
    IF s[k + 1] = q THEN <<q>>
    ELSE IF s[k + 1] = Backslash /\ backslash THEN EscapedText(s[k + 2]) ELSE <<s[k + 1]>>

Onto(s, k, q, backslash) ==
    IF s[k + 1] = q \/ (s[k + 1] = Backslash /\ backslash) THEN k + 2 ELSE k + 1

LEMMA EscapedTextIsBytes ==
    ASSUME NEW c \in Byte
    PROVE  EscapedText(c) \in Seq(Byte)
<1>1. /\ 10 \in Byte /\ 0 \in Byte /\ 8 \in Byte /\ 26 \in Byte /\ 13 \in Byte /\ 9 \in Byte
      /\ 92 \in Byte
    BY SMT DEF Byte
<1>2. \A x \in Byte : <<x>> \in Seq(Byte)
    BY SMT
<1>3. <<92, c>> \in Seq(Byte)
    BY <1>1
<1>4. /\ <<10>> \in Seq(Byte) /\ <<0>> \in Seq(Byte) /\ <<8>> \in Seq(Byte) /\ <<26>> \in Seq(Byte)
      /\ <<13>> \in Seq(Byte) /\ <<9>> \in Seq(Byte) /\ <<c>> \in Seq(Byte)
    BY <1>1, <1>2
<1> DEFINE V == Seq(Byte)
<1> HIDE DEF V
<1> QED
    BY <1>3, <1>4 DEF EscapedText, V

LEMMA TakenIsBytes ==
    ASSUME NEW s \in Seq(Byte), NEW j \in Nat, j < Len(s), NEW k \in 0 .. j + 1, k < j,
           NEW q \in Byte, NEW backslash \in BOOLEAN
    PROVE  /\ Taken(s, k, q, backslash) \in Seq(Byte)
           /\ Onto(s, k, q, backslash) \in k + 1 .. j + 1
<1>1. k + 1 \in DOMAIN s /\ k + 2 \in DOMAIN s /\ s[k + 1] \in Byte /\ s[k + 2] \in Byte
    BY SMT
<1>2. EscapedText(s[k + 2]) \in Seq(Byte) /\ <<q>> \in Seq(Byte) /\ <<s[k + 1]>> \in Seq(Byte)
    BY <1>1, EscapedTextIsBytes
<1>3. Taken(s, k, q, backslash) \in Seq(Byte)
    BY <1>2 DEF Taken
<1>4. Onto(s, k, q, backslash) \in {k + 1, k + 2}
    BY DEF Onto
<1>5. {k + 1, k + 2} \subseteq k + 1 .. j + 1
    BY SMT
<1> QED
    BY <1>3, <1>4, <1>5

\* The equation of Unquoted.
LEMMA UnquotedEquation ==
    ASSUME NEW s \in Seq(Byte), NEW j \in Nat, j < Len(s),
           NEW q \in Byte, q # Backslash, NEW backslash \in BOOLEAN
    PROVE  \A i \in 0 .. j + 1 :
              /\ Unquoted(s, i, j, q, backslash) \in Seq(Byte)
              /\ Unquoted(s, i, j, q, backslash) =
                    IF i >= j THEN << >>
                    ELSE Taken(s, i, q, backslash)
                         \o Unquoted(s, Onto(s, i, q, backslash), j, q, backslash)
<1> DEFINE D == 0 .. j + 1
           V == Seq(Byte)
           rank == [k \in D |-> (j + 1) - k]
           onto(k) == Onto(s, k, q, backslash)
           taken(k) == Taken(s, k, q, backslash)
           onward == [k \in D |-> IF k >= j THEN k ELSE onto(k)]
           Stop == {k \in D : k >= j}
           base == [k \in D |-> << >>]
           step == [k \in D |-> [v \in V |-> IF k >= j THEN << >> ELSE taken(k) \o v]]
<1>1. j + 1 \in Nat
    OBVIOUS
<1>2. \A k \in D : k < j => taken(k) \in V /\ onto(k) \in k + 1 .. j + 1
    BY TakenIsBytes
<1>3. \A k \in D : k \in Int /\ (k >= j <=> ~(k < j))
    OBVIOUS
<1>4. \A k \in D : k < j => onto(k) \in D /\ k < onto(k) /\ onto(k) \in Nat /\ k \in Nat
    <2> SUFFICES ASSUME NEW k \in D, k < j
                 PROVE  \A l \in k + 1 .. j + 1 : l \in D /\ k < l /\ l \in Nat /\ k \in Nat
        BY <1>2
    <2> QED
        BY SMT
<1> HIDE DEF taken, onto
<1>5. Descends(D, rank, j + 1, Stop, onward)
    <2>1. rank \in [D -> Nat] /\ \A k \in D : rank[k] <= j + 1
        OBVIOUS
    <2>2. onward \in [D -> D]
        BY <1>3, <1>4
    <2>3. ASSUME NEW k \in D, k \notin Stop
          PROVE  rank[onward[k]] < rank[k]
        <3>1. onward[k] = onto(k) /\ onto(k) \in D /\ k < onto(k) /\ onto(k) \in Nat /\ k \in Nat
            BY <1>3, <1>4, <2>3
        <3>2. rank[onto(k)] = (j + 1) - onto(k) /\ rank[k] = (j + 1) - k
            BY <3>1
        <3> QED
            BY <3>1, <3>2
    <2> HIDE DEF D, rank, onward, Stop
    <2> QED
        BY <2>1, <2>2, <2>3 DEF Descends
<1>6. base \in [D -> V] /\ step \in [D -> [V -> V]]
    <2>1. << >> \in V
        OBVIOUS
    <2>2. \A k \in D, v \in V : (IF k >= j THEN << >> ELSE taken(k) \o v) \in V
        <3> SUFFICES ASSUME NEW k \in D, NEW v \in V
                     PROVE  (IF k >= j THEN << >> ELSE taken(k) \o v) \in V
            OBVIOUS
        <3>1. k < j => taken(k) \o v \in V
            <4>1. k < j => taken(k) \in V
                BY <1>2
            <4> HIDE DEF D
            <4> QED
                BY <4>1, ConcatProperties
        <3> QED
            BY <1>3, <2>1, <3>1
    <2> HIDE DEF D, V
    <2> QED
        BY <2>1, <2>2
<1>7. PICK F \in [D -> V] : Recurses(F, D, Stop, onward, base, step)
    <2> HIDE DEF D, V, rank, onward, Stop, base, step
    <2> QED
        BY <1>1, <1>5, <1>6, Recursion
<1>8. \A k \in D : F[k] = IF k >= j THEN << >> ELSE taken(k) \o F[onto(k)]
    <2>1. \A k \in D : k \in Stop <=> k >= j
        OBVIOUS
    <2>2. \A k \in D : ~(k >= j) => onward[k] = onto(k) /\ onward[k] \in D
        BY <1>3, <1>4
    <2>3. \A k \in D : base[k] = << >>
        OBVIOUS
    <2>4. \A k \in D : \A v \in V : ~(k >= j) => step[k][v] = taken(k) \o v
        OBVIOUS
    <2> HIDE DEF D, V, Stop, onward, base, step
    <2> QED
        BY SMTT(30), <1>7, <2>1, <2>2, <2>3, <2>4 DEF Recurses
<1> DEFINE Eq(f, i) == f = [k \in i .. j + 1 |-> IF k >= j THEN << >> ELSE taken(k) \o f[onto(k)]]
           Ours(i) == CHOOSE f : Eq(f, i)
<1>9. ASSUME NEW i \in D
      PROVE  Eq([k \in i .. j + 1 |-> F[k]], i)
    <2> DEFINE E == i .. j + 1
               f == [k \in E |-> F[k]]
    <2>1. \A k \in E : k \in D /\ (~(k >= j) => onto(k) \in E)
        <3> SUFFICES ASSUME NEW k \in E
                     PROVE  k \in D /\ (~(k >= j) => onto(k) \in E)
            OBVIOUS
        <3>1. k \in D
            OBVIOUS
        <3>2. \A l \in k + 1 .. j + 1 : l \in E
            OBVIOUS
        <3> HIDE DEF D, E
        <3> QED
            BY <1>2, <1>3, <3>1, <3>2
    <2>2. \A k \in E : ~(k >= j) => f[onto(k)] = F[onto(k)]
        BY <2>1
    <2> HIDE DEF E
    <2>3. \A k \in E : F[k] = IF k >= j THEN << >> ELSE taken(k) \o f[onto(k)]
        BY <1>8, <2>1, <2>2
    <2>4. f = [k \in E |-> IF k >= j THEN << >> ELSE taken(k) \o f[onto(k)]]
        BY <2>3
    <2> QED
        BY <2>4 DEF E
<1>10. ASSUME NEW i \in D, NEW f, Eq(f, i)
       PROVE  \A k \in i .. j + 1 : f[k] = F[k]
    <2> DEFINE T == {k \in D : k >= i => f[k] = F[k]}
    <2>1. ASSUME NEW k \in D, \A l \in D : k < l => l \in T
          PROVE  k \in T
        <3> SUFFICES ASSUME k >= i
                     PROVE  f[k] = F[k]
            BY <2>1
        <3>1. k \in i .. j + 1
            OBVIOUS
        <3>2. f[k] = IF k >= j THEN << >> ELSE taken(k) \o f[onto(k)]
            BY <1>10, <3>1
        <3>3. ~(k >= j) => f[onto(k)] = F[onto(k)]
            <4>1. ~(k >= j) => onto(k) \in T /\ onto(k) >= i
                <5>1. ~(k >= j) => onto(k) \in D /\ k < onto(k) /\ onto(k) \in Nat /\ k \in Nat
                    BY <1>3, <1>4
                <5> QED
                    BY <2>1, <5>1
            <4> QED
                BY <4>1
        <3> QED
            BY <1>8, <3>2, <3>3
    <2> HIDE DEF T
    <2>2. D \subseteq T
        BY <1>1, <2>1, FromTheEnd
    <2> QED
        BY <2>2 DEF T
<1>11. ASSUME NEW i \in D
       PROVE  Ours(i)[i] = F[i]
    <2>1. Eq(Ours(i), i)
        <3>1. \E f : Eq(f, i)
            BY <1>9
        <3> HIDE DEF Eq
        <3> QED
            BY <3>1
    <2>2. i \in i .. j + 1
        OBVIOUS
    <2> HIDE DEF Eq, Ours
    <2> QED
        BY <1>10, <2>1, <2>2
<1>12. ASSUME NEW i \in D
       PROVE  Unquoted(s, i, j, q, backslash) = Ours(i)[i]
    <2> DEFINE Body(f, k) == CASE k >= j -> << >>
                               [] k < j /\ s[k + 1] = q -> <<q>> \o f[k + 2]
                               [] k < j /\ s[k + 1] = Backslash /\ backslash ->
                                     EscapedText(s[k + 2]) \o f[k + 2]
                               [] OTHER -> <<s[k + 1]>> \o f[k + 1]
    <2>1. ASSUME NEW f, NEW k \in i .. j + 1
          PROVE  Body(f, k) = IF k >= j THEN << >> ELSE taken(k) \o f[onto(k)]
        <3>1. k >= j <=> ~(k < j)
            OBVIOUS
        <3>2. CASE k >= j
            BY <3>1, <3>2
        <3>3. CASE k < j /\ s[k + 1] = q
            BY <3>1, <3>3, Zenon DEF taken, onto, Taken, Onto
        <3>4. CASE k < j /\ s[k + 1] # q /\ s[k + 1] = Backslash /\ backslash
            BY <3>1, <3>4, Zenon DEF taken, onto, Taken, Onto
        <3>5. CASE k < j /\ s[k + 1] # q /\ ~(s[k + 1] = Backslash /\ backslash)
            BY <3>1, <3>5, Zenon DEF taken, onto, Taken, Onto
        <3> QED
            BY <3>1, <3>2, <3>3, <3>4, <3>5
    <2> HIDE DEF Body
    <2>2. \A f : f = [k \in i .. j + 1 |-> Body(f, k)] <=> Eq(f, i)
        BY <2>1
    <2>3. (CHOOSE f : f = [k \in i .. j + 1 |-> Body(f, k)]) = Ours(i)
        BY <2>2
    <2> QED
        BY <2>3 DEF Unquoted, Body
<1>13. \A i \in D : Unquoted(s, i, j, q, backslash) = F[i]
    BY <1>11, <1>12
<1>14. \A i \in D : Unquoted(s, i, j, q, backslash) \in V
    BY <1>7, <1>13
<1>15. \A i \in D : Unquoted(s, i, j, q, backslash) =
           IF i >= j THEN << >> ELSE taken(i) \o Unquoted(s, onto(i), j, q, backslash)
    <2> HIDE DEF D
    <2> QED
        BY <1>3, <1>4, <1>8, <1>13
<1> QED
    BY <1>14, <1>15 DEF taken, onto

\* At offset i stands a quote that is not the first of a pair.
Closes(s, i, q) == s[i + 1] = q /\ (i + 1 < Len(s) => s[i + 2] # q)

LEMMA LooksPair ==
    ASSUME NEW s \in Seq(Byte), NEW i \in Nat, i < Len(s), NEW q, s[i + 1] = q
    PROVE  Looks(s, i, <<q, q>>) <=> ~Closes(s, i, q)
<1>1. Looks(s, i, <<q, q>>) <=> i + 2 <= Len(s) /\ SubSeq(s, i + 1, i + 2) = <<q, q>>
    <2>1. Len(<<q, q>>) = 2
        BY SMT
    <2> QED
        BY <2>1 DEF Looks
<1>2. i + 2 <= Len(s) => SubSeq(s, i + 1, i + 2) = <<s[i + 1], s[i + 2]>>
    <2>1. 2 \in 1 .. 4
        BY SMT
    <2> QED
        BY <2>1, FewBytes
<1>3. i + 2 <= Len(s) <=> i + 1 < Len(s)
    <2>1. Len(s) \in Nat
        BY LenProperties
    <2> QED
        BY <2>1, SMT
<1>4. \A a, b, c : <<a, b>> = <<a, c>> <=> b = c
    BY SMT
<1> QED
    BY <1>1, <1>2, <1>3, <1>4 DEF Closes

\* The equation of LiteralEnd, from the offset i on.
LEMMA EndEquation ==
    ASSUME NEW s \in Seq(Byte), NEW q \in Byte, q # Backslash, NEW backslash \in BOOLEAN
    PROVE  \A i \in 0 .. Len(s) + 1 :
              LiteralEnd(s, i - 1, q, backslash) =
                 IF i >= Len(s) THEN 0
                 ELSE IF Closes(s, i, q) THEN i + 1
                 ELSE LiteralEnd(s, Onto(s, i, q, backslash) - 1, q, backslash)
<1> DEFINE N == Len(s)
           D == 0 .. N + 1
           onto(k) == Onto(s, k, q, backslash)
           closes(k) == Closes(s, k, q)
           rank == [k \in D |-> (N + 1) - k]
           Stop == {k \in D : k >= N \/ closes(k)}
           onward == [k \in D |-> IF k \in Stop THEN k ELSE onto(k)]
           base == [k \in D |-> IF k >= N THEN 0 ELSE k + 1]
           step == [k \in D |-> [v \in Nat |-> v]]
<1>1. N \in Nat
    BY LenProperties
<1>2. \A k \in D : k < N => onto(k) \in D /\ k < onto(k) /\ onto(k) \in Nat /\ k \in Nat
    <2> SUFFICES ASSUME NEW k \in D, k < N
                 PROVE  onto(k) \in D /\ k < onto(k) /\ onto(k) \in Nat /\ k \in Nat
        OBVIOUS
    <2>1. onto(k) \in {k + 1, k + 2}
        BY DEF Onto
    <2>2. \A l \in {k + 1, k + 2} : l \in D /\ k < l /\ l \in Nat /\ k \in Nat
        BY <1>1
    <2> HIDE DEF D, onto
    <2> QED
        BY <2>1, <2>2
<1>3. \A k \in D : k \in Int /\ (k >= N <=> ~(k < N))
    BY <1>1
<1> HIDE DEF onto, closes, N
<1>4. Descends(D, rank, N + 1, Stop, onward)
    <2>1. rank \in [D -> Nat] /\ \A k \in D : rank[k] <= N + 1
        BY <1>1
    <2>2. onward \in [D -> D]
        BY <1>2, <1>3
    <2>3. ASSUME NEW k \in D, k \notin Stop
          PROVE  rank[onward[k]] < rank[k]
        <3>1. onward[k] = onto(k) /\ onto(k) \in D /\ k < onto(k) /\ onto(k) \in Nat /\ k \in Nat
            BY <1>2, <1>3, <2>3
        <3>2. rank[onto(k)] = (N + 1) - onto(k) /\ rank[k] = (N + 1) - k
            BY <3>1
        <3> QED
            BY <1>1, <3>1, <3>2
    <2> HIDE DEF D, rank, onward, Stop
    <2> QED
        BY <2>1, <2>2, <2>3 DEF Descends
<1>5. base \in [D -> Nat] /\ step \in [D -> [Nat -> Nat]]
    BY <1>1
<1>6. PICK f \in [D -> Nat] : Recurses(f, D, Stop, onward, base, step)
    <2>1. N + 1 \in Nat
        BY <1>1
    <2> HIDE DEF D, rank, onward, Stop, base, step
    <2> QED
        BY <1>4, <1>5, <2>1, Recursion
<1> DEFINE Body(g, k) == CASE k >= Len(s) -> 0
                           [] k < Len(s) /\ s[k + 1] = q ->
                                 IF Looks(s, k, <<q, q>>) THEN g[k + 2] ELSE k + 1
                           [] k < Len(s) /\ s[k + 1] = Backslash /\ backslash -> g[k + 2]
                           [] OTHER -> g[k + 1]
           Value(g, k) == IF k >= N THEN 0 ELSE IF closes(k) THEN k + 1 ELSE g[onto(k)]
<1>7. ASSUME NEW g, NEW k \in D
      PROVE  Body(g, k) = Value(g, k)
    <2>1. k >= N <=> ~(k < N)
        BY <1>3
    <2>2. CASE k >= N
        BY <2>1, <2>2 DEF N
    <2>3. CASE k < N /\ s[k + 1] = q
        <3>1. Looks(s, k, <<q, q>>) <=> ~closes(k)
            <4>1. k \in Nat
                BY <1>2, <2>3
            <4> QED
                BY <2>3, <4>1, LooksPair DEF N, closes
        <3> QED
            BY <2>1, <2>3, <3>1, Zenon DEF onto, Onto, N
    <2>4. CASE k < N /\ s[k + 1] # q
        <3>1. ~closes(k)
            BY <2>4 DEF closes, Closes
        <3>2. CASE s[k + 1] = Backslash /\ backslash
            BY <2>1, <2>4, <3>1, <3>2, Zenon DEF onto, Onto, N
        <3>3. CASE ~(s[k + 1] = Backslash /\ backslash)
            BY <2>1, <2>4, <3>1, <3>3, Zenon DEF onto, Onto, N
        <3> QED
            BY <3>2, <3>3
    <2> QED
        BY <2>1, <2>2, <2>3, <2>4
<1>8. f = [k \in D |-> Value(f, k)]
    <2>1. \A k \in D : k \in Stop <=> (k >= N \/ closes(k))
        OBVIOUS
    <2>2. \A k \in D : k \notin Stop => onward[k] = onto(k) /\ onward[k] \in D
        BY <1>2, <1>3
    <2>3. \A k \in D : base[k] = IF k >= N THEN 0 ELSE k + 1
        OBVIOUS
    <2>4. \A k \in D : \A v \in Nat : step[k][v] = v
        OBVIOUS
    <2> HIDE DEF D, Stop, onward, base, step
    <2> QED
        BY <1>6, <2>1, <2>2, <2>3, <2>4 DEF Recurses
<1> HIDE DEF Body, Value
<1> DEFINE Eq(g) == g = [k \in D |-> Body(g, k)]
           end == CHOOSE g : Eq(g)
<1>9. Eq(end)
    BY <1>7, <1>8
<1>10. \A k \in D : end[k] = Value(end, k)
    BY <1>7, <1>9
<1>11. \A i : LiteralEnd(s, i, q, backslash) = end[i + 1]
    BY DEF LiteralEnd, Body, N
<1>12. \A i \in D : LiteralEnd(s, i - 1, q, backslash) = end[i]
    <2>1. \A i \in D : (i - 1) + 1 = i
        OBVIOUS
    <2> HIDE DEF D, end
    <2> QED
        BY <1>11, <2>1
<1>13. \A i \in D : LiteralEnd(s, i - 1, q, backslash) =
            IF i >= N THEN 0 ELSE IF closes(i) THEN i + 1 ELSE LiteralEnd(s, onto(i) - 1, q, backslash)
    <2> HIDE DEF D, end
    <2> QED
        BY <1>2, <1>3, <1>10, <1>12 DEF Value
<1> QED
    BY <1>13 DEF onto, closes, N

\* Of the literal that opens at b with the quote q, lit has been made of the text
\* up to e: the rest of it is what begins at e.
Told(s, b, e, lit, q, backslash) ==
    /\ LiteralEnd(s, b, q, backslash) = LiteralEnd(s, e - 1, q, backslash)
    /\ \A j \in e .. Len(s) - 1 :
          Unquoted(s, b + 1, j, q, backslash) = lit \o Unquoted(s, e, j, q, backslash)

\* Right behind the opening quote.
LEMMA ToldBegins ==
    ASSUME NEW s \in Seq(Byte), NEW b \in Nat,
           NEW q \in Byte, q # Backslash, NEW backslash \in BOOLEAN
    PROVE  Told(s, b, b + 1, << >>, q, backslash)
<1>1. (b + 1) - 1 = b /\ Len(s) \in Nat
    BY LenProperties
<1>2. ASSUME NEW j \in b + 1 .. Len(s) - 1
      PROVE  Unquoted(s, b + 1, j, q, backslash) \in Seq(Byte)
    <2>1. j \in Nat /\ j < Len(s) /\ b + 1 \in 0 .. j + 1
        BY <1>1
    <2> QED
        BY <2>1, UnquotedEquation
<1> QED
    BY <1>1, <1>2, ConcatEmptySeq DEF Told

\* One step further.
LEMMA ToldStep ==
    ASSUME NEW s \in Seq(Byte), NEW b \in Nat, NEW e \in Nat, b < e, e < Len(s),
           NEW lit \in Seq(Byte), NEW q \in Byte, q # Backslash, NEW backslash \in BOOLEAN,
           Told(s, b, e, lit, q, backslash), ~Closes(s, e, q)
    PROVE  Told(s, b, Onto(s, e, q, backslash), lit \o Taken(s, e, q, backslash), q, backslash)
<1> DEFINE o == Onto(s, e, q, backslash)
           t == Taken(s, e, q, backslash)
           U(i, j) == Unquoted(s, i, j, q, backslash)
           L(i) == LiteralEnd(s, i, q, backslash)
<1>1. Len(s) \in Nat
    BY LenProperties
<1>2. o \in {e + 1, e + 2}
    BY DEF Onto
<1>3. L(b) = L(e - 1) /\ \A j \in e .. Len(s) - 1 : U(b + 1, j) = lit \o U(e, j)
    BY DEF Told
<1>4. L(e - 1) = L(o - 1)
    <2>1. e \in 0 .. Len(s) + 1 /\ ~(e >= Len(s))
        BY <1>1
    <2> QED
        BY <2>1, EndEquation
<1>5. ASSUME NEW j \in o .. Len(s) - 1
      PROVE  U(b + 1, j) = (lit \o t) \o U(o, j)
    <2>1. o \in Nat /\ e < o
        BY <1>2
    <2> HIDE DEF o, t, U, L
    <2>2. /\ j \in Nat /\ j < Len(s) /\ e \in 0 .. j + 1 /\ o \in 0 .. j + 1 /\ ~(e >= j) /\ e < j
          /\ j \in e .. Len(s) - 1
        BY <1>1, <2>1
    <2>3. U(o, j) \in Seq(Byte) /\ U(e, j) = t \o U(o, j)
        BY <2>2, UnquotedEquation DEF U, o, t
    <2>4. t \in Seq(Byte)
        BY <2>2, TakenIsBytes DEF t
    <2>5. (lit \o t) \o U(o, j) = lit \o (t \o U(o, j))
        BY <2>3, <2>4, BytesAssociative
    <2> QED
        BY <1>3, <2>2, <2>3, <2>5
<1> QED
    BY <1>3, <1>4, <1>5 DEF Told

\* At its end.
LEMMA ToldEnds ==
    ASSUME NEW s \in Seq(Byte), NEW b \in Nat, NEW e \in Nat, b < e, e < Len(s),
           NEW lit \in Seq(Byte), NEW q \in Byte, q # Backslash, NEW backslash \in BOOLEAN,
           Told(s, b, e, lit, q, backslash), Closes(s, e, q)
    PROVE  /\ LiteralEnd(s, b, q, backslash) = e + 1
           /\ Unquoted(s, b + 1, e, q, backslash) = lit
<1>1. Len(s) \in Nat
    BY LenProperties
<1>2. LiteralEnd(s, e - 1, q, backslash) = e + 1
    <2>1. e \in 0 .. Len(s) + 1 /\ ~(e >= Len(s))
        BY <1>1
    <2> QED
        BY <2>1, EndEquation
<1>3. Unquoted(s, b + 1, e, q, backslash) = lit \o Unquoted(s, e, e, q, backslash)
    <2>1. e \in e .. Len(s) - 1
        BY <1>1
    <2> QED
        BY <2>1 DEF Told
<1>4. Unquoted(s, e, e, q, backslash) = << >>
    <2>1. e \in 0 .. e + 1 /\ e >= e
        OBVIOUS
    <2> QED
        BY <2>1, UnquotedEquation
<1>5. lit \o << >> = lit
    BY ConcatEmptySeq
<1> QED
    BY <1>2, <1>3, <1>4, <1>5 DEF Told

\* Past the text: it does not end.
LEMMA ToldNever ==
    ASSUME NEW s \in Seq(Byte), NEW b, NEW e \in {Len(s), Len(s) + 1}, NEW lit,
           NEW q \in Byte, q # Backslash, NEW backslash \in BOOLEAN,
           Told(s, b, e, lit, q, backslash)
    PROVE  LiteralEnd(s, b, q, backslash) = 0
<1>1. Len(s) \in Nat
    BY LenProperties
<1>2. e \in 0 .. Len(s) + 1 /\ e >= Len(s)
    BY <1>1
<1>3. LiteralEnd(s, e - 1, q, backslash) = 0
    BY <1>2, EndEquation
<1> QED
    BY <1>3 DEF Told

\* A byte that is neither the quote nor an escape stands for itself.
PlainByte(s, k, q, backslash) == s[k] # q /\ ~(s[k] = Backslash /\ backslash)

LEMMA ToldByte ==
    ASSUME NEW s \in Seq(Byte), NEW b \in Nat, NEW e \in Nat, b < e, e < Len(s),
           NEW lit \in Seq(Byte), NEW q \in Byte, q # Backslash, NEW backslash \in BOOLEAN,
           Told(s, b, e, lit, q, backslash), PlainByte(s, e + 1, q, backslash)
    PROVE  Told(s, b, e + 1, lit \o <<s[e + 1]>>, q, backslash)
<1>1. ~Closes(s, e, q)
    BY DEF Closes, PlainByte
<1>2. Onto(s, e, q, backslash) = e + 1 /\ Taken(s, e, q, backslash) = <<s[e + 1]>>
    BY DEF Onto, Taken, PlainByte
<1> QED
    BY <1>1, <1>2, ToldStep

\* A text of one byte, and one byte more.
LEMMA LongerText ==
    ASSUME NEW s \in Seq(Byte), NEW a \in Nat, NEW e \in Nat, a <= e, e < Len(s)
    PROVE  /\ SubSeq(s, a + 1, e) \in Seq(Byte)
           /\ SubSeq(s, a + 1, e + 1) = SubSeq(s, a + 1, e) \o <<s[e + 1]>>
<1>1. SubSeq(s, e + 1, e + 1) = <<s[e + 1]>>
    <2>1. 1 \in 1 .. 4 /\ e + 1 <= Len(s)
        BY LenProperties, SMT
    <2> QED
        BY <2>1, FewBytes
<1>2. SubSeq(s, a + 1, e) \o SubSeq(s, e + 1, e + 1) = SubSeq(s, a + 1, e + 1)
    <2>1. /\ a + 1 \in 1 .. Len(s) + 1 /\ e \in (a + 1) - 1 .. Len(s)
          /\ e + 1 \in e .. Len(s)
        BY LenProperties, SMT
    <2> QED
        BY <2>1, ConcatAdjacentSubSeq
<1>3. SubSeq(s, a + 1, e) \in Seq(Byte)
    BY LenProperties, SMT
<1> QED
    BY <1>1, <1>2, <1>3

\* A rune of such bytes stands for itself.
LEMMA ToldRune ==
    ASSUME NEW s \in Seq(Byte), NEW b \in Nat, NEW e \in Nat, b < e,
           NEW w \in 1 .. 4, e + w <= Len(s),
           NEW lit \in Seq(Byte), NEW q \in Byte, q # Backslash, NEW backslash \in BOOLEAN,
           Told(s, b, e, lit, q, backslash),
           \A k \in 1 .. w : PlainByte(s, e + k, q, backslash)
    PROVE  Told(s, b, e + w, lit \o SubSeq(s, e + 1, e + w), q, backslash)
<1> DEFINE P(n) == Told(s, b, e + n, lit \o SubSeq(s, e + 1, e + n), q, backslash)
<1>1. Len(s) \in Nat
    BY LenProperties
<1>2. ASSUME NEW n \in 0 .. 3, n < w, P(n)
      PROVE  P(n + 1)
    <2> DEFINE t == SubSeq(s, e + 1, e + n)
               d == e + n
    <2>1. d \in Nat /\ b < d /\ e <= d /\ d < Len(s) /\ d + 1 = e + (n + 1) /\ n + 1 \in 1 .. w
        BY <1>1, <1>2
    <2>2. t \in Seq(Byte) /\ SubSeq(s, e + 1, d + 1) = t \o <<s[d + 1]>>
        <3> HIDE DEF d
        <3>1. t = SubSeq(s, e + 1, d)
            BY DEF d
        <3> QED
            BY <2>1, <3>1, LongerText
    <2>3. lit \o t \in Seq(Byte)
        BY <2>2, ConcatProperties
    <2>4. PlainByte(s, d + 1, q, backslash)
        <3>1. PlainByte(s, e + (n + 1), q, backslash)
            BY <2>1
        <3> HIDE DEF d
        <3> QED
            BY <2>1, <3>1
    <2>5. Told(s, b, d + 1, (lit \o t) \o <<s[d + 1]>>, q, backslash)
        <3>1. Told(s, b, d, lit \o t, q, backslash)
            BY <1>2
        <3> HIDE DEF d, t
        <3> QED
            BY <2>1, <2>3, <2>4, <3>1, ToldByte
    <2>6. (lit \o t) \o <<s[d + 1]>> = lit \o (t \o <<s[d + 1]>>)
        <3>1. <<s[d + 1]>> \in Seq(Byte)
            <4>1. d + 1 \in DOMAIN s
                BY <2>1, SMT
            <4> QED
                BY <4>1
        <3> DEFINE c == <<s[d + 1]>>
        <3>2. t \in Seq(Byte) /\ c \in Seq(Byte)
            BY <2>2, <3>1
        <3> HIDE DEF c, d, t
        <3>3. (lit \o t) \o c = lit \o (t \o c)
            BY <3>2, BytesAssociative
        <3> QED
            BY <3>3 DEF c
    <2> HIDE DEF d, t
    <2>7. Told(s, b, d + 1, lit \o SubSeq(s, e + 1, d + 1), q, backslash)
        BY <2>2, <2>5, <2>6
    <2> QED
        BY <2>1, <2>7
<1>3. P(0)
    <2>1. SubSeq(s, e + 1, e + 0) = << >>
        BY EmptySeq, SMT
    <2>2. lit \o << >> = lit /\ e + 0 = e
        BY ConcatEmptySeq
    <2> QED
        BY <2>1, <2>2
<1> HIDE DEF P
<1>4. P(1) /\ (w >= 2 => P(2)) /\ (w >= 3 => P(3)) /\ (w >= 4 => P(4))
    <2>1. P(1)
        <3>1. 0 \in 0 .. 3 /\ 0 < w /\ 0 + 1 = 1
            BY SMT
        <3> QED
            BY <1>2, <1>3, <3>1
    <2>2. w >= 2 => P(2)
        <3>1. 1 \in 0 .. 3 /\ (w >= 2 => 1 < w) /\ 1 + 1 = 2
            BY SMT
        <3> QED
            BY <1>2, <2>1, <3>1
    <2>3. w >= 3 => P(3)
        <3>1. 2 \in 0 .. 3 /\ (w >= 3 => 2 < w /\ w >= 2) /\ 2 + 1 = 3
            BY SMT
        <3> QED
            BY <1>2, <2>2, <3>1
    <2>4. w >= 4 => P(4)
        <3>1. 3 \in 0 .. 3 /\ (w >= 4 => 3 < w /\ w >= 3) /\ 3 + 1 = 4
            BY SMT
        <3> QED
            BY <1>2, <2>3, <3>1
    <2> QED
        BY <2>1, <2>2, <2>3, <2>4
<1>5. P(w)
    <2>1. w = 1 \/ w = 2 \/ w = 3 \/ w = 4
        OBVIOUS
    <2>2. CASE w = 1
        BY <1>4, <2>2
    <2>3. CASE w = 2
        BY <1>4, <2>3
    <2>4. CASE w = 3
        BY <1>4, <2>4
    <2>5. CASE w = 4
        BY <1>4, <2>5
    <2> QED
        BY <2>1, <2>2, <2>3, <2>4, <2>5
<1> QED
    BY <1>5 DEF P

-----------------------------------------------------------------------------
(* Identifiers between backquotes. *)

\* The handlers that read between quotes.
LEMMA QuotesFrom ==
    ASSUME Known, Scanning \/ Call
    PROVE  /\ fr'.pc \in Quoting => openQuotedIdent \/ scanQuotedIdent
           /\ fr'.pc \in Stringing =>
                 \/ startString \/ scanString \/ afterQuote \/ handleEscape \/ writeString
<1>0. ScanInv /\ Ahead(rd, fr) /\ Paced(rd, fr) /\ fr \in Frame
    BY Found DEF Known
<1> SUFFICES ASSUME fr'.pc \in Quoting \cup Stringing
             PROVE  /\ fr'.pc \in Quoting => openQuotedIdent \/ scanQuotedIdent
                    /\ fr'.pc \in Stringing =>
                          \/ startString \/ scanString \/ afterQuote \/ handleEscape \/ writeString
    OBVIOUS
<1>1. Flows
    BY <1>0, NextFlows
<1>2. /\ "inc" \notin Quoting \cup Stringing /\ (Quoting \cup Stringing) \cap Returns = {}
      /\ (Quoting \cup Stringing) \cap (Counted \cup Outside \cup {"prefix", "number2", "identEnd",
                                                                   "nnEnd", "ident", "idle"}) = {}
      /\ Quoting \cap Stringing = {} /\ "stringPeek" \notin Quoting /\ "quotedLoop" \notin Stringing
      /\ Quoting \cup Stringing \subseteq Steady
    BY SMT DEF Quoting, Stringing, Returns, Counted, Numeric, Outside, Slashing, Steady
<1>3. Stage(fr') = fr'.pc
    BY <1>2 DEF Stage
<1>4. CASE incAsLongAs
    <2>1. fr.pc = "inc" /\ fr.ret \in Returns
        BY <1>0, <1>4 DEF incAsLongAs, IncNext, IncErrored, IncStop, At, Ahead
    <2>2. \A c : [fr EXCEPT !.pc = fr.ret, !.ch = c].pc = fr.ret
        BY <1>0 DEF Frame
    <2>3. fr'.pc \in {"inc", fr.ret}
        BY <1>4, <2>1, <2>2 DEF incAsLongAs, IncNext, IncErrored, IncStop, Step
    <2> QED
        BY <1>2, <2>1, <2>3
<1>5. CASE Going
    <2>1. Keeps(Kin(fr.pc))
        BY <1>0, <1>5, GoingKeeps
    <2>2. fr' # NoFrame
        BY <1>2 DEF NoFrame
    <2>3. fr'.pc \in Kin(fr.pc)
        BY <1>2, <2>1, <2>2 DEF Keeps, On
    <2>4. CASE fr.pc \in Quoting
        <3>1. fr'.pc \in Quoting
            BY <2>3, <2>4, KinFacts
        <3>2. ~(startWithStub \/ prefix \/ scanIdentifier \/ startWithNn)
            BY <2>4 DEF startWithStub, prefix, scanIdentifier, startWithNn, At, Quoting
        <3>3. ~(startString \/ scanString \/ afterQuote \/ handleEscape \/ writeString)
            BY <2>4 DEF startString, scanString, afterQuote, handleEscape, writeString, At, Quoting
        <3> QED
            BY <1>2, <1>5, <3>1, <3>2, <3>3 DEF Going
    <2>5. CASE fr.pc \in Stringing
        <3>1. fr'.pc \in Stringing
            BY <2>3, <2>5, KinFacts
        <3>2. ~(startWithStub \/ prefix \/ scanIdentifier \/ startWithNn \/ scanQuotedIdent)
            BY <2>5 DEF startWithStub, prefix, scanIdentifier, startWithNn, scanQuotedIdent, At,
                        Stringing
        <3> QED
            BY <1>2, <1>5, <3>1, <3>2 DEF Going
    <2> QED
        BY <2>3, <2>4, <2>5 DEF Kin
<1>6. CASE Counting \/ scanFloat \/ exponent
    <2>1. fr' = NoFrame \/ On(Counted, fr')
        BY <1>0, <1>6, NumbersStep
    <2> QED
        BY <1>2, <2>1 DEF On, NoFrame
<1>7. CASE prefix /\ At("prefix")
    <2>1. fr' = Goto("ident") \/ fr' = Inc(fr, fr.pred, "prefixEnd")
        BY <1>7 DEF prefix, Step, At
    <2>2. fr'.pc \in {"ident", "inc"}
        BY <1>0, <2>1 DEF Goto, Inc, Frame
    <2> QED
        BY <1>2, <2>2
<1>8. CASE Beginning
    <2>1. \/ fr.pc = "quoted" /\ fr'.pc = "quotedLoop"
          \/ fr.pc = "string" /\ fr'.pc = "stringPeek"
        BY <1>0, <1>2, <1>8, BeginningStep
    <2>2. fr.pc = "quoted" => openQuotedIdent
        BY <1>8 DEF Beginning, startWithXx, startWithBb, startWithNumber, startString, At
    <2>3. fr.pc = "string" => startString
        BY <1>8 DEF Beginning, startWithXx, startWithBb, startWithNumber, openQuotedIdent, At
    <2> QED
        BY <1>2, <2>1, <2>2, <2>3
<1> QED
    BY <1>1, <1>2, <1>3, <1>4, <1>5, <1>6, <1>7, <1>8 DEF Flows

AllAscii(s) == \A k \in DOMAIN s : s[k] \in 1 .. 127

\* What the buffer has of a quoted identifier: all that has been read, but for
\* the rune that has just been read.
QuotedTold(r, f, written) ==
    LET s == r.slice
        b == f.pos.offset
        told(e) == b < e /\ Told(s, b, e, written, Backquote, FALSE)
    IN  AllAscii(s) =>
          /\ f.pc = "quotedLoop" => told(r.index)
          /\ f.pc = "quotedNext" =>
                \/ f.ch = rune_eof /\ Eof(r) /\ told(r.index)
                \/ f.ch = s[r.index] /\ told(r.index - 1)

LEMMA QuoteBytes ==
    /\ Backquote \in Byte /\ Backquote # Backslash
    /\ Quote \in Byte /\ Quote # Backslash
    /\ DQuote \in Byte /\ DQuote # Backslash
    /\ Backquote \in 1 .. 127 /\ Quote \in 1 .. 127 /\ DQuote \in 1 .. 127 /\ Backslash \in 1 .. 127
    /\ Quote # DQuote /\ Backquote \notin {Quote, DQuote}
BY SMT DEF Backquote, Quote, DQuote, Backslash, Byte

\* In a text of ASCII characters a rune is the byte there.
LEMMA ReadsAscii ==
    ASSUME NEW r, ReaderInv(r), AllAscii(r.slice), ~Eof(r)
    PROVE  /\ r.index \in Nat /\ r.index < Len(r.slice)
           /\ Peek(r) = r.slice[r.index + 1]
           /\ Peek(r) \in 1 .. 127
           /\ Advance(r).index = r.index + 1
           /\ Peek(r) # rune_eof /\ Peek(r) # rune_invalid
<1>1. r.index \in Nat /\ r.index < Len(r.slice)
    BY ReadsByte
<1>2. r.index + 1 \in DOMAIN r.slice
    <2>1. r.slice \in Seq(Byte)
        BY ReaderFields DEF ReaderInv
    <2> QED
        BY <1>1, <2>1, SMT
<1>3. r.slice[r.index + 1] \in 1 .. 127
    BY <1>2 DEF AllAscii
<1>4. Peek(r) = r.slice[r.index + 1] /\ Advance(r).index = r.index + 1
    BY <1>3, ReadsByte
<1>5. rune_eof \notin 1 .. 127 /\ rune_invalid \notin 1 .. 127
    BY SMT DEF rune_eof, rune_invalid
<1> QED
    BY <1>1, <1>3, <1>4, <1>5

\* The backquote is read, the buffer cleared.
LEMMA OpensQuoted ==
    ASSUME Known, openQuotedIdent
    PROVE  QuotedTold(rd', fr', buf')
<1> SUFFICES ASSUME AllAscii(rd'.slice)
             PROVE  QuotedTold(rd', fr', buf')
    BY DEF QuotedTold
<1>0. /\ ScanInv /\ Led(rd, fr) /\ fr \in Frame /\ ReaderInv(rd) /\ rd.pos.offset = rd.index
      /\ rd.index \in Nat
    BY Found DEF Known
<1>1. /\ rd' = Advance(rd) /\ fr'.pc = "quotedLoop" /\ fr'.pos = rd.pos /\ buf' = << >>
      /\ fr.pc = "quoted"
    BY <1>0 DEF openQuotedIdent, StepBuf, Save, Frame, At
<1>2. rd'.slice = rd.slice
    BY <1>0, <1>1, OnwardFacts DEF Onward
<1>3. rd.index = fr.pos.offset /\ fr.pos.offset < Len(rd.slice)
    BY <1>0, <1>1 DEF Led, Entries, Stage
<1>4. ~Eof(rd) /\ rd.slice \in Seq(Byte)
    BY <1>0, <1>3, ReaderFields, SMT DEF ReaderInv, Eof
<1>5. rd'.index = rd.index + 1
    BY <1>0, <1>1, <1>2, <1>4, ReadsAscii
<1>6. Told(rd.slice, rd.index, rd.index + 1, << >>, Backquote, FALSE)
    BY <1>0, <1>4, QuoteBytes, ToldBegins
<1>7. fr'.pos.offset = rd.index /\ rd.index < rd.index + 1
    BY <1>0, <1>1
<1> QED
    BY <1>1, <1>2, <1>5, <1>6, <1>7 DEF QuotedTold

\* A step of the loop.
LEMMA ReadsQuoted ==
    ASSUME Known, QuotedTold(rd, fr, buf), scanQuotedIdent, fr'.pc # "idle"
    PROVE  QuotedTold(rd', fr', buf')
<1> DEFINE s == rd.slice
           b == fr.pos.offset
           i == rd.index
<1> SUFFICES ASSUME AllAscii(rd'.slice)
             PROVE  QuotedTold(rd', fr', buf')
    BY DEF QuotedTold
<1>0. /\ ScanInv /\ fr \in Frame /\ ReaderInv(rd) /\ i \in Nat /\ b \in Nat
      /\ s \in Seq(Byte) /\ Len(s) \in Nat /\ i <= Len(s) /\ buf \in Seq(Byte)
    BY Found, ReaderFields DEF Known, ReaderInv, ScanInv, Settled
<1>1. rd' \in Onward
    BY DEF scanQuotedIdent, Step, StepBuf, Return, Result, Onward
<1>2. rd'.slice = s /\ AllAscii(s)
    BY <1>0, <1>1, OnwardFacts
<1>3. CASE At("quotedLoop")
    <2>1. /\ rd' = Advance(rd) /\ fr'.pc = "quotedNext" /\ fr'.ch = Peek(rd) /\ buf' = buf
          /\ fr'.pos = fr.pos
        BY <1>0, <1>3 DEF scanQuotedIdent, Step, Goto, Frame, At
    <2>2. b < i /\ Told(s, b, i, buf, Backquote, FALSE)
        BY <1>2, <1>3 DEF QuotedTold, At
    <2>3. CASE Eof(rd)
        <3>1. rd' = rd /\ fr'.ch = rune_eof
            BY <2>1, <2>3 DEF Advance, Peek
        <3> QED
            BY <2>1, <2>2, <2>3, <3>1 DEF QuotedTold
    <2>4. CASE ~Eof(rd)
        <3>1. rd'.index = i + 1 /\ Peek(rd) = s[i + 1] /\ (i + 1) - 1 = i
            BY <1>0, <1>2, <2>1, <2>4, ReadsAscii
        <3> QED
            BY <1>2, <2>1, <2>2, <3>1 DEF QuotedTold
    <2> QED
        BY <2>3, <2>4
<1>4. CASE At("quotedNext")
    <2>1. fr'.pc = "quotedLoop" /\ fr'.pos = fr.pos
        <3>1. fr' # NoFrame
            BY DEF NoFrame
        <3>2. fr' = Goto("quotedLoop")
            BY <1>4, <3>1 DEF scanQuotedIdent, Step, StepBuf, Return, Result, At
        <3> QED
            BY <1>0, <3>2 DEF Goto, Frame
    <2>2. CASE fr.ch = rune_eof /\ Eof(rd) /\ b < i /\ Told(s, b, i, buf, Backquote, FALSE)
        <3>1. fr.ch # Backquote /\ fr.ch # rune_invalid
            BY <2>2, SMT DEF Backquote, rune_eof, rune_invalid
        <3>2. rd' = rd
            BY <1>4, <3>1 DEF scanQuotedIdent, StepBuf, At
        <3>3. buf' \in Seq(Byte)
            <4>1. sputc(buf, fr.ch) \in Seq(Byte)
                BY <1>0, SputcBytes DEF Frame
            <4> QED
                BY <1>0, <1>4, <3>1, <4>1 DEF scanQuotedIdent, StepBuf, At
        <3>4. i = Len(s)
            BY <1>0, <2>2, SMT DEF Eof
        <3>5. Told(s, b, i, buf', Backquote, FALSE)
            <4>1. ~(\E j : j \in i .. Len(s) - 1)
                BY <1>0, <3>4
            <4> QED
                BY <2>2, <4>1 DEF Told
        <3> QED
            BY <2>1, <2>2, <3>2, <3>5 DEF QuotedTold
    <2>3. CASE fr.ch = s[i] /\ b < i - 1 /\ Told(s, b, i - 1, buf, Backquote, FALSE)
        <3> DEFINE e == i - 1
        <3>1. e \in Nat /\ b < e /\ e < Len(s) /\ e + 1 = i /\ i \in DOMAIN s
            BY <1>0, <2>3, SMT
        <3>2. s[i] \in 1 .. 127 /\ s[i] \in Byte
            BY <1>0, <1>2, <3>1 DEF AllAscii
        <3>3. fr.ch # rune_eof /\ fr.ch # rune_invalid
            BY <2>3, <3>2, SMT DEF rune_eof, rune_invalid
        <3>4. sputc(buf, fr.ch) = buf \o <<s[i]>>
            <4>1. fr.ch % 256 = s[i]
                BY <2>3, <3>2, SMT
            <4> QED
                BY <1>0, <3>2, <4>1, AppendIsConcat DEF sputc
        <3>5. Told(s, b, e, buf, Backquote, FALSE) /\ s[e + 1] = s[i]
            BY <2>3, <3>1
        <3> HIDE DEF e
        <3>6. CASE fr.ch = Backquote
            <4>1. /\ Peek(rd) = Backquote /\ rd' = Advance(Peeked(rd)) /\ buf' = buf \o <<s[i]>>
                <5>1. fr' # NoFrame
                    BY DEF NoFrame
                <5> QED
                    BY <1>4, <3>3, <3>4, <3>6, <5>1 DEF scanQuotedIdent, StepBuf, Return, Result, At
            <4>2. ~Eof(rd)
                BY <4>1, QuoteBytes DEF Peek, rune_eof, Backquote
            <4>3. s[i + 1] = Backquote /\ i < Len(s) /\ rd'.index = i + 1
                <5>1. /\ ReaderInv(Peeked(rd)) /\ Peeked(rd).slice = s /\ Peeked(rd).index = i
                    BY <1>0, Found, PeekedInv, PeekAgain
                <5>2. ~Eof(Peeked(rd))
                    BY <4>2, <5>1 DEF Eof
                <5>3. rd'.index = i + 1
                    BY <1>2, <4>1, <5>1, <5>2, ReadsAscii
                <5> QED
                    BY <1>0, <1>2, <4>1, <4>2, <5>3, ReadsAscii
            <4>4. e + 1 < Len(s) /\ e + 2 = i + 1 /\ e + 1 = i
                BY <1>0, <3>1, <4>3, SMT
            <4>5. s[e + 1] = Backquote /\ s[e + 2] = Backquote
                BY <2>3, <3>5, <3>6, <4>3, <4>4
            <4>6. /\ ~Closes(s, e, Backquote)
                  /\ Onto(s, e, Backquote, FALSE) = i + 1
                  /\ Taken(s, e, Backquote, FALSE) = <<s[i]>>
                BY <3>5, <4>4, <4>5 DEF Closes, Onto, Taken
            <4>7. Told(s, b, i + 1, buf', Backquote, FALSE)
                BY ZenonT(60), <1>0, <3>1, <3>5, <4>1, <4>6, QuoteBytes, ToldStep
            <4>8. b < i + 1
                BY <1>0, <3>1, SMT
            <4> QED
                BY <1>2, <2>1, <4>3, <4>7, <4>8 DEF QuotedTold
        <3>7. CASE fr.ch # Backquote
            <4>1. rd' = rd /\ buf' = buf \o <<s[i]>>
                BY <1>4, <3>3, <3>4, <3>7 DEF scanQuotedIdent, StepBuf, At
            <4>2. PlainByte(s, e + 1, Backquote, FALSE)
                BY <2>3, <3>5, <3>7 DEF PlainByte
            <4>3. Told(s, b, e + 1, buf', Backquote, FALSE)
                BY <1>0, <3>1, <3>5, <4>1, <4>2, QuoteBytes, ToldByte
            <4>4. b < i
                BY <1>0, <3>1, SMT
            <4> QED
                BY <2>1, <3>1, <4>1, <4>3, <4>4 DEF QuotedTold
        <3> QED
            BY <3>6, <3>7
    <2> QED
        BY <1>2, <1>4, <2>2, <2>3 DEF QuotedTold, At
<1> QED
    BY <1>3, <1>4 DEF scanQuotedIdent, At

LEMMA NextQuoted ==
    ASSUME Known, QuotedTold(rd, fr, buf), Scanning \/ Call
    PROVE  QuotedTold(rd', fr', buf')
<1>1. fr'.pc \notin Quoting => QuotedTold(rd', fr', buf')
    BY DEF QuotedTold, Quoting
<1>2. fr'.pc \in Quoting => openQuotedIdent \/ scanQuotedIdent
    BY QuotesFrom
<1>3. "idle" \notin Quoting
    BY DEF Quoting
<1> QED
    BY <1>1, <1>2, <1>3, OpensQuoted, ReadsQuoted

\* Between quotes no other handler runs.
LEMMA QuotesAt ==
    ASSUME Scanning \/ Call
    PROVE  /\ fr.pc \in Quoting => scanQuotedIdent
           /\ fr.pc \in Stringing =>
                 \/ startString \/ scanString \/ afterQuote \/ handleEscape \/ writeString
<1> SUFFICES ASSUME fr.pc \in Quoting \cup Stringing
             PROVE  /\ fr.pc \in Quoting => scanQuotedIdent
                    /\ fr.pc \in Stringing =>
                         \/ startString \/ scanString \/ afterQuote \/ handleEscape \/ writeString
    OBVIOUS
<1>1. ~(Call \/ scan \/ scanned \/ trie \/ incAsLongAs \/ startWithStub)
    BY DEF Quoting, Stringing, Call, scan, scanned, trie, incAsLongAs, IncNext, IncErrored,
           IncStop, startWithStub, At
<1>2. ~(startWithSlash \/ scanVersionDigits \/ comment \/ startWithStar \/ startWithSharp)
    BY DEF Quoting, Stringing, startWithSlash, scanVersionDigits, comment, startWithStar,
           startWithSharp, At
<1>3. ~(startWithXx \/ startWithBb \/ prefix \/ scanIdentifier \/ startWithNn \/ openQuotedIdent)
    BY DEF Quoting, Stringing, startWithXx, startWithBb, prefix, scanIdentifier, startWithNn,
           openQuotedIdent, At
<1>4. ~(startWithNumber \/ radixEnd \/ numberTail \/ scanFloat \/ exponent \/ scanIdentifierOrString)
    BY DEF Quoting, Stringing, startWithNumber, radixEnd, numberTail, scanFloat, exponent,
           scanIdentifierOrString, At
<1>5. fr.pc \in Quoting =>
        ~(startString \/ scanString \/ afterQuote \/ handleEscape \/ writeString)
    BY DEF Quoting, startString, scanString, afterQuote, handleEscape, writeString, At
<1>6. fr.pc \in Stringing => ~scanQuotedIdent
    BY DEF Stringing, scanQuotedIdent, At
<1> QED
    BY <1>1, <1>2, <1>3, <1>4, <1>5, <1>6 DEF Scanning

\* A call that returns a token that opens with a quote returns from between quotes.
LEMMA QuotesReturn ==
    ASSUME Known, Scanning \/ Call, fr'.pc = "idle", NEW q \in {Backquote, Quote, DQuote},
           out'.begin < Len(text'), text'[out'.begin + 1] = q
    PROVE  /\ text' = rd.slice /\ rd'.slice = rd.slice
           /\ out'.begin = fr.pos.offset /\ out'.to = rd'.index
           /\ rd.slice[fr.pos.offset + 1] = q /\ fr.pos.offset < Len(rd.slice)
           /\ IF q = Backquote THEN fr.pc \in Quoting ELSE fr.pc \in Stringing
<1>0. /\ ScanInv /\ Ahead(rd, fr) /\ Paced(rd, fr) /\ Led(rd, fr) /\ rd.slice \in Seq(Byte)
      /\ fr.pos.offset \in Nat
    BY Found, ReaderFields DEF Known, ReaderInv
<1>1. /\ fr.pc \in Ends /\ Stage(fr) = fr.pc /\ rd'.slice = rd.slice
      /\ text' = rd.slice /\ out'.to = rd'.index /\ out'.begin = fr.pos.offset
      /\ fr.pos.offset < Len(rd.slice)
      /\ LedBy(fr.pc, Handler(FirstRune(rd, fr)))
      /\ fr.pc = "trie" => Handler(FirstRune(rd, fr)) = "none"
    BY <1>0, ReturnedLed DEF text
<1>2. FirstRune(rd, fr) = q
    BY ZenonT(60), <1>0, <1>1, QuoteBytes, AsciiRunes DEF FirstRune
<1>3. Handler(Backquote) = "quoted" /\ Handler(Quote) = "string" /\ Handler(DQuote) = "string"
    BY SMT DEF Handler, isDigit, isLetter, Slash, Star, Minus, Dot, Backquote, Quote, DQuote,
               Underscore
<1>4. CASE q = Backquote
    <2>1. fr.pc \notin {"trie", "star2", "stub", "prefixEnd", "identEnd", "nnEnd"}
                       \cup Numeric \cup Stringing \cup Slashing
        BY <1>1, <1>2, <1>3, <1>4, LedFacts
    <2>2. fr.pc \in Quoting
        BY <1>1, <2>1 DEF Ends, Steady, Quoting, Stringing, Slashing, PastFirst
    <2> QED
        BY <1>1, <1>2, <1>4, <2>2, QuoteBytes
<1>5. CASE q # Backquote
    <2>1. fr.pc \notin {"trie", "star2", "stub", "prefixEnd", "identEnd", "nnEnd"}
                       \cup Numeric \cup Quoting \cup Slashing
        BY <1>1, <1>2, <1>3, <1>5, LedFacts
    <2>2. fr.pc \in Stringing
        BY <1>1, <2>1 DEF Ends, Steady, Quoting, Stringing, Slashing, PastFirst
    <2> QED
        BY <1>1, <1>5, <2>2
<1> QED
    BY <1>4, <1>5

\* The closing backquote.
LEMMA QuotedReturn ==
    ASSUME Known, QuotedTold(rd, fr, buf), Scanning \/ Call, fr'.pc = "idle"
    PROVE  QuotedIdentifiers'
<1> DEFINE s == rd.slice
           b == fr.pos.offset
           i == rd.index
           e == i - 1
<1> SUFFICES ASSUME Opens(Backquote)', \A k \in DOMAIN text' : text'[k] \in 1 .. 127
             PROVE  /\ out'.tok = tok_quotedIdentifier
                    /\ out'.to = LiteralEnd(text', out'.begin, Backquote, FALSE)
                    /\ out'.lit = Unquoted(text', out'.begin + 1, out'.to - 1, Backquote, FALSE)
    BY DEF QuotedIdentifiers
<1>0. /\ ScanInv /\ fr \in Frame /\ ReaderInv(rd) /\ i \in Nat /\ b \in Nat
      /\ s \in Seq(Byte) /\ Len(s) \in Nat /\ i <= Len(s) /\ buf \in Seq(Byte)
    BY Found, ReaderFields DEF Known, ReaderInv, ScanInv, Settled
<1>1. /\ text' = s /\ out'.begin = b /\ out'.to = rd'.index /\ fr.pc \in Quoting
    <2>1. out'.begin < Len(text') /\ text'[out'.begin + 1] = Backquote
        BY DEF Opens
    <2> QED
        BY <2>1, QuotesReturn
<1>2. AllAscii(s)
    BY <1>1 DEF AllAscii
<1>3. scanQuotedIdent
    BY <1>1, QuotesAt
<1>4. fr.pc = "quotedNext"
    <2>1. At("quotedLoop") => fr'.pc = "quotedNext"
        BY <1>0, <1>3 DEF scanQuotedIdent, Step, Goto, Frame, At
    <2> QED
        BY <1>1, <2>1 DEF Quoting, At
<1>5. \/ fr.ch = rune_eof
      \/ fr.ch = s[i] /\ b < e /\ Told(s, b, e, buf, Backquote, FALSE)
    BY <1>2, <1>4 DEF QuotedTold
<1>6. fr'.pc # "quotedLoop" /\ Goto("quotedLoop").pc = "quotedLoop"
    BY <1>0 DEF Goto, Frame
<1>7. fr.ch = rune_eof => fr.ch # Backquote /\ fr.ch # rune_invalid
    BY SMT DEF rune_eof, Backquote, rune_invalid
<1>8. fr.ch = s[i] /\ b < e /\ Told(s, b, e, buf, Backquote, FALSE)
    BY <1>3, <1>4, <1>5, <1>6, <1>7 DEF scanQuotedIdent, StepBuf, At
<1>9. e \in Nat /\ e < Len(s) /\ e + 1 = i /\ i \in DOMAIN s
    BY <1>0, <1>8, SMT
<1>10. fr.ch # rune_invalid
    <2>1. s[i] \in 1 .. 127
        BY <1>2, <1>9 DEF AllAscii
    <2>2. rune_invalid \notin 1 .. 127
        BY SMT DEF rune_invalid
    <2> QED
        BY <1>8, <2>1, <2>2
<1>11. /\ fr.ch = Backquote /\ Peek(rd) # Backquote /\ rd' = Peeked(rd)
       /\ out'.tok = tok_quotedIdentifier /\ out'.lit = buf
    BY <1>3, <1>4, <1>6, <1>10 DEF scanQuotedIdent, StepBuf, Return, Result, At
<1>12. rd'.index = i
    BY <1>0, <1>11, PeekAgain
<1> HIDE DEF e
<1>13. Closes(s, e, Backquote)
    <2>1. ASSUME e + 1 < Len(s)
          PROVE  s[e + 2] # Backquote
        <3>1. ~Eof(rd) /\ e + 2 = i + 1
            BY <1>0, <1>9, <2>1, SMT DEF Eof
        <3> QED
            BY <1>0, <1>2, <1>11, <3>1, ReadsAscii
    <2> QED
        BY <1>8, <1>9, <1>11, <2>1 DEF Closes
<1>14. /\ LiteralEnd(s, b, Backquote, FALSE) = e + 1
       /\ Unquoted(s, b + 1, e, Backquote, FALSE) = buf
    <2>1. FALSE \in BOOLEAN /\ Told(s, b, e, buf, Backquote, FALSE) /\ e \in Nat /\ b < e /\ e < Len(s)
        BY <1>8, <1>9
    <2>2. s \in Seq(Byte) /\ b \in Nat /\ buf \in Seq(Byte) /\ Backquote \in Byte /\ Backquote # Backslash
        BY <1>0, QuoteBytes
    <2> HIDE DEF s, b
    <2>3. Closes(s, e, Backquote)
        BY <1>13
    <2> DEFINE q == Backquote
               no == FALSE
    <2>4. no \in BOOLEAN /\ q \in Byte /\ q # Backslash /\ Told(s, b, e, buf, q, no) /\ Closes(s, e, q)
        BY <2>1, <2>2, <2>3
    <2> HIDE DEF q, no
    <2>5. LiteralEnd(s, b, q, no) = e + 1 /\ Unquoted(s, b + 1, e, q, no) = buf
        BY <2>1, <2>2, <2>4, ToldEnds
    <2> QED
        BY <2>5 DEF q, no
<1>15. i - 1 = e
    BY DEF e
<1> QED
    BY <1>1, <1>9, <1>11, <1>12, <1>14, <1>15

\* A quoted identifier of ASCII characters ends at its own backquote, and each
\* doubled one in it is halved, whatever the statement and whatever the buffer
\* held before.
THEOREM ScannerQuotedIdentifiers == ScanSpec => []QuotedIdentifiers
<1>1. Init => QuotedTold(rd, fr, buf) /\ QuotedIdentifiers
    <2> SUFFICES ASSUME Init
                 PROVE  QuotedTold(rd, fr, buf) /\ QuotedIdentifiers
        OBVIOUS
    <2>1. fr.pc = "idle" /\ ~Returned
        BY DEF Init, NoFrame, Returned
    <2> QED
        BY <2>1 DEF QuotedTold, QuotedIdentifiers
<1>2. Known /\ QuotedTold(rd, fr, buf) /\ QuotedIdentifiers /\ [Scanning \/ Call]_vars
      => QuotedTold(rd, fr, buf)' /\ QuotedIdentifiers'
    <2>1. UNCHANGED vars => UNCHANGED <<rd, fr, buf, out>>
        BY DEF vars
    <2>2. QuotedTold(rd, fr, buf) /\ UNCHANGED <<rd, fr, buf, out>> => QuotedTold(rd, fr, buf)'
        OBVIOUS
    <2>3. QuotedIdentifiers /\ UNCHANGED <<rd, fr, buf, out>> => QuotedIdentifiers'
        BY DEF QuotedIdentifiers, Returned, At, text, Opens
    <2>4. Known /\ QuotedTold(rd, fr, buf) /\ (Scanning \/ Call) => QuotedIdentifiers'
        <3>1. fr'.pc # "idle" => QuotedIdentifiers'
            BY DEF QuotedIdentifiers, Returned, At
        <3> QED
            BY <3>1, QuotedReturn
    <2> QED
        BY <2>1, <2>2, <2>3, <2>4, NextQuoted
<1> QED
    BY <1>1, <1>2, ScannerKnown, PTL DEF ScanSpec

-----------------------------------------------------------------------------
(* String literals. *)

\* The bytes that a rune of width w is written as.
Written(c, w) == IF w > 1 THEN encode(c) ELSE <<c % 256>>

\* In a clean text a rune is written as the bytes it was read from, and an ASCII
\* character is there only where it was read.
LEMMA CleanRune ==
    ASSUME NEW s \in Seq(Byte), Clean(s), NEW i \in Nat, i < Len(s)
    PROVE  LET c == RuneAt(s, i)
               w == DecodeWidth(s, i)
           IN  /\ w \in 1 .. 4 /\ i + w <= Len(s)
               /\ c \in Nat /\ c # rune_invalid /\ c # rune_eof
               /\ Written(c, w) = SubSeq(s, i + 1, i + w)
               /\ w = 1 => c = s[i + 1] /\ c \in Byte
               /\ w > 1 => c >= 128 /\ \A k \in 1 .. w : s[i + k] >= 128
               /\ \A x \in 1 .. 127 : c = x <=> s[i + 1] = x
               /\ \A x \in 1 .. 127 : c = x => w = 1
<1> DEFINE v == DecodeValue(s, i)
           w == DecodeWidth(s, i)
           b == s[i + 1]
           c == RuneAt(s, i)
<1>1. i \in 0 .. Len(s) - 1 /\ i + 1 \in DOMAIN s /\ Len(s) \in Nat
    BY LenProperties, SMT
<1>2. b # 0 /\ (IsMultibyte(s, i) => v # rune_invalid /\ v # rune_bom) /\ b \in Byte
    BY <1>1 DEF Clean
<1>3. ~IsMultibyte(s, i) => v = b /\ w = 1
    BY DEF DecodeValue, DecodeWidth
<1>4. IsMultibyte(s, i) => w > 1 /\ v >= 128 /\ b \in \hC2 .. \hF4
    BY SequenceBytes, MultibyteIsNotAscii, SMT
<1>5. rune_invalid \notin Byte /\ rune_bom \notin Byte
    BY SMT DEF rune_invalid, rune_bom, Byte
<1>6. c = v /\ v # rune_invalid
    BY <1>2, <1>3, <1>5 DEF RuneAt
<1>7. w \in 1 .. 4 /\ i + w <= Len(s)
    BY DecodeWidthBounds
<1>8. c \in Nat /\ c # rune_eof
    <2>1. c \in Nat
        BY AsciiRunes
    <2> HIDE DEF c
    <2> QED
        BY <2>1, SMT DEF rune_eof
<1>9. w > 1 => \A k \in 1 .. w : s[i + k] >= 128
    <2> SUFFICES ASSUME w > 1, NEW k \in 1 .. w
                 PROVE  s[i + k] >= 128
        OBVIOUS
    <2>1. IsMultibyte(s, i)
        BY <1>3
    <2>2. b >= 128
        <3>1. \A x \in \hC2 .. \hF4 : x >= 128
            BY SMT
        <3> HIDE DEF b
        <3> QED
            BY <1>4, <2>1, <3>1
    <2>3. \A l \in 2 .. w : s[i + l] \in Continuation
        BY <2>1, SequenceBytes
    <2>4. \A x \in Continuation : x >= 128
        BY SMT DEF Continuation
    <2>5. k = 1 \/ k \in 2 .. w
        <3> HIDE DEF w
        <3> QED
            BY <1>7, SMT
    <2> QED
        BY <2>2, <2>3, <2>4, <2>5
<1>10. w = 1 => c = b /\ c \in Byte
    BY <1>2, <1>3, <1>4, <1>6
<1>11. Written(c, w) = SubSeq(s, i + 1, i + w)
    <2>1. CASE w > 1
        BY <1>6, <2>1, EncodeUndoesDecode DEF Written
    <2>2. CASE ~(w > 1)
        <3>1. w = 1
            <4> HIDE DEF w
            <4> QED
                BY <1>7, <2>2, SMT
        <3>2. c % 256 = c
            <4>1. c \in 0 .. 255
                BY <1>10, <3>1 DEF Byte
            <4>2. \A x \in 0 .. 255 : x % 256 = x
                BY SMT
            <4> HIDE DEF c
            <4> QED
                BY <4>1, <4>2
        <3>3. SubSeq(s, i + 1, i + 1) = <<b>>
            <4>1. 1 \in 1 .. 4 /\ i + 1 <= Len(s)
                BY <1>1, SMT
            <4> QED
                BY <4>1, FewBytes
        <3>4. Written(c, w) = <<c % 256>>
            BY <2>2 DEF Written
        <3> HIDE DEF w, c, v
        <3> QED
            BY <1>10, <3>1, <3>2, <3>3, <3>4
    <2> QED
        BY <2>1, <2>2
<1>12. \A x \in 1 .. 127 : c = x <=> b = x
    BY AsciiRunes
<1>13. w > 1 => c >= 128
    BY <1>3, <1>4, <1>6
<1>14. \A x \in 1 .. 127 : c = x => w = 1
    <2> HIDE DEF w, c, v
    <2> QED
        BY <1>7, <1>8, <1>13, SMT
<1> QED
    BY <1>6, <1>7, <1>8, <1>9, <1>10, <1>11, <1>12, <1>13, <1>14

\* What handleEscape makes of a character, and what the reference does.
LEMMA EscapesAgree ==
    ASSUME NEW c \in Nat
    PROVE  /\ c \in Byte /\ c \notin {Percent, Underscore} =>
                EscapedText(c) = <<Escaped(c)>> /\ Escaped(c) \in Byte
           /\ c \in {Percent, Underscore} => EscapedText(c) = <<Backslash, c>> /\ Escaped(c) = c
           /\ c >= 128 => EscapedText(c) = <<c>> /\ Escaped(c) = c /\ c \notin {Percent, Underscore}
<1>1. Percent = 37 /\ Underscore = 95 /\ Backslash = 92
    BY DEF Percent, Underscore, Backslash
<1>2. /\ 10 \in Byte /\ 0 \in Byte /\ 8 \in Byte /\ 26 \in Byte /\ 13 \in Byte /\ 9 \in Byte
    BY SMT DEF Byte
<1>3. c \in Byte /\ c \notin {37, 95} => EscapedText(c) = <<Escaped(c)>> /\ Escaped(c) \in Byte
    BY <1>2, SMT DEF EscapedText, Escaped
<1>4. c \in {37, 95} => EscapedText(c) = <<92, c>> /\ Escaped(c) = c
    BY SMT DEF EscapedText, Escaped
<1>5. c >= 128 => EscapedText(c) = <<c>> /\ Escaped(c) = c /\ c \notin {37, 95}
    BY SMT DEF EscapedText, Escaped
<1> QED
    BY <1>1, <1>3, <1>4, <1>5

\* The text behind the opening quote, with and without the closing one.
LEMMA TextInside ==
    ASSUME NEW r, ReaderInv(r), NEW p \in Pos, p.offset < r.index
    PROVE  /\ Rest(Data(r, p)) = SubSeq(r.slice, p.offset + 2, r.index)
           /\ Inner(Data(r, p)) = SubSeq(r.slice, p.offset + 2, r.index - 1)
           /\ SubSeq(r.slice, p.offset + 2, r.index) \in Seq(Byte)
           /\ SubSeq(r.slice, p.offset + 2, r.index - 1) \in Seq(Byte)
<1> DEFINE s == r.slice
           b == p.offset
           i == r.index
           d == SubSeq(s, b + 1, i)
<1>1. s \in Seq(Byte) /\ b \in Nat /\ i \in Nat /\ Len(s) \in Nat /\ i <= Len(s) /\ b < i
    BY ReaderFields, LenProperties DEF ReaderInv, Pos
<1>2. d \in Seq(Byte) /\ Len(d) = i - b
    BY <1>1, PartOfText
<1>3. ASSUME NEW j \in Nat, NEW k \in Nat, j <= k, b + k <= i
      PROVE  SubSeq(d, j + 1, k) = SubSeq(s, b + j + 1, b + k)
    <2> HIDE DEF s, b, i
    <2> QED
        BY <1>1, <1>3, PartOfText
<1> HIDE DEF d
<1>4. SubSeq(d, 2, i - b) = SubSeq(s, b + 2, i)
    <2>1. 1 \in Nat /\ i - b \in Nat /\ 1 <= i - b /\ b + (i - b) <= i /\ b + (i - b) = i
          /\ 1 + 1 = 2 /\ b + 1 + 1 = b + 2
        BY <1>1, SMT
    <2> QED
        BY <1>3, <2>1
<1>5. SubSeq(d, 2, (i - b) - 1) = SubSeq(s, b + 2, i - 1)
    <2>1. CASE b + 1 < i
        <3>1. /\ 1 \in Nat /\ (i - b) - 1 \in Nat /\ 1 <= (i - b) - 1 /\ b + ((i - b) - 1) <= i
              /\ b + ((i - b) - 1) = i - 1 /\ 1 + 1 = 2 /\ b + 1 + 1 = b + 2
            BY <1>1, <2>1, SMT
        <3> QED
            BY <1>3, <3>1
    <2>2. CASE ~(b + 1 < i)
        <3>1. (i - b) - 1 \in Int /\ (i - b) - 1 < 2 /\ i - 1 \in Int /\ b + 2 \in Int /\ i - 1 < b + 2
            BY <1>1, <2>2, SMT
        <3>2. SubSeq(d, 2, (i - b) - 1) = << >> /\ SubSeq(s, b + 2, i - 1) = << >>
            BY <3>1, SubSeqEmpty
        <3> QED
            BY <3>2
    <2> QED
        BY <2>1, <2>2
<1>6. \A k \in {i, i - 1} : SubSeq(s, b + 2, k) \in Seq(Byte)
    <2> SUFFICES ASSUME NEW k \in {i, i - 1}
                 PROVE  SubSeq(s, b + 2, k) \in Seq(Byte)
        OBVIOUS
    <2>1. b + 2 \in Int /\ k \in Int /\ k <= Len(s) /\ \A j \in b + 2 .. k : j \in 1 .. Len(s)
        BY <1>1, SMT
    <2>2. \A j \in b + 2 .. k : s[j] \in Byte
        BY <1>1, <2>1, ElementOfSeq
    <2> QED
        BY <2>1, <2>2, SubSeqProperties
<1> QED
    BY <1>2, <1>4, <1>5, <1>6 DEF Rest, Inner, Data, d

Escapes == Mode.NoBackslashEscapes \notin sqlMode

\* The value of the literal up to e: in the buffer once that is used, and until
\* then the text itself.
Value(r, f, written, e) ==
    IF f.useBuf THEN written ELSE SubSeq(r.slice, f.pos.offset + 2, e)

\* What the handler has of a string literal, but for the quote or the backslash
\* that has just been read; before a rune is written, with that rune.
StringTold(r, f, written, backslash) ==
    LET s == r.slice
        b == f.pos.offset
        i == r.index
        w == r.lastWidth
        q == s[b + 1]
        told(e, lit) == b < e /\ Told(s, b, e, lit, q, backslash)
    IN  Clean(s) /\ f.pc \in Stringing =>
          /\ q \in {Quote, DQuote} /\ f.ending = q
          /\ f.pc = "stringPeek" => told(i, Value(r, f, written, i))
          /\ f.pc = "stringLoop" /\ ~Eof(r) =>
                /\ f.ch = Peek(r) /\ w = DecodeWidth(s, i)
                /\ told(i, Value(r, f, written, i))
          /\ f.pc = "afterQuote" => f.ch = q /\ s[i] = q /\ told(i - 1, Value(r, f, written, i - 1))
          /\ f.pc = "afterBackslash" =>
                s[i] = Backslash /\ backslash /\ f.useBuf /\ told(i - 1, written)
          /\ f.pc = "write" /\ ~Eof(r) =>
                /\ w = DecodeWidth(s, i)
                /\ told(i + w, Value(r, f, written \o Written(f.ch, w), i + w))
          /\ f.pc \in {"stringLoop", "write"} /\ Eof(r) => LiteralEnd(s, b, q, backslash) = 0

\* The steps of a string literal leave the text and the mode alone.
Within ==
    /\ rd'.slice = rd.slice /\ sqlMode' = sqlMode
    /\ fr'.pos = fr.pos /\ fr'.ending = fr.ending

LEMMA StringsStay ==
    ASSUME ScanInv, fr'.pc # "idle",
           (startString /\ ~At("string")) \/ scanString \/ afterQuote \/ handleEscape \/ writeString
    PROVE  Within /\ fr.pc \in Stringing /\ Returned' = FALSE
<1>0. fr \in Frame
    BY Found
<1>1. rd' \in Onward /\ sqlMode' = sqlMode
    <2>1. startString /\ ~At("string") => rd' \in Onward /\ sqlMode' = sqlMode
        BY DEF startString, Step, Onward
    <2>2. scanString => rd' \in Onward /\ sqlMode' = sqlMode
        BY DEF scanString, Step, StepBuf, Return, Result, Onward
    <2>3. afterQuote => rd' \in Onward /\ sqlMode' = sqlMode
        BY DEF afterQuote, StepBuf, Return, Result, Onward
    <2>4. handleEscape \/ writeString => rd' \in Onward /\ sqlMode' = sqlMode
        BY DEF handleEscape, writeString, StepBuf, Onward
    <2> QED
        BY <2>1, <2>2, <2>3, <2>4
<1>2. fr.pc \in Stringing
    BY DEF startString, scanString, afterQuote, handleEscape, writeString, At, Stringing
<1>3. fr' # NoFrame
    BY DEF NoFrame
<1>4. /\ \A l : Goto(l).pos = fr.pos /\ Goto(l).ending = fr.ending
      /\ \A l, c : [Goto(l) EXCEPT !.ch = c].pos = fr.pos /\ [Goto(l) EXCEPT !.ch = c].ending = fr.ending
      /\ \A l : [Goto(l) EXCEPT !.useBuf = TRUE].pos = fr.pos
                /\ [Goto(l) EXCEPT !.useBuf = TRUE].ending = fr.ending
    BY <1>0 DEF Goto, Frame
<1>5. fr'.pos = fr.pos /\ fr'.ending = fr.ending
    <2>1. startString /\ ~At("string") => fr'.pos = fr.pos /\ fr'.ending = fr.ending
        <3>1. startString /\ ~At("string") => fr' = [Goto("stringLoop") EXCEPT !.ch = Peek(rd)]
            BY DEF startString, Step
        <3> QED
            BY ZenonT(60), <1>4, <3>1
    <2>2. scanString => fr'.pos = fr.pos /\ fr'.ending = fr.ending
        BY <1>3, <1>4 DEF scanString, Step, StepBuf, Return, Result
    <2>3. afterQuote => fr'.pos = fr.pos /\ fr'.ending = fr.ending
        BY <1>3, <1>4 DEF afterQuote, StepBuf, Return, Result
    <2>4. handleEscape \/ writeString => fr'.pos = fr.pos /\ fr'.ending = fr.ending
        BY ZenonT(60), <1>4 DEF handleEscape, writeString, StepBuf
    <2> QED
        BY <2>1, <2>2, <2>3, <2>4
<1>6. rd'.slice = rd.slice
    BY <1>1, OnwardFacts
<1>7. Returned' = FALSE
    BY DEF Returned, At
<1> QED
    BY <1>1, <1>2, <1>5, <1>6, <1>7 DEF Within

\* A rune is read where it is.
LEMMA AdvanceBy ==
    ASSUME NEW r, ReaderInv(r), ~Eof(r)
    PROVE  /\ Advance(r).index = r.index + DecodeWidth(r.slice, r.index)
           /\ Peeked(r).lastWidth = DecodeWidth(r.slice, r.index)
           /\ r.slice \in Seq(Byte) /\ r.index \in Nat /\ r.index < Len(r.slice)
<1>1. r.slice \in Seq(Byte) /\ r.index \in Nat /\ r.index < Len(r.slice)
    BY ReaderFields, SMT DEF ReaderInv, Eof
<1>2. Advance(r).index = r.index + DecodeWidth(r.slice, r.index)
    <2>1. EndsRune(r, PosAfterNext(r))
        BY PosAfterEndsRune
    <2> QED
        BY <2>1, ForwardInv DEF Advance, EndsRune
<1>3. Peeked(r).lastWidth = DecodeWidth(r.slice, r.index)
    <2>1. r \in [slice : Seq(Byte), index : Nat, pos : Pos, idx2pos : {r.idx2pos},
                 starts : Seq(Nat), lastWidth : 1 .. 4]
        BY DEF ReaderInv, ReaderOK
    <2> QED
        BY <2>1 DEF Peeked
<1> QED
    BY <1>1, <1>2, <1>3

\* The opening quote.
LEMMA BeginsString ==
    ASSUME Known, startString, At("string")
    PROVE  StringTold(rd', fr', buf', Escapes')
<1> SUFFICES ASSUME Clean(rd'.slice)
             PROVE  StringTold(rd', fr', buf', Escapes')
    BY DEF StringTold
<1>0. /\ ScanInv /\ Led(rd, fr) /\ fr \in Frame /\ ReaderInv(rd) /\ rd.pos.offset = rd.index
      /\ rd.index \in Nat /\ rd.slice \in Seq(Byte)
    BY Found, ReaderFields DEF Known, ReaderInv
<1>1. /\ rd' = Advance(rd) /\ fr'.pc = "stringPeek" /\ fr'.pos = rd.pos /\ fr'.ending = Peek(rd)
      /\ fr'.useBuf = FALSE /\ fr.pc = "string" /\ sqlMode' = sqlMode
    BY <1>0 DEF startString, Step, Save, Frame, At
<1>2. rd'.slice = rd.slice
    BY <1>0, <1>1, OnwardFacts DEF Onward
<1>3. rd.index = fr.pos.offset /\ fr.pos.offset < Len(rd.slice)
    BY <1>0, <1>1 DEF Led, Entries, Stage
<1>4. ~Eof(rd)
    BY <1>0, <1>3, ReaderFields, SMT DEF ReaderInv, Eof
<1>5. Peek(rd) \in {Quote, DQuote}
    <2>1. Handler(FirstRune(rd, fr)) = "string"
        BY <1>0, <1>1, LedFacts DEF Led, Stage
    <2>2. FirstRune(rd, fr) = Peek(rd) /\ Peek(rd) \in Nat
        BY <1>0, <1>3, <1>4, ReadsByte DEF FirstRune
    <2>3. \A c \in Nat : Handler(c) = "string" => c \in {Quote, DQuote}
        BY SMT DEF Handler, isDigit, isLetter, Slash, Star, Minus, Dot, Backquote, Quote, DQuote,
                   Underscore
    <2> QED
        BY <2>1, <2>2, <2>3
<1>6. rd.slice[rd.index + 1] = Peek(rd) /\ rd'.index = rd.index + 1
    BY <1>0, <1>1, <1>4, <1>5, QuoteBytes, ReadsByte
<1>7. Told(rd.slice, rd.index, rd.index + 1, << >>, Peek(rd), Escapes)
    <2>1. Peek(rd) \in Byte /\ Peek(rd) # Backslash
        BY <1>5, QuoteBytes
    <2>2. Escapes \in BOOLEAN
        BY DEF Escapes
    <2> QED
        BY <1>0, <2>1, <2>2, ToldBegins
<1>8. SubSeq(rd.slice, rd.index + 2, rd.index + 1) = << >>
    BY <1>0, SubSeqEmpty, SMT
<1>9. /\ fr'.pos.offset = rd.index /\ rd.index < rd.index + 1
      /\ Value(rd', fr', buf', rd'.index) = << >>
      /\ Escapes' = Escapes
    BY <1>0, <1>1, <1>2, <1>6, <1>8 DEF Value, Escapes
<1> QED
    BY <1>1, <1>2, <1>5, <1>6, <1>7, <1>9 DEF StringTold

\* The next rune is looked at.
LEMMA PeeksString ==
    ASSUME Known, StringTold(rd, fr, buf, Escapes), startString, ~At("string")
    PROVE  StringTold(rd', fr', buf', Escapes')
<1> DEFINE s == rd.slice
           b == fr.pos.offset
           i == rd.index
           q == s[b + 1]
<1> SUFFICES ASSUME Clean(rd'.slice)
             PROVE  StringTold(rd', fr', buf', Escapes')
    BY DEF StringTold
<1>0. /\ ScanInv /\ fr \in Frame /\ ReaderInv(rd) /\ i \in Nat /\ b \in Nat
      /\ s \in Seq(Byte) /\ Len(s) \in Nat /\ i <= Len(s) /\ Escapes \in BOOLEAN
    BY Found, ReaderFields DEF Known, ReaderInv, Escapes
<1>1. /\ rd' = Peeked(rd) /\ fr'.pc = "stringLoop" /\ fr'.ch = Peek(rd) /\ fr'.useBuf = fr.useBuf
      /\ fr'.pos = fr.pos /\ fr'.ending = fr.ending /\ buf' = buf /\ fr.pc = "stringPeek"
      /\ sqlMode' = sqlMode
    BY <1>0 DEF startString, Step, Goto, Frame, At
<1>2. /\ rd'.slice = s /\ rd'.index = i /\ (Eof(rd') <=> Eof(rd)) /\ Peek(rd') = Peek(rd)
      /\ Escapes' = Escapes
    BY <1>0, <1>1, PeekedInv, PeekAgain DEF Escapes
<1>3. /\ q \in {Quote, DQuote} /\ fr.ending = q
      /\ b < i /\ Told(s, b, i, Value(rd, fr, buf, i), q, Escapes)
    BY <1>1, <1>2 DEF StringTold, Stringing
<1>4. Value(rd', fr', buf', i) = Value(rd, fr, buf, i)
    BY <1>1, <1>2 DEF Value
<1>5. ~Eof(rd) => rd'.lastWidth = DecodeWidth(s, i)
    BY <1>0, <1>1, AdvanceBy
<1>6. Eof(rd) => LiteralEnd(s, b, q, Escapes) = 0
    <2>1. Eof(rd) => i = Len(s)
        BY <1>0, SMT DEF Eof
    <2>2. q \in Byte /\ q # Backslash
        BY <1>3, QuoteBytes
    <2> HIDE DEF s, b, q, i
    <2> QED
        BY <1>0, <1>3, <2>1, <2>2, ToldNever
<1> QED
    BY <1>1, <1>2, <1>3, <1>4, <1>5, <1>6 DEF StringTold

\* The value so far is made of bytes.
LEMMA ValueBytes ==
    ASSUME ScanInv, fr.pos.offset < rd.index, NEW e \in {rd.index, rd.index - 1}
    PROVE  /\ Value(rd, fr, buf, e) \in Seq(Byte)
           /\ setUseBuf(Rest(Data(rd, fr.pos))) = Value(rd, fr, buf, rd.index)
           /\ setUseBuf(Inner(Data(rd, fr.pos))) = Value(rd, fr, buf, rd.index - 1)
<1>1. ReaderInv(rd) /\ fr.pos \in Pos /\ buf \in Seq(Byte)
    BY Found DEF ScanInv, Settled, Frame
<1> QED
    BY <1>1, TextInside DEF Value, setUseBuf

\* The text up to a rune, and the rune.
LEMMA TextAndRune ==
    ASSUME NEW s \in Seq(Byte), NEW b \in Nat, NEW i \in Nat, b < i, NEW w \in 1 .. 4,
           i + w <= Len(s)
    PROVE  SubSeq(s, b + 2, i) \o SubSeq(s, i + 1, i + w) = SubSeq(s, b + 2, i + w)
<1>1. Len(s) \in Nat
    BY LenProperties
<1>2. /\ b + 2 \in 1 .. Len(s) + 1 /\ i \in (b + 2) - 1 .. Len(s) /\ i + w \in i .. Len(s)
    BY <1>1, SMT
<1> QED
    BY <1>2, ConcatAdjacentSubSeq

\* A rune that is neither the quote nor an escape is plain in each of its bytes.
LEMMA PlainRune ==
    ASSUME NEW s \in Seq(Byte), Clean(s), NEW i \in Nat, i < Len(s), NEW q \in 1 .. 127,
           NEW backslash \in BOOLEAN,
           RuneAt(s, i) # q, ~(RuneAt(s, i) = Backslash /\ backslash)
    PROVE  \A k \in 1 .. DecodeWidth(s, i) : PlainByte(s, i + k, q, backslash)
<1> DEFINE w == DecodeWidth(s, i)
<1> SUFFICES ASSUME NEW k \in 1 .. w
             PROVE  PlainByte(s, i + k, q, backslash)
    OBVIOUS
<1>1. w \in 1 .. 4 /\ i + w <= Len(s)
    BY CleanRune
<1>2. CASE w > 1
    <2>1. s[i + k] >= 128
        BY <1>2, CleanRune
    <2>2. i + k \in DOMAIN s
        <3> HIDE DEF w
        <3> QED
            BY <1>1, SMT
    <2>3. s[i + k] \in Nat
        <3>1. s[i + k] \in Byte
            BY <2>2, ElementOfSeq
        <3>2. \A x \in Byte : x \in Nat
            BY DEF Byte
        <3> QED
            BY <3>1, <3>2
    <2>4. \A x \in 1 .. 127 : s[i + k] # x
        <3> DEFINE c == s[i + k]
        <3>1. c \in Nat /\ c >= 128
            BY <2>1, <2>3
        <3> HIDE DEF c
        <3>2. \A x \in 1 .. 127 : c # x
            BY <3>1
        <3> QED
            BY <3>2 DEF c
    <2> QED
        BY <2>4, QuoteBytes DEF PlainByte
<1>3. CASE ~(w > 1)
    <2>1. w = 1 /\ k = 1
        <3> HIDE DEF w
        <3> QED
            BY <1>1, <1>3, SMT
    <2>2. RuneAt(s, i) = s[i + 1]
        BY <2>1, CleanRune
    <2> QED
        BY <2>1, <2>2 DEF PlainByte
<1> QED
    BY <1>2, <1>3

\* A rune of the literal has been looked at.
LEMMA LoopsString ==
    ASSUME Known, StringTold(rd, fr, buf, Escapes), scanString, fr'.pc # "idle"
    PROVE  StringTold(rd', fr', buf', Escapes')
<1> DEFINE s == rd.slice
           b == fr.pos.offset
           i == rd.index
           q == s[b + 1]
           v == Value(rd, fr, buf, i)
<1> SUFFICES ASSUME Clean(rd'.slice)
             PROVE  StringTold(rd', fr', buf', Escapes')
    BY DEF StringTold
<1>0. /\ ScanInv /\ fr \in Frame /\ ReaderInv(rd) /\ i \in Nat /\ b \in Nat
      /\ s \in Seq(Byte) /\ Len(s) \in Nat /\ i <= Len(s) /\ Escapes \in BOOLEAN
    BY Found, ReaderFields DEF Known, ReaderInv, Escapes
<1>1. /\ rd'.slice = s /\ Clean(s) /\ Escapes' = Escapes /\ fr'.pos = fr.pos
      /\ fr'.ending = fr.ending
    BY <1>0, StringsStay DEF Within, Escapes
<1>2. fr' # NoFrame
    BY DEF NoFrame
<1>3. fr.pc = "stringLoop" /\ ~Eof(rd)
    BY <1>2 DEF scanString, Return, Result, At
<1>4. /\ q \in {Quote, DQuote} /\ fr.ending = q /\ fr.ch = Peek(rd)
      /\ rd.lastWidth = DecodeWidth(s, i)
      /\ b < i /\ Told(s, b, i, v, q, Escapes)
    BY <1>1, <1>3 DEF StringTold, Stringing
<1>5. /\ q \in Byte /\ q # Backslash /\ q \in 1 .. 127
      /\ v \in Seq(Byte) /\ setUseBuf(Rest(Data(rd, fr.pos))) = v
    BY <1>0, <1>4, QuoteBytes, ValueBytes
<1>6. /\ i < Len(s) /\ fr.ch = RuneAt(s, i)
      /\ \A x \in 1 .. 127 : fr.ch = x => s[i + 1] = x /\ Advance(rd).index = i + 1
    BY <1>0, <1>3, <1>4, ReadsByte
<1>7. CASE fr.ch = fr.ending
    <2>1. /\ rd' = Advance(rd) /\ fr'.pc = "afterQuote" /\ fr'.useBuf = fr.useBuf /\ buf' = buf
          /\ fr'.ch = fr.ch
        BY <1>0, <1>3, <1>7 DEF scanString, Step, Goto, Frame, At
    <2>2. rd'.index = i + 1 /\ s[i + 1] = q
        BY <1>4, <1>5, <1>6, <1>7, <2>1
    <2>3. (i + 1) - 1 = i
        BY <1>0
    <2>4. Value(rd', fr', buf', i) = v
        BY <1>1, <2>1 DEF Value
    <2> QED
        BY <1>1, <1>4, <1>7, <2>1, <2>2, <2>3, <2>4 DEF StringTold
<1>8. CASE fr.ch # fr.ending /\ fr.ch = Backslash /\ Escapes
    <2>1. ~HasNoBackslashEscapesMode(sqlMode)
        BY <1>8 DEF Escapes, HasNoBackslashEscapesMode
    <2>2. /\ rd' = Advance(rd) /\ fr'.pc = "afterBackslash" /\ fr'.useBuf = TRUE /\ buf' = v
        BY <1>0, <1>3, <1>5, <1>8, <2>1 DEF scanString, StepBuf, Goto, Frame, At
    <2>3. rd'.index = i + 1 /\ s[i + 1] = Backslash
        BY <1>6, <1>8, <2>2, QuoteBytes
    <2>4. (i + 1) - 1 = i
        BY <1>0
    <2> QED
        BY <1>1, <1>4, <1>8, <2>2, <2>3, <2>4 DEF StringTold
<1>9. CASE fr.ch # fr.ending /\ ~(fr.ch = Backslash /\ Escapes)
    <2>1. HasNoBackslashEscapesMode(sqlMode) <=> ~Escapes
        BY DEF Escapes, HasNoBackslashEscapesMode
    <2>2. /\ rd' = rd /\ fr'.pc = "write" /\ fr'.useBuf = fr.useBuf /\ buf' = buf /\ fr'.ch = fr.ch
        BY <1>0, <1>3, <1>9, <2>1 DEF scanString, Step, Goto, Frame, At
    <2> DEFINE w == DecodeWidth(s, i)
               x == SubSeq(s, i + 1, i + w)
    <2>3. w \in 1 .. 4 /\ i + w <= Len(s) /\ Written(fr.ch, w) = x
        <3> HIDE DEF v, q, s, b, i
        <3>1. i < Len(s) /\ fr.ch = RuneAt(s, i)
            BY <1>6
        <3> QED
            BY <1>0, <1>1, <3>1, CleanRune
    <2>4. \A k \in 1 .. w : PlainByte(s, i + k, q, Escapes)
        <3> HIDE DEF v, q, s, b, i
        <3>1. i < Len(s) /\ RuneAt(s, i) # q /\ ~(RuneAt(s, i) = Backslash /\ Escapes)
            BY <1>4, <1>6, <1>9
        <3> QED
            BY <1>0, <1>1, <1>5, <3>1, PlainRune
    <2>5. Told(s, b, i + w, v \o x, q, Escapes)
        <3> HIDE DEF w, v, q, s, b, i
        <3> QED
            BY <1>0, <1>4, <1>5, <2>3, <2>4, ToldRune
    <2>6. Value(rd', fr', buf' \o Written(fr'.ch, w), i + w) = v \o x
        <3>1. SubSeq(s, b + 2, i) \o x = SubSeq(s, b + 2, i + w)
            <4> HIDE DEF w, s, b, i
            <4> QED
                BY <1>0, <1>4, <2>3, TextAndRune
        <3> QED
            BY <1>1, <2>2, <2>3, <3>1 DEF Value
    <2>7. b < i + w
        <3> HIDE DEF w, s, b, i
        <3> QED
            BY <1>0, <1>4, <2>3
    <2> HIDE DEF w, x
    <2> QED
        BY <1>1, <1>3, <1>4, <2>2, <2>5, <2>6, <2>7 DEF StringTold, w
<1> QED
    BY <1>7, <1>8, <1>9

LEMMA ByteByByte ==
    ASSUME NEW lit \in Seq(Byte), NEW a \in Byte, NEW c \in Byte
    PROVE  /\ a % 256 = a
           /\ (lit \o <<a>>) \o <<c>> = lit \o <<a, c>>
<1>1. a % 256 = a
    BY SMT DEF Byte
<1>2. <<a>> \o <<c>> = <<a, c>>
    <2> DEFINE m == <<a>>
               n == <<c>>
               t == m \o n
               u == <<a, c>>
    <2>1. m \in Seq(Byte) /\ n \in Seq(Byte) /\ Len(m) = 1 /\ Len(n) = 1 /\ m[1] = a /\ n[1] = c
        OBVIOUS
    <2>2. u \in Seq(Byte) /\ Len(u) = 2 /\ u[1] = a /\ u[2] = c
        OBVIOUS
    <2>3. t \in Seq(Byte) /\ Len(t) = 2 /\ t[1] = a /\ t[2] = c
        <3> HIDE DEF m, n
        <3>1. /\ t \in Seq(Byte) /\ Len(t) = Len(m) + Len(n)
              /\ \A i \in 1 .. Len(m) + Len(n) :
                    t[i] = IF i <= Len(m) THEN m[i] ELSE n[i - Len(m)]
            BY <2>1, ConcatProperties
        <3> HIDE DEF t
        <3> QED
            BY <2>1, <3>1
    <2> HIDE DEF t, u
    <2>4. t = u
        <3>1. \A i \in 1 .. Len(t) : t[i] = u[i]
            BY <2>2, <2>3
        <3> QED
            BY <2>2, <2>3, <3>1, SeqEqual
    <2> QED
        BY <2>4 DEF t, u, m, n
<1>3. (lit \o <<a>>) \o <<c>> = lit \o (<<a>> \o <<c>>)
    <2> DEFINE m == <<a>>
               n == <<c>>
    <2>1. m \in Seq(Byte) /\ n \in Seq(Byte)
        OBVIOUS
    <2> HIDE DEF m, n
    <2>2. (lit \o m) \o n = lit \o (m \o n)
        BY <2>1, BytesAssociative
    <2> QED
        BY <2>2 DEF m, n
<1> QED
    BY <1>1, <1>2, <1>3

\* The character behind a backslash, in a clean text: what is written for it is
\* what the reference takes.
LEMMA EscapedRune ==
    ASSUME NEW s \in Seq(Byte), Clean(s), NEW b \in Nat, NEW i \in Nat, b < i - 1, i < Len(s),
           NEW q \in 1 .. 127, q # Backslash, s[i] = Backslash,
           NEW lit \in Seq(Byte), NEW backslash \in BOOLEAN, backslash,
           Told(s, b, i - 1, lit, q, backslash)
    PROVE  LET c == RuneAt(s, i)
               w == DecodeWidth(s, i)
               before == IF c \in {Percent, Underscore} THEN sputc(lit, Backslash) ELSE lit
           IN  Told(s, b, i + w, before \o Written(Escaped(c), w), q, backslash)
<1> DEFINE c == RuneAt(s, i)
           w == DecodeWidth(s, i)
           before == IF c \in {Percent, Underscore} THEN sputc(lit, Backslash) ELSE lit
           e == i - 1
           x == s[i + 1]
<1>0. q \in Byte /\ Backslash = 92 /\ Backslash \in Byte
    BY SMT DEF Byte, Backslash
<1>1. e \in Nat /\ b < e /\ e < Len(s) /\ e + 1 = i /\ e + 2 = i + 1 /\ Len(s) \in Nat
    BY LenProperties, SMT
<1>2. x \in Byte /\ x \in Nat
    <2>1. i + 1 \in 1 .. Len(s)
        BY <1>1
    <2>2. x \in Byte
        BY <2>1, ElementOfSeq
    <2>3. \A y \in Byte : y \in Nat
        BY DEF Byte
    <2> QED
        BY <2>2, <2>3
<1>3. Told(s, b, i + 1, lit \o EscapedText(x), q, backslash)
    <2>1. Told(s, b, e, lit, q, backslash)
        OBVIOUS
    <2> HIDE DEF e
    <2>2. s[e + 1] = Backslash /\ s[e + 2] = x
        BY <1>1
    <2>3. ~Closes(s, e, q)
        BY <2>2 DEF Closes
    <2>4. Onto(s, e, q, backslash) = i + 1 /\ Taken(s, e, q, backslash) = EscapedText(x)
        BY <1>1, <2>2 DEF Onto, Taken
    <2> QED
        BY <1>0, <1>1, <2>1, <2>3, <2>4, ToldStep
<1>4. /\ w \in 1 .. 4 /\ i + w <= Len(s)
      /\ c \in Nat /\ Written(c, w) = SubSeq(s, i + 1, i + w)
      /\ w = 1 => c = x /\ c \in Byte
      /\ w > 1 => c >= 128 /\ \A k \in 1 .. w : s[i + k] >= 128
    BY CleanRune
<1> HIDE DEF c, w, e
<1>5. CASE w = 1 /\ c \notin {Percent, Underscore}
    <2>1. EscapedText(x) = <<Escaped(c)>> /\ Escaped(c) \in Byte /\ before = lit
        BY <1>4, <1>5, EscapesAgree
    <2>2. Written(Escaped(c), w) = <<Escaped(c)>>
        <3>1. \A y \in Byte : y % 256 = y
            BY ByteByByte
        <3> QED
            BY <1>5, <2>1, <3>1 DEF Written
    <2> HIDE DEF before, x
    <2> QED
        BY <1>3, <1>5, <2>1, <2>2 DEF c, w, before
<1>6. CASE w = 1 /\ c \in {Percent, Underscore}
    <2>1. EscapedText(x) = <<Backslash, c>> /\ Escaped(c) = c /\ c = x /\ c \in Byte
        BY <1>4, <1>6, EscapesAgree
    <2>2. Written(Escaped(c), w) = <<c>>
        <3>1. \A y \in Byte : y % 256 = y
            BY ByteByByte
        <3> QED
            BY <1>6, <2>1, <3>1 DEF Written
    <2>3. before = lit \o <<Backslash>>
        <3>1. Backslash % 256 = Backslash
            BY <1>0
        <3> QED
            BY <1>0, <1>6, <3>1, AppendIsConcat DEF sputc
    <2>4. (lit \o <<Backslash>>) \o <<c>> = lit \o <<Backslash, c>>
        BY <1>0, <2>1, ByteByByte
    <2> HIDE DEF before, x
    <2> QED
        BY <1>3, <1>6, <2>1, <2>2, <2>3, <2>4 DEF c, w, before
<1>7. CASE w > 1
    <2>1. c >= 128 /\ x >= 128
        <3>1. 1 \in 1 .. w
            BY <1>4
        <3> QED
            BY <1>4, <1>7, <3>1
    <2>2. EscapedText(x) = <<x>> /\ Escaped(c) = c /\ before = lit
        BY <1>2, <1>4, <2>1, EscapesAgree
    <2> DEFINE d == i + 1
               n == w - 1
               m == <<x>>
               rest == SubSeq(s, d + 1, d + n)
    <2>3. d \in Nat /\ b < d /\ n \in 1 .. 4 /\ d + n = i + w /\ d + n <= Len(s)
        BY <1>1, <1>4, <1>7
    <2>4. \A k \in 1 .. n : PlainByte(s, d + k, q, backslash)
        <3> SUFFICES ASSUME NEW k \in 1 .. n
                     PROVE  PlainByte(s, d + k, q, backslash)
            OBVIOUS
        <3>1. k + 1 \in 1 .. w /\ d + k = i + (k + 1) /\ d + k \in 1 .. Len(s)
            BY <1>1, <1>4, <2>3
        <3>2. s[d + k] >= 128
            BY <1>4, <1>7, <3>1
        <3>3. s[d + k] \in Nat
            <4>1. s[d + k] \in Byte
                BY <3>1, ElementOfSeq
            <4>2. \A y \in Byte : y \in Nat
                BY DEF Byte
            <4> QED
                BY <4>1, <4>2
        <3> DEFINE y == s[d + k]
        <3>4. y \in Nat /\ y >= 128
            BY <3>2, <3>3
        <3> HIDE DEF y, d
        <3>5. y # q /\ y # Backslash
            BY <1>0, <3>4
        <3> QED
            BY <3>5 DEF PlainByte, y
    <2>5. m \in Seq(Byte) /\ lit \o m \in Seq(Byte) /\ rest \in Seq(Byte)
        <3>1. m \in Seq(Byte)
            BY <1>2
        <3>2. rest \in Seq(Byte)
            <4> HIDE DEF d, n
            <4>1. d <= d + n /\ d + n \in Nat
                BY <2>3
            <4> QED
                BY <2>3, <4>1, PartOfText
        <3> HIDE DEF m, rest
        <3> QED
            BY <3>1, <3>2, ConcatProperties
    <2>6. m \o rest = SubSeq(s, i + 1, i + w)
        <3>1. SubSeq(s, i + 1, i + 1) = m
            <4>1. 1 \in 1 .. 4 /\ i + 1 <= Len(s)
                BY <1>1, SMT
            <4> QED
                BY <4>1, FewBytes
        <3>2. SubSeq(s, i + 1, d) \o SubSeq(s, d + 1, d + n) = SubSeq(s, i + 1, d + n)
            <4>1. i + 1 \in 1 .. Len(s) + 1 /\ d \in (i + 1) - 1 .. Len(s) /\ d + n \in d .. Len(s)
                BY <1>1, <1>4, <1>7
            <4> HIDE DEF d, n
            <4> QED
                BY <4>1, ConcatAdjacentSubSeq
        <3> QED
            BY <2>3, <3>1, <3>2
    <2>7. Told(s, b, d + n, (lit \o m) \o rest, q, backslash)
        <3>1. Told(s, b, d, lit \o m, q, backslash)
            BY <1>3, <2>2
        <3> HIDE DEF d, n, m
        <3> QED
            BY ZenonT(60), <1>0, <2>3, <2>4, <2>5, <3>1, ToldRune
    <2>8. (lit \o m) \o rest = lit \o (m \o rest)
        <3> HIDE DEF m, rest
        <3> QED
            BY <2>5, BytesAssociative
    <2> HIDE DEF m, rest, d, n, before, x
    <2> QED
        BY <1>4, <2>2, <2>3, <2>6, <2>7, <2>8 DEF c, w, before
<1>8. w = 1 \/ w > 1
    BY <1>4
<1> QED
    BY <1>5, <1>6, <1>7, <1>8

\* A quote has been read: the first of a pair is written.
LEMMA QuotesString ==
    ASSUME Known, StringTold(rd, fr, buf, Escapes), afterQuote, fr'.pc # "idle"
    PROVE  StringTold(rd', fr', buf', Escapes')
<1> DEFINE s == rd.slice
           b == fr.pos.offset
           i == rd.index
           e == i - 1
           q == s[b + 1]
           v == Value(rd, fr, buf, e)
<1> SUFFICES ASSUME Clean(rd'.slice)
             PROVE  StringTold(rd', fr', buf', Escapes')
    BY DEF StringTold
<1>0. /\ ScanInv /\ fr \in Frame /\ ReaderInv(rd) /\ i \in Nat /\ b \in Nat
      /\ s \in Seq(Byte) /\ Len(s) \in Nat /\ i <= Len(s) /\ Escapes \in BOOLEAN
    BY Found, ReaderFields DEF Known, ReaderInv, Escapes
<1>1. /\ rd'.slice = s /\ Clean(s) /\ Escapes' = Escapes /\ fr'.pos = fr.pos
      /\ fr'.ending = fr.ending
    BY <1>0, StringsStay DEF Within, Escapes
<1>2. fr' # NoFrame
    BY DEF NoFrame
<1>3. fr.pc = "afterQuote" /\ Peek(rd) = fr.ending
    BY <1>2 DEF afterQuote, Return, Result, At
<1>4. /\ q \in {Quote, DQuote} /\ fr.ending = q /\ fr.ch = q /\ s[i] = q
      /\ b < e /\ Told(s, b, e, v, q, Escapes)
    BY <1>1, <1>3 DEF StringTold, Stringing
<1>5. q \in Byte /\ q # Backslash /\ q \in 1 .. 127
    BY <1>4, QuoteBytes
<1>6. v \in Seq(Byte) /\ setUseBuf(Inner(Data(rd, fr.pos))) = v
    <2>1. b < i
        BY <1>0, <1>4, SMT
    <2> QED
        BY <1>0, <2>1, ValueBytes
<1>7. ~Eof(rd)
    <2>1. rune_eof \notin 1 .. 127
        BY SMT DEF rune_eof
    <2> QED
        BY <1>3, <1>4, <1>5, <2>1 DEF Peek
<1>8. i < Len(s) /\ s[i + 1] = q /\ Peek(rd) = RuneAt(s, i) /\ DecodeWidth(s, i) = 1
    <2>1. i < Len(s) /\ s[i + 1] = q /\ Peek(rd) = RuneAt(s, i)
        BY <1>0, <1>3, <1>4, <1>5, <1>7, ReadsByte
    <2> HIDE DEF s, i, q
    <2>2. DecodeWidth(s, i) = 1
        BY <1>0, <1>1, <1>3, <1>4, <1>5, <2>1, CleanRune
    <2> QED
        BY <2>1, <2>2
<1>9. /\ rd' = Peeked(rd) /\ fr'.pc = "write" /\ fr'.useBuf = TRUE /\ buf' = v /\ fr'.ch = fr.ch
    BY <1>0, <1>3, <1>6 DEF afterQuote, StepBuf, Goto, Frame, At
<1>10. rd'.index = i /\ rd'.lastWidth = 1 /\ ~Eof(rd')
    BY <1>0, <1>7, <1>8, <1>9, PeekAgain, AdvanceBy
<1>11. e \in Nat /\ e < Len(s) /\ e + 1 = i /\ e + 2 = i + 1 /\ e + 1 < Len(s) /\ b < i + 1
    BY SMTT(30), <1>0, <1>4, <1>8
<1>12. Written(q, 1) = <<q>> /\ s[e + 1] = q /\ s[e + 2] = q
    <2>1. q % 256 = q
        <3>1. \A x \in 1 .. 127 : x % 256 = x
            BY SMT
        <3> HIDE DEF q
        <3> QED
            BY <1>5, <3>1
    <2>2. Written(q, 1) = <<q % 256>>
        BY SMT DEF Written
    <2> QED
        BY <1>4, <1>8, <1>11, <2>1, <2>2
<1>13. Told(s, b, i + 1, v \o <<q>>, q, Escapes)
    <2> HIDE DEF s, b, i, e, q, v
    <2>1. ~Closes(s, e, q)
        BY <1>11, <1>12 DEF Closes
    <2>2. Onto(s, e, q, Escapes) = i + 1 /\ Taken(s, e, q, Escapes) = <<q>>
        BY <1>11, <1>12 DEF Onto, Taken
    <2> QED
        BY <1>0, <1>4, <1>5, <1>6, <1>11, <2>1, <2>2, ToldStep
<1>14. Value(rd', fr', buf' \o Written(fr'.ch, 1), i + 1) = v \o <<q>>
    BY <1>4, <1>9, <1>12 DEF Value
<1> QED
    BY <1>1, <1>4, <1>8, <1>9, <1>10, <1>11, <1>13, <1>14 DEF StringTold

\* The character behind a backslash has been looked at.
LEMMA EscapesString ==
    ASSUME Known, StringTold(rd, fr, buf, Escapes), handleEscape
    PROVE  StringTold(rd', fr', buf', Escapes')
<1> DEFINE s == rd.slice
           b == fr.pos.offset
           i == rd.index
           e == i - 1
           q == s[b + 1]
           c == Peek(rd)
<1> SUFFICES ASSUME Clean(rd'.slice)
             PROVE  StringTold(rd', fr', buf', Escapes')
    BY DEF StringTold
<1>0. /\ ScanInv /\ fr \in Frame /\ ReaderInv(rd) /\ i \in Nat /\ b \in Nat
      /\ s \in Seq(Byte) /\ Len(s) \in Nat /\ i <= Len(s) /\ Escapes \in BOOLEAN
      /\ buf \in Seq(Byte)
    BY Found, ReaderFields DEF Known, ReaderInv, Escapes, ScanInv, Settled
<1>1. /\ rd' = Peeked(rd) /\ fr'.pc = "write" /\ fr'.useBuf = fr.useBuf /\ fr'.ch = Escaped(c)
      /\ buf' = IF c \in {Percent, Underscore} THEN sputc(buf, Backslash) ELSE buf
      /\ fr.pc = "afterBackslash" /\ fr'.pos = fr.pos /\ fr'.ending = fr.ending
      /\ sqlMode' = sqlMode
    BY <1>0 DEF handleEscape, StepBuf, Goto, Frame, At
<1>2. /\ rd'.slice = s /\ Clean(s) /\ Escapes' = Escapes /\ rd'.index = i /\ (Eof(rd') <=> Eof(rd))
    BY <1>0, <1>1, PeekedInv, PeekAgain DEF Escapes
<1>3. /\ q \in {Quote, DQuote} /\ fr.ending = q /\ s[i] = Backslash /\ Escapes /\ fr.useBuf
      /\ b < e /\ Told(s, b, e, buf, q, Escapes)
    BY <1>1, <1>2 DEF StringTold, Stringing
<1>4. q \in Byte /\ q # Backslash /\ q \in 1 .. 127
    BY <1>3, QuoteBytes
<1>5. CASE ~Eof(rd)
    <2> DEFINE w == DecodeWidth(s, i)
               lit == buf' \o Written(fr'.ch, w)
    <2>1. i < Len(s) /\ c = RuneAt(s, i) /\ rd'.lastWidth = w /\ w \in 1 .. 4
        <3>1. i < Len(s) /\ c = RuneAt(s, i)
            BY <1>0, <1>5, ReadsByte
        <3>2. w \in 1 .. 4
            BY <1>0, <3>1, DecodeWidthBounds
        <3> QED
            BY <1>0, <1>1, <1>5, <3>1, <3>2, AdvanceBy
    <2>2. Told(s, b, i + w, lit, q, Escapes)
        <3> HIDE DEF s, b, i, q
        <3>1. b < i - 1 /\ Told(s, b, i - 1, buf, q, Escapes)
            BY <1>3
        <3> HIDE DEF e, w
        <3>2. Told(s, b, i + w,
                   (IF c \in {Percent, Underscore} THEN sputc(buf, Backslash) ELSE buf)
                   \o Written(Escaped(c), w), q, Escapes)
            BY ZenonT(60), <1>0, <1>2, <1>3, <1>4, <2>1, <3>1, EscapedRune DEF w
        <3> QED
            BY <1>1, <3>2
    <2>3. b < i + w
        <3> HIDE DEF w
        <3> QED
            BY <1>0, <1>3, <2>1, SMT
    <2>4. Value(rd', fr', lit, i + w) = lit
        BY <1>1, <1>3 DEF Value
    <2> HIDE DEF w, lit
    <2> QED
        BY <1>1, <1>2, <1>3, <1>5, <2>1, <2>2, <2>3, <2>4 DEF StringTold, w, lit
<1>6. CASE Eof(rd)
    <2>1. i = Len(s) /\ e \in Nat /\ e < Len(s) /\ e + 1 = i
        BY <1>0, <1>3, <1>6, SMT DEF Eof
    <2>2. LiteralEnd(s, b, q, Escapes) = 0
        <3> HIDE DEF s, b, i, e, q
        <3>1. s[e + 1] = Backslash
            BY <1>3, <2>1
        <3>2. ~Closes(s, e, q)
            BY <1>4, <3>1 DEF Closes
        <3>3. Told(s, b, Onto(s, e, q, Escapes), buf \o Taken(s, e, q, Escapes), q, Escapes)
            BY <1>0, <1>3, <1>4, <2>1, <3>2, ToldStep
        <3>4. Onto(s, e, q, Escapes) = Len(s) + 1
            <4>1. Onto(s, e, q, Escapes) = e + 2
                BY <1>3, <3>1 DEF Onto
            <4> QED
                BY <1>0, <2>1, <4>1
        <3> QED
            BY <1>0, <1>4, <3>3, <3>4, ToldNever
    <2> QED
        BY <1>1, <1>2, <1>3, <1>6, <2>2 DEF StringTold
<1> QED
    BY <1>5, <1>6

\* The rune is read, and in the buffer if that is used.
LEMMA WritesString ==
    ASSUME Known, StringTold(rd, fr, buf, Escapes), writeString
    PROVE  StringTold(rd', fr', buf', Escapes')
<1> DEFINE s == rd.slice
           b == fr.pos.offset
           i == rd.index
           q == s[b + 1]
           w == DecodeWidth(s, i)
           v == Value(rd, fr, buf \o Written(fr.ch, w), i + w)
<1> SUFFICES ASSUME Clean(rd'.slice)
             PROVE  StringTold(rd', fr', buf', Escapes')
    BY DEF StringTold
<1>0. ScanInv /\ fr \in Frame /\ ReaderInv(rd)
    BY Found DEF Known
<1>1. /\ rd' = Advance(rd) /\ fr'.pc = IF Eof(rd) THEN "stringLoop" ELSE "stringPeek"
      /\ fr'.useBuf = fr.useBuf /\ buf' = writeRune(fr.ch, rd.lastWidth)
      /\ fr.pc = "write" /\ fr'.pos = fr.pos /\ fr'.ending = fr.ending
      /\ sqlMode' = sqlMode
    BY <1>0 DEF writeString, StepBuf, Goto, Frame, At
<1>2. rd'.slice = s /\ Clean(s) /\ Escapes' = Escapes
    BY <1>0, <1>1, OnwardFacts DEF Onward, Escapes
<1>3. /\ q \in {Quote, DQuote} /\ fr.ending = q
      /\ ~Eof(rd) => /\ rd.lastWidth = w
                     /\ b < i + w /\ Told(s, b, i + w, v, q, Escapes)
      /\ Eof(rd) => LiteralEnd(s, b, q, Escapes) = 0
    BY <1>1, <1>2 DEF StringTold, Stringing
<1>4. CASE Eof(rd)
    <2>1. rd' = rd
        BY <1>1, <1>4 DEF Advance
    <2> QED
        BY <1>1, <1>2, <1>3, <1>4, <2>1 DEF StringTold
<1>5. CASE ~Eof(rd)
    <2>1. rd'.index = i + w
        BY <1>0, <1>1, <1>5, AdvanceBy
    <2>2. fr.useBuf => buf' = buf \o Written(fr.ch, w)
        BY <1>1, <1>3, <1>5 DEF writeRune, Written
    <2>3. Value(rd', fr', buf', i + w) = v
        BY <1>1, <1>2, <2>2 DEF Value
    <2> HIDE DEF w, v
    <2> QED
        BY <1>1, <1>2, <1>3, <1>5, <2>1, <2>3 DEF StringTold
<1> QED
    BY <1>4, <1>5

LEMMA NextString ==
    ASSUME Known, StringTold(rd, fr, buf, Escapes), Scanning \/ Call
    PROVE  StringTold(rd', fr', buf', Escapes')
<1>1. fr'.pc \notin Stringing => StringTold(rd', fr', buf', Escapes')
    BY DEF StringTold
<1>2. fr'.pc \in Stringing =>
        \/ startString \/ scanString \/ afterQuote \/ handleEscape \/ writeString
    BY QuotesFrom
<1>3. "idle" \notin Stringing
    BY DEF Stringing
<1> QED
    BY <1>1, <1>2, <1>3, BeginsString, PeeksString, LoopsString, QuotesString, EscapesString,
       WritesString

\* The closing quote, or the end of a text that has none.
LEMMA StringReturn ==
    ASSUME Known, StringTold(rd, fr, buf, Escapes), Scanning \/ Call, fr'.pc = "idle"
    PROVE  StringLiterals'
<1> DEFINE s == rd.slice
           b == fr.pos.offset
           i == rd.index
           e == i - 1
           end(x) == LiteralEnd(text', out'.begin, x, Escapes')
<1> SUFFICES ASSUME NEW q \in {Quote, DQuote}, Opens(q)', Clean(text')
             PROVE  IF end(q) = 0
                    THEN out'.tok = rune_invalid /\ out'.to = Len(text')
                    ELSE /\ out'.tok = tok_stringLit
                         /\ out'.to = end(q)
                         /\ out'.lit = Unquoted(text', out'.begin + 1, end(q) - 1, q, Escapes')
    BY DEF StringLiterals, Escapes
<1>0. /\ ScanInv /\ fr \in Frame /\ ReaderInv(rd) /\ i \in Nat /\ b \in Nat
      /\ s \in Seq(Byte) /\ Len(s) \in Nat /\ i <= Len(s) /\ Escapes \in BOOLEAN
    BY Found, ReaderFields DEF Known, ReaderInv, Escapes
<1>1. /\ text' = s /\ out'.begin = b /\ out'.to = rd'.index /\ fr.pc \in Stringing /\ s[b + 1] = q
    <2>1. out'.begin < Len(text') /\ text'[out'.begin + 1] = q
        BY DEF Opens
    <2> QED
        BY <2>1, QuoteBytes, QuotesReturn
<1>2. Clean(s)
    BY <1>1
<1>3. q \in Byte /\ q # Backslash /\ q \in 1 .. 127
    BY QuoteBytes
<1>4. /\ \A l : Goto(l).pc = l
      /\ \A l, c : [Goto(l) EXCEPT !.ch = c].pc = l
      /\ \A l : [Goto(l) EXCEPT !.useBuf = TRUE].pc = l
    BY <1>0 DEF Goto, Frame
<1>5. scanString \/ afterQuote
    <2>1. startString => fr'.pc \in {"stringPeek", "stringLoop"}
        <3>1. fr.pc # "string"
            BY <1>1 DEF Stringing
        <3> QED
            BY <1>4, <3>1 DEF startString, Step, At
    <2>2. handleEscape => fr'.pc = "write"
        BY <1>4 DEF handleEscape, StepBuf
    <2>3. writeString => fr'.pc \in {"stringPeek", "stringLoop"}
        BY <1>4 DEF writeString, StepBuf
    <2>4. startString \/ scanString \/ afterQuote \/ handleEscape \/ writeString
        BY <1>1, QuotesAt
    <2> QED
        BY <2>1, <2>2, <2>3, <2>4
<1>6. Escapes' = Escapes
    BY <1>4, <1>5 DEF scanString, afterQuote, Return, Result, StepBuf, Step, Escapes
<1>7. CASE scanString
    <2>1. /\ fr.pc = "stringLoop" /\ Eof(rd) /\ rd' = rd /\ out'.tok = rune_invalid
        <3>1. fr'.pc \notin {"afterQuote", "afterBackslash", "write"}
            OBVIOUS
        <3>2. fr.pc = "stringLoop" /\ Eof(rd) /\ Return(rd, rune_invalid, fr.pos, << >>)
            BY <1>4, <1>7, <3>1 DEF scanString, Step, StepBuf, At
        <3> QED
            BY <3>2 DEF Return, Result
    <2>2. LiteralEnd(s, b, q, Escapes) = 0
        BY <1>1, <1>2, <2>1 DEF StringTold, Stringing
    <2>3. i = Len(s)
        BY <1>0, <2>1, SMT DEF Eof
    <2> QED
        BY <1>1, <1>6, <2>1, <2>2, <2>3
<1>8. CASE afterQuote
    <2> DEFINE v == Value(rd, fr, buf, e)
    <2>1. /\ fr.pc = "afterQuote" /\ Peek(rd) # fr.ending /\ rd' = Peeked(rd)
          /\ out'.tok = tok_stringLit /\ out'.lit = setUseBuf(Inner(Data(rd, fr.pos)))
        <3>1. fr'.pc # "write"
            OBVIOUS
        <3>2. /\ fr.pc = "afterQuote" /\ Peek(rd) # fr.ending
              /\ Return(Peeked(rd), tok_stringLit, fr.pos, setUseBuf(Inner(Data(rd, fr.pos))))
            BY <1>4, <1>8, <3>1 DEF afterQuote, StepBuf, At
        <3> QED
            BY <3>2 DEF Return, Result
    <2>2. /\ fr.ending = q /\ s[i] = q /\ b < e /\ Told(s, b, e, v, q, Escapes)
        BY <1>1, <1>2, <2>1 DEF StringTold, Stringing
    <2>3. v \in Seq(Byte) /\ out'.lit = v
        <3>1. b < i
            BY <1>0, <2>2, SMT
        <3> QED
            BY <1>0, <2>1, <3>1, ValueBytes
    <2>4. e \in Nat /\ e < Len(s) /\ e + 1 = i /\ i - 1 = e
        BY <1>0, <2>2, SMT
    <2>5. rd'.index = i
        BY <1>0, <2>1, PeekAgain
    <2> HIDE DEF e
    <2>6. Closes(s, e, q)
        <3>1. ASSUME e + 1 < Len(s)
              PROVE  s[e + 2] # q
            <4>1. ~Eof(rd) /\ e + 2 = i + 1
                BY <1>0, <2>4, <3>1, SMT DEF Eof
            <4>2. s[i + 1] \in 1 .. 127 => Peek(rd) = s[i + 1]
                BY <1>0, <4>1, ReadsByte
            <4> QED
                BY <1>3, <2>1, <2>2, <4>1, <4>2
        <3> QED
            BY <2>2, <2>4, <3>1 DEF Closes
    <2>7. /\ LiteralEnd(s, b, q, Escapes) = e + 1
          /\ Unquoted(s, b + 1, e, q, Escapes) = v
        <3> HIDE DEF s, b, v
        <3> QED
            BY <1>0, <1>3, <2>2, <2>3, <2>4, <2>6, ToldEnds
    <2>8. i # 0 /\ e + 1 = i
        BY <1>0, <2>4, SMT
    <2> QED
        BY <1>1, <1>6, <2>1, <2>3, <2>4, <2>5, <2>7, <2>8
<1> QED
    BY <1>5, <1>7, <1>8

\* A string literal ends at its own quote and its value is the text in between
\* with each doubled quote halved and each escape replaced, whatever the
\* statement, the mode and what the buffer held before.
THEOREM ScannerStringLiterals == ScanSpec => []StringLiterals
<1>1. Init => StringTold(rd, fr, buf, Escapes) /\ StringLiterals
    <2> SUFFICES ASSUME Init
                 PROVE  StringTold(rd, fr, buf, Escapes) /\ StringLiterals
        OBVIOUS
    <2>1. fr.pc = "idle" /\ ~Returned
        BY DEF Init, NoFrame, Returned
    <2> QED
        BY <2>1 DEF StringTold, StringLiterals, Stringing
<1>2. /\ Known /\ StringTold(rd, fr, buf, Escapes) /\ StringLiterals
      /\ [Scanning \/ Call]_vars
      => StringTold(rd, fr, buf, Escapes)' /\ StringLiterals'
    <2>1. UNCHANGED vars => UNCHANGED <<rd, fr, buf, out, sqlMode>>
        BY DEF vars
    <2>2. StringTold(rd, fr, buf, Escapes) /\ UNCHANGED <<rd, fr, buf, out, sqlMode>>
          => StringTold(rd, fr, buf, Escapes)'
        BY DEF Escapes
    <2>3. StringLiterals /\ UNCHANGED <<rd, fr, buf, out, sqlMode>> => StringLiterals'
        BY DEF StringLiterals, Returned, At, text, Opens
    <2>4. Known /\ StringTold(rd, fr, buf, Escapes) /\ (Scanning \/ Call) => StringLiterals'
        <3>1. fr'.pc # "idle" => StringLiterals'
            BY DEF StringLiterals, Returned, At
        <3> QED
            BY <3>1, StringReturn
    <2> QED
        BY <2>1, <2>2, <2>3, <2>4, NextString
<1> QED
    BY <1>1, <1>2, ScannerKnown, PTL DEF ScanSpec

-----------------------------------------------------------------------------
(***************************************************************************)
(* White space and comments (scanner.cc:84-100, lexer.cc:27-182).  What    *)
(* the reference says of an offset, in terms of the offset behind it.      *)
(***************************************************************************)
LEMMA LooksAt ==
    ASSUME NEW s \in Seq(Byte), NEW i \in Nat, i <= Len(s), NEW a, NEW b, NEW c
    PROVE  /\ Looks(s, i, <<a>>) <=> i < Len(s) /\ s[i + 1] = a
           /\ Looks(s, i, <<a, b>>) <=> i + 1 < Len(s) /\ s[i + 1] = a /\ s[i + 2] = b
           /\ Looks(s, i, <<a, b, c>>) <=>
                 i + 2 < Len(s) /\ s[i + 1] = a /\ s[i + 2] = b /\ s[i + 3] = c
<1>1. Len(s) \in Nat
    BY LenProperties
<1>2. Len(<<a>>) = 1 /\ Len(<<a, b>>) = 2 /\ Len(<<a, b, c>>) = 3
    BY SMT
<1>3. /\ i + 1 <= Len(s) => SubSeq(s, i + 1, i + 1) = <<s[i + 1]>>
      /\ i + 2 <= Len(s) => SubSeq(s, i + 1, i + 2) = <<s[i + 1], s[i + 2]>>
      /\ i + 3 <= Len(s) => SubSeq(s, i + 1, i + 3) = <<s[i + 1], s[i + 2], s[i + 3]>>
    <2>1. 1 \in 1 .. 4 /\ 2 \in 1 .. 4 /\ 3 \in 1 .. 4
        BY SMT
    <2> QED
        BY <2>1, FewBytes
<1>4. /\ \A x : <<x>> = <<a>> <=> x = a
      /\ \A x, y : <<x, y>> = <<a, b>> <=> x = a /\ y = b
      /\ \A x, y, z : <<x, y, z>> = <<a, b, c>> <=> x = a /\ y = b /\ z = c
    BY SMT
<1>5. /\ i + 1 <= Len(s) <=> i < Len(s)
      /\ i + 2 <= Len(s) <=> i + 1 < Len(s)
      /\ i + 3 <= Len(s) <=> i + 2 < Len(s)
    BY <1>1, SMT
<1>6. Looks(s, i, <<a>>) <=> i < Len(s) /\ s[i + 1] = a
    BY <1>2, <1>3, <1>4, <1>5 DEF Looks
<1>7. Looks(s, i, <<a, b>>) <=> i + 1 < Len(s) /\ s[i + 1] = a /\ s[i + 2] = b
    BY <1>2, <1>3, <1>4, <1>5 DEF Looks
<1>8. Looks(s, i, <<a, b, c>>) <=>
         i + 2 < Len(s) /\ s[i + 1] = a /\ s[i + 2] = b /\ s[i + 3] = c
    BY <1>2, <1>3, <1>4, <1>5 DEF Looks
<1> QED
    BY <1>6, <1>7, <1>8

\* The first place where the text looks so, if there is one.
LEMMA FirstPlace ==
    ASSUME NEW s \in Seq(Byte), NEW i \in Nat, i <= Len(s), NEW chars
    PROVE  LET j == FirstFrom(s, i, chars)
           IN  /\ j \in i .. Len(s)
               /\ \A k \in i .. Len(s) : k < j => ~Looks(s, k, chars)
               /\ (\E k \in i .. Len(s) : Looks(s, k, chars)) => Looks(s, j, chars)
               /\ j < Len(s) => Looks(s, j, chars)
<1> DEFINE found == {j \in i .. Len(s) : Looks(s, j, chars)}
           least == Min(found)
<1>1. Len(s) \in Nat
    BY LenProperties
<1>2. found \subseteq Nat /\ found \subseteq i .. Len(s)
    BY <1>1
<1>3. CASE found = {}
    <2>1. FirstFrom(s, i, chars) = Len(s)
        BY <1>3 DEF FirstFrom
    <2>2. \A k \in i .. Len(s) : ~Looks(s, k, chars)
        BY <1>3
    <2> QED
        BY <1>1, <2>1, <2>2
<1>4. CASE found # {}
    <2>1. FirstFrom(s, i, chars) = least
        BY <1>4 DEF FirstFrom
    <2>2. \E x \in found : \A y \in found : x <= y
        <3> HIDE DEF found
        <3> QED
            BY <1>2, <1>4, LeastElement
    <2>3. least \in found /\ \A y \in found : least <= y
        BY <2>2 DEF Min
    <2>4. least \in i .. Len(s) /\ Looks(s, least, chars)
        BY <2>3
    <2>5. ASSUME NEW k \in i .. Len(s), k < least
          PROVE  ~Looks(s, k, chars)
        <3>1. k \in found => least <= k
            BY <2>3
        <3>2. ~(least <= k)
            <4> HIDE DEF least
            <4> QED
                BY <1>1, <2>4, <2>5
        <3> QED
            BY <3>1, <3>2
    <2> HIDE DEF least, found
    <2> QED
        BY <2>1, <2>4, <2>5
<1> QED
    BY <1>3, <1>4

\* Where it is.
LEMMA FirstPlaceIs ==
    ASSUME NEW s \in Seq(Byte), NEW i \in Nat, NEW chars, NEW j \in i .. Len(s),
           \A k \in i .. Len(s) : k < j => ~Looks(s, k, chars),
           Looks(s, j, chars) \/ j = Len(s)
    PROVE  FirstFrom(s, i, chars) = j
<1> DEFINE f == FirstFrom(s, i, chars)
<1>1. Len(s) \in Nat /\ i <= Len(s) /\ j \in Nat
    BY LenProperties
<1>2. /\ f \in i .. Len(s)
      /\ \A k \in i .. Len(s) : k < f => ~Looks(s, k, chars)
      /\ f < Len(s) => Looks(s, f, chars)
    BY <1>1, FirstPlace
<1> HIDE DEF f
<1>3. ~(f < j)
    BY <1>1, <1>2
<1>4. ~(j < f)
    <2>1. j < f => j # Len(s)
        BY <1>1, <1>2
    <2> QED
        BY <1>2, <2>1
<1>5. f = j
    BY <1>1, <1>2, <1>3, <1>4
<1> QED
    BY <1>5 DEF f

\* Two characters of an opener or a closer, or three.
LEMMA Versions ==
    ASSUME NEW s \in Seq(Byte), NEW i \in Nat, i <= Len(s)
    PROVE  AfterVersion(s, i) \in i .. Len(s)
<1>1. Len(s) \in Nat
    BY LenProperties
<1> QED
    BY <1>1 DEF AfterVersion

\* The characters that trivia begin with, apart.
LEMMA TriviaCharacters ==
    /\ \A c \in {Slash, Star, 35} : c \in 1 .. 127 /\ ~is_space(c)
    /\ Slash # Star /\ Slash # 35 /\ Star # 35 /\ Star # Bang /\ Slash # Bang /\ Bang # 35
BY SMT DEF Slash, Star, Bang, is_space, CategoryMC, CategoryZS

\* What is skipped at an offset, by the character there.
LEMMA Pieces ==
    ASSUME NEW s \in Seq(Byte), NEW i \in Nat, i < Len(s), NEW b \in BOOLEAN
    PROVE  LET c == s[i + 1]
               space == is_space(RuneAt(s, i))
               bang == Looks(s, i, <<Slash, Star, Bang>>)
               comments == Looks(s, i, <<Slash, Star>>) /\ ~bang
               ends == Looks(s, i, <<Star, Slash>>) /\ b
               piece == AfterPiece(s, i, b)
           IN  /\ space => piece = <<i + DecodeWidth(s, i), b>>
               /\ bang => piece = <<AfterVersion(s, i + 3), TRUE>>
               /\ comments /\ Closed(s, i + 2) =>
                    piece = <<FirstFrom(s, i + 2, <<Star, Slash>>) + 2, b>>
               /\ ends => piece = <<i + 2, FALSE>>
               /\ c = 35 => piece = <<FirstFrom(s, i, <<Newline>>), b>>
               /\ ~space /\ ~bang /\ ~(comments /\ Closed(s, i + 2)) /\ ~ends /\ c # 35 =>
                    piece = <<i, b>>
<1> DEFINE c == s[i + 1]
           space == is_space(RuneAt(s, i))
           bang == Looks(s, i, <<Slash, Star, Bang>>)
           comments == Looks(s, i, <<Slash, Star>>) /\ ~bang
           ends == Looks(s, i, <<Star, Slash>>) /\ b
           piece == AfterPiece(s, i, b)
           closed == Closed(s, i + 2)
           A == <<i + DecodeWidth(s, i), b>>
           B == <<AfterVersion(s, i + 3), TRUE>>
           C == <<FirstFrom(s, i + 2, <<Star, Slash>>) + 2, b>>
           E == <<i + 2, FALSE>>
           F == <<FirstFrom(s, i, <<Newline>>), b>>
           G == <<i, b>>
<1>1. Len(s) \in Nat /\ i <= Len(s) /\ i # Len(s)
    BY LenProperties, SMT
<1>2. /\ bang => c = Slash
      /\ comments => c = Slash
      /\ ends => c = Star
    BY <1>1, LooksAt
<1>3. c \in {Slash, Star, 35} => ~space
    <2>1. c \in {Slash, Star, 35} => RuneAt(s, i) = c
        BY AsciiRunes, TriviaCharacters
    <2> QED
        BY <2>1, TriviaCharacters
<1>4. piece = CASE space -> A [] bang -> B [] comments /\ closed -> C [] ends -> E
                [] c = 35 -> F [] OTHER -> G
    BY <1>1, Zenon DEF AfterPiece
<1>5. Slash # Star /\ Slash # 35 /\ Star # 35
    BY TriviaCharacters
<1>6. comments => ~bang
    OBVIOUS
<1> HIDE DEF c, space, bang, comments, ends, piece, closed, A, B, C, E, F, G
<1>7. space => piece = A
    BY <1>2, <1>3, <1>4
<1>8. bang => piece = B
    BY <1>2, <1>3, <1>4, <1>5, <1>6
<1>9. comments /\ closed => piece = C
    BY <1>2, <1>3, <1>4, <1>5, <1>6
<1>10. ends => piece = E
    BY <1>2, <1>3, <1>4, <1>5, <1>6
<1>11. c = 35 => piece = F
    BY <1>2, <1>3, <1>4, <1>5, <1>6
<1>12. ~space /\ ~bang /\ ~(comments /\ closed) /\ ~ends /\ c # 35 => piece = G
    BY <1>4
<1> QED
    BY <1>7, <1>8, <1>9, <1>10, <1>11, <1>12 DEF c, space, bang, comments, ends, piece, closed, A, B, C, E, F, G

\* It stays in the text, and lies behind the offset unless nothing is skipped.
LEMMA PieceBounds ==
    ASSUME NEW s \in Seq(Byte), NEW i \in 0 .. Len(s), NEW b \in BOOLEAN
    PROVE  \E j \in i .. Len(s) : \E d \in BOOLEAN :
               AfterPiece(s, i, b) = <<j, d>> /\ (j = i => d = b)
<1> DEFINE space == is_space(RuneAt(s, i))
           bang == Looks(s, i, <<Slash, Star, Bang>>)
           comments == Looks(s, i, <<Slash, Star>>) /\ ~bang
           ends == Looks(s, i, <<Star, Slash>>) /\ b
           Goal == \E j \in i .. Len(s) : \E d \in BOOLEAN :
                       AfterPiece(s, i, b) = <<j, d>> /\ (j = i => d = b)
<1>1. Len(s) \in Nat /\ i \in Nat /\ i <= Len(s)
    BY LenProperties
<1>2. ASSUME NEW j \in Nat, NEW d \in BOOLEAN, i < j, j <= Len(s), AfterPiece(s, i, b) = <<j, d>>
      PROVE  Goal
    <2>1. j \in i .. Len(s) /\ j # i
        BY <1>1, <1>2
    <2> QED
        BY <1>2, <2>1
<1>3. ASSUME AfterPiece(s, i, b) = <<i, b>>
      PROVE  Goal
    <2>1. i \in i .. Len(s)
        BY <1>1
    <2> QED
        BY <1>3, <2>1
<1>4. CASE i = Len(s)
    BY <1>3, <1>4 DEF AfterPiece
<1>5. CASE i < Len(s)
    <2>1. CASE space
        <3> DEFINE j == i + DecodeWidth(s, i)
        <3>1. AfterPiece(s, i, b) = <<j, b>>
            BY <1>1, <1>5, <2>1, Pieces
        <3>2. j \in Nat /\ i < j /\ j <= Len(s)
            BY <1>1, <1>5, DecodeWidthBounds
        <3> HIDE DEF j, Goal
        <3> QED
            BY <1>2, <3>1, <3>2
    <2>2. CASE bang
        <3> DEFINE j == AfterVersion(s, i + 3)
        <3>1. AfterPiece(s, i, b) = <<j, TRUE>>
            BY <1>1, <1>5, <2>2, Pieces
        <3>2. i + 2 < Len(s)
            BY <1>1, <2>2, LooksAt
        <3>3. i + 3 \in Nat /\ i + 3 <= Len(s)
            BY <1>1, <3>2
        <3>4. j \in i + 3 .. Len(s)
            BY <3>3, Versions
        <3> HIDE DEF j
        <3>5. j \in Nat /\ i < j /\ j <= Len(s)
            BY <1>1, <3>4
        <3> DEFINE d == TRUE
        <3>6. d \in BOOLEAN /\ AfterPiece(s, i, b) = <<j, d>>
            BY <3>1
        <3> HIDE DEF Goal, d
        <3> QED
            BY <1>2, <3>5, <3>6
    <2>3. CASE comments /\ Closed(s, i + 2)
        <3> DEFINE j == FirstFrom(s, i + 2, <<Star, Slash>>)
        <3>1. AfterPiece(s, i, b) = <<j + 2, b>>
            BY <1>1, <1>5, <2>3, Pieces
        <3>2. i + 1 < Len(s)
            BY <1>1, <2>3, LooksAt
        <3>3. i + 2 \in Nat /\ i + 2 <= Len(s)
            BY <1>1, <3>2
        <3>4. j \in i + 2 .. Len(s) /\ Looks(s, j, <<Star, Slash>>)
            BY <2>3, <3>3, FirstPlace DEF Closed
        <3> HIDE DEF j
        <3>5. j \in Nat /\ j <= Len(s)
            BY <1>1, <3>4
        <3>6. j + 1 < Len(s)
            BY <3>4, <3>5, LooksAt
        <3>7. j + 2 \in Nat /\ i < j + 2 /\ j + 2 <= Len(s)
            BY <1>1, <3>4, <3>5, <3>6
        <3> HIDE DEF Goal
        <3> QED
            BY <1>2, <3>1, <3>7
    <2>4. CASE ends
        <3>1. AfterPiece(s, i, b) = <<i + 2, FALSE>>
            BY <1>1, <1>5, <2>4, Pieces
        <3>2. i + 1 < Len(s)
            BY <1>1, <2>4, LooksAt
        <3>3. i + 2 \in Nat /\ i < i + 2 /\ i + 2 <= Len(s)
            BY <1>1, <3>2
        <3> DEFINE d == FALSE
        <3>4. d \in BOOLEAN /\ AfterPiece(s, i, b) = <<i + 2, d>>
            BY <3>1
        <3> HIDE DEF Goal, d
        <3> QED
            BY <1>2, <3>3, <3>4
    <2>5. CASE s[i + 1] = 35
        <3> DEFINE j == FirstFrom(s, i, <<Newline>>)
        <3>1. AfterPiece(s, i, b) = <<j, b>>
            BY <1>1, <1>5, <2>5, Pieces
        <3>2. j \in i .. Len(s) /\ (j < Len(s) => Looks(s, j, <<Newline>>))
            BY <1>1, FirstPlace
        <3>3. ~Looks(s, i, <<Newline>>)
            <4>1. 35 # Newline
                BY SMT DEF Newline
            <4> QED
                BY <1>1, <2>5, <4>1, LooksAt
        <3> HIDE DEF j
        <3>4. j \in Nat /\ i < j /\ j <= Len(s)
            <4>1. j # i
                BY <1>5, <3>2, <3>3
            <4> QED
                BY <1>1, <3>2, <4>1
        <3> HIDE DEF Goal
        <3> QED
            BY <1>2, <3>1, <3>4
    <2>6. CASE ~space /\ ~bang /\ ~(comments /\ Closed(s, i + 2)) /\ ~ends /\ s[i + 1] # 35
        <3>1. AfterPiece(s, i, b) = <<i, b>>
            BY <1>1, <1>5, <2>6, Pieces
        <3> HIDE DEF Goal
        <3> QED
            BY <1>3, <3>1
    <2> HIDE DEF Goal
    <2> QED
        BY <2>1, <2>2, <2>3, <2>4, <2>5, <2>6
<1>6. i = Len(s) \/ i < Len(s)
    BY <1>1
<1> QED
    BY <1>4, <1>5, <1>6

\* So skipping goes on behind each piece, and ends where nothing is skipped.
LEMMA TriviaEquation ==
    ASSUME NEW s \in Seq(Byte), NEW i \in 0 .. Len(s), NEW b \in BOOLEAN,
           NEW j, NEW d, AfterPiece(s, i, b) = <<j, d>>
    PROVE  /\ AfterTrivia(s, i, b) = AfterTrivia(s, j, d)
           /\ j = i => AfterTrivia(s, i, b) = <<i, b>>
<1> DEFINE D == (0 .. Len(s)) \X BOOLEAN
           next[at \in D] == AfterPiece(s, at[1], at[2])
           rank == [at \in D |-> Len(s) - at[1]]
           Stop == {at \in D : next[at] = at}
           base == [at \in D |-> at]
           step == [at \in D |-> [v \in D |-> v]]
<1>1. Len(s) \in Nat
    BY LenProperties
<1>2. ASSUME NEW at \in D
      PROVE  /\ at[1] \in 0 .. Len(s) /\ at[2] \in BOOLEAN /\ at = <<at[1], at[2]>>
             /\ next[at] \in D
             /\ at \notin Stop => at[1] < next[at][1]
    <2>1. at[1] \in 0 .. Len(s) /\ at[2] \in BOOLEAN /\ at = <<at[1], at[2]>>
        OBVIOUS
    <2>2. PICK k \in at[1] .. Len(s), e \in BOOLEAN :
              AfterPiece(s, at[1], at[2]) = <<k, e>> /\ (k = at[1] => e = at[2])
        BY <2>1, PieceBounds
    <2>3. next[at] = <<k, e>>
        BY <2>2
    <2>4. <<k, e>> \in D /\ k \in Nat /\ at[1] \in Nat /\ at[1] <= k
        BY <1>1, <2>1, <2>2
    <2>5. at \notin Stop => k # at[1]
        BY <2>1, <2>2, <2>3
    <2>6. <<k, e>>[1] = k
        OBVIOUS
    <2> HIDE DEF D, next, Stop
    <2>7. at \notin Stop => at[1] < k
        BY <2>4, <2>5
    <2> QED
        BY <2>1, <2>3, <2>4, <2>6, <2>7
<1>3. Descends(D, rank, Len(s), Stop, next)
    <2>1. rank \in [D -> Nat] /\ \A at \in D : rank[at] <= Len(s)
        BY <1>1, <1>2
    <2>2. next \in [D -> D]
        BY <1>2
    <2>3. \A at \in D : at \notin Stop => rank[next[at]] < rank[at]
        <3> SUFFICES ASSUME NEW at \in D, at \notin Stop
                     PROVE  rank[next[at]] < rank[at]
            OBVIOUS
        <3> DEFINE n == next[at]
        <3>1. n \in D /\ at[1] < n[1] /\ at[1] \in 0 .. Len(s) /\ n[1] \in 0 .. Len(s)
            BY <1>2
        <3>2. rank[at] = Len(s) - at[1] /\ rank[n] = Len(s) - n[1]
            BY <3>1
        <3> DEFINE x == at[1]
                   y == n[1]
                   z == Len(s)
        <3>3. x \in 0 .. z /\ y \in 0 .. z /\ x < y /\ z \in Nat
            BY <1>1, <3>1
        <3> HIDE DEF x, y, z
        <3>4. z - y < z - x
            BY <3>3
        <3> QED
            BY <3>2, <3>4 DEF x, y, z
    <2> QED
        BY <2>1, <2>2, <2>3 DEF Descends
<1>4. base \in [D -> D] /\ step \in [D -> [D -> D]]
    OBVIOUS
<1>5. PICK f \in [D -> D] : Recurses(f, D, Stop, next, base, step)
    <2> DEFINE n == Len(s)
    <2>1. n \in Nat /\ Descends(D, rank, n, Stop, next)
        BY <1>1, <1>3
    <2> HIDE DEF D, rank, next, Stop, base, step, n
    <2> QED
        BY <1>4, <2>1, Recursion
<1> DEFINE Equation(skip) ==
        skip = [at \in D |-> LET n == AfterPiece(s, at[1], at[2])
                             IN  IF n = at THEN at ELSE skip[n]]
           g == CHOOSE skip : Equation(skip)
<1>6. Equation(f)
    <2>1. \A at \in D : /\ next[at] \in D /\ next[at] = AfterPiece(s, at[1], at[2])
                        /\ at \in Stop <=> next[at] = at
        BY <1>2
    <2>2. \A at \in D : base[at] = at /\ \A v \in D : step[at][v] = v
        OBVIOUS
    <2> HIDE DEF D, next, Stop, base, step
    <2> QED
        BY <1>5, <2>1, <2>2 DEF Recurses
<1>7. Equation(g)
    BY <1>6
<1>8. \A k, e : AfterTrivia(s, k, e) = g[<<k, e>>]
    BY DEF AfterTrivia
<1>9. \A at \in D : g[at] = IF next[at] = at THEN at ELSE g[next[at]]
    <2>1. \A at \in D : next[at] = AfterPiece(s, at[1], at[2])
        OBVIOUS
    <2>2. g = [at \in D |-> LET n == AfterPiece(s, at[1], at[2])
                           IN  IF n = at THEN at ELSE g[n]]
        BY <1>7
    <2> HIDE DEF D, next, g
    <2> QED
        BY <2>1, <2>2
<1>10. <<i, b>> \in D /\ next[<<i, b>>] = <<j, d>>
    OBVIOUS
<1>11. j = i => d = b
    <2>1. PICK k \in i .. Len(s), e \in BOOLEAN :
              AfterPiece(s, i, b) = <<k, e>> /\ (k = i => e = b)
        BY PieceBounds
    <2>2. k = j /\ e = d
        BY <2>1
    <2> QED
        BY <2>1, <2>2
<1> HIDE DEF g, next, D
<1>12. g[<<i, b>>] = IF <<j, d>> = <<i, b>> THEN <<i, b>> ELSE g[<<j, d>>]
    BY <1>9, <1>10
<1> QED
    BY <1>8, <1>11, <1>12

\* Every step of a call keeps what the call was given: where the reader stood
\* and whether a bang comment was open.
Recalls ==
    /\ IF fr'.pc = "idle"
       THEN out'.from = fr.from /\ out'.fromBang = fr.fromBang
       ELSE fr'.from = fr.from /\ fr'.fromBang = fr.fromBang
    /\ inBang' = inBang \/ Commenting

LEMMA NextRecalls ==
    ASSUME ScanInv, Ahead(rd, fr), Paced(rd, fr), Scanning
    PROVE  Recalls
<1>0. fr \in Frame
    BY Found
<1>1. ASSUME NEW r, NEW tok, NEW pos, NEW lit, NEW begin, Result(r, tok, pos, lit, begin)
      PROVE  Recalls
    BY <1>1 DEF Result, NoFrame, Recalls
<1>2. ASSUME NEW f, fr' = f, f.from = fr.from, f.fromBang = fr.fromBang, f.pc # "idle",
             inBang' = inBang \/ Commenting
      PROVE  Recalls
    BY <1>2 DEF Recalls
<1>3. /\ \A l : Goto(l).from = fr.from /\ Goto(l).fromBang = fr.fromBang /\ Goto(l).pc = l
      /\ \A l : Save(l).from = fr.from /\ Save(l).fromBang = fr.fromBang /\ Save(l).pc = l
      /\ \A p, ret : /\ Inc(fr, p, ret).from = fr.from /\ Inc(fr, p, ret).fromBang = fr.fromBang
                     /\ Inc(fr, p, ret).pc = "inc"
      /\ \A l, p, ret : /\ Inc(Save(l), p, ret).from = fr.from /\ Inc(Save(l), p, ret).fromBang = fr.fromBang
                        /\ Inc(Save(l), p, ret).pc = "inc"
    BY <1>0 DEF Goto, Save, Inc, Frame
<1>4. CASE scan
    BY <1>0, <1>4 DEF scan, Step, Inc, Fresh, NoFrame, Recalls
<1>5. CASE scanned
    BY <1>1, <1>2, <1>3, <1>5 DEF scanned, Step, Return
<1>6. CASE trie
    <2>1. CASE Step(rd, Goto(Stub(Handler(fr.ch)))) /\ Handler(fr.ch) # "none"
        <3>1. Stub(Handler(fr.ch)) # "idle"
            BY <2>1, HandlersFor DEF Stub
        <3> QED
            BY <1>2, <1>3, <2>1, <3>1 DEF Step
    <2>2. CASE Step(Advance(rd), [fr EXCEPT !.node = Append(fr.node, fr.ch), !.ch = Peek(rd)])
        <3>1. At("trie")
            BY <1>6 DEF trie
        <3> QED
            BY <1>0, <2>2, <3>1 DEF Step, Recalls, Frame, At
    <2> QED
        BY <1>1, <1>6, <2>1, <2>2 DEF trie, Return
<1>7. CASE incAsLongAs
    <2>1. fr.pc = "inc" /\ fr.ret # "idle"
        BY <1>7 DEF incAsLongAs, IncNext, IncErrored, IncStop, At, ScanInv, GoodFrame
    <2>2. CASE fr' = fr /\ inBang' = inBang
        BY <2>1, <2>2 DEF Recalls
    <2>3. CASE inBang' = inBang /\ \E c : fr' = [fr EXCEPT !.pc = fr.ret, !.ch = c]
        BY <1>0, <2>1, <2>3 DEF Recalls, Frame
    <2> QED
        BY <1>7, <2>2, <2>3 DEF incAsLongAs, IncNext, IncErrored, IncStop, Step
<1>8. CASE Commenting
    <2> USE <1>0 DEF Step, Rescan, Return, ReturnNothing, Result, Goto, Save, Inc, Frame, At,
                     NoFrame, Recalls
    <2>1. CASE startWithSlash
        <3>1. CASE At("slash")
            BY <1>8, <2>1, <3>1 DEF startWithSlash
        <3>2. CASE At("slash2")
            BY <1>8, <2>1, <3>2 DEF startWithSlash
        <3>3. CASE At("slash3")
            BY <1>8, <2>1, <3>3 DEF startWithSlash
        <3> QED
            BY <2>1, <3>1, <3>2, <3>3 DEF startWithSlash
    <2>2. CASE scanVersionDigits
        BY <1>8, <2>2 DEF scanVersionDigits
    <2>3. CASE comment
        <3>1. CASE At("comment")
            BY <1>8, <2>3, <3>1 DEF comment
        <3>2. CASE At("afterStar") /\ fr.ch = Star
            BY <1>8, <2>3, <3>2 DEF comment
        <3>3. CASE At("afterStar") /\ fr.ch # Star
            BY <1>8, <2>3, <3>3 DEF comment
        <3> QED
            BY <2>3, <3>1, <3>2, <3>3 DEF comment
    <2>4. CASE startWithStar
        <3>1. CASE At("star")
            BY <1>8, <2>4, <3>1 DEF startWithStar
        <3>2. CASE At("star2") /\ inBang /\ Peek(rd) = Slash
            BY <1>8, <2>4, <3>2 DEF startWithStar
        <3>3. CASE At("star2") /\ ~(inBang /\ Peek(rd) = Slash)
            BY <1>8, <2>4, <3>3 DEF startWithStar
        <3> QED
            BY <2>4, <3>1, <3>2, <3>3 DEF startWithStar
    <2>5. CASE startWithSharp
        BY <1>8, <2>5 DEF startWithSharp
    <2> QED
        BY <1>8, <2>1, <2>2, <2>3, <2>4, <2>5 DEF Commenting
<1>9. CASE Beginning
    <2> USE <1>0 DEF Step, StepBuf, Save, Frame, At, Recalls
    <2>1. CASE startWithXx
        BY <2>1 DEF startWithXx
    <2>2. CASE startWithBb
        BY <2>2 DEF startWithBb
    <2>3. CASE openQuotedIdent
        BY <2>3 DEF openQuotedIdent
    <2>4. CASE startWithNumber /\ At("number")
        BY <2>4 DEF startWithNumber
    <2>5. CASE startString /\ At("string")
        BY <2>5 DEF startString
    <2> QED
        BY <1>9, <2>1, <2>2, <2>3, <2>4, <2>5 DEF Beginning
<1>10. CASE (scanIdentifier /\ At("ident")) \/ (startWithNn /\ At("nn"))
    BY <1>2, <1>3, <1>10 DEF scanIdentifier, startWithNn, Step, At
<1>11. CASE prefix
    BY <1>1, <1>2, <1>3, <1>11 DEF prefix, Step, Return
<1>12. CASE Going
    <2>1. CASE startWithStub
        BY <1>1, <2>1 DEF startWithStub, ReturnNothing
    <2>2. CASE prefix
        BY <1>11, <2>2
    <2>3. CASE scanIdentifier /\ ~At("ident")
        BY <1>1, <2>3 DEF scanIdentifier, Return
    <2>4. CASE startWithNn /\ ~At("nn")
        BY <1>1, <2>4 DEF startWithNn, Return
    <2>5. CASE scanQuotedIdent
        <3>1. CASE At("quotedLoop")
            BY <1>0, <2>5, <3>1 DEF scanQuotedIdent, Step, Goto, Frame, At, Recalls
        <3>2. CASE At("quotedNext")
            BY <1>1, <1>2, <1>3, <2>5, <3>2 DEF scanQuotedIdent, Return, StepBuf, At
        <3> QED
            BY <2>5, <3>1, <3>2 DEF scanQuotedIdent
    <2>6. CASE startString /\ ~At("string")
        BY <1>0, <2>6 DEF startString, Step, Goto, Frame, At, Recalls
    <2>7. CASE scanString
        <3>1. CASE StepBuf(Advance(rd), [Goto("afterBackslash") EXCEPT !.useBuf = TRUE],
                           setUseBuf(Rest(Data(rd, fr.pos))))
            BY <1>0, <3>1 DEF StepBuf, Goto, Frame, Recalls
        <3> QED
            BY <1>1, <1>2, <1>3, <2>7, <3>1 DEF scanString, Step, Return
    <2>8. CASE afterQuote
        <3>1. CASE fr' = [Goto("write") EXCEPT !.useBuf = TRUE] /\ inBang' = inBang
            BY <1>0, <3>1 DEF Goto, Frame, Recalls
        <3> QED
            BY <1>1, <2>8, <3>1 DEF afterQuote, StepBuf, Return
    <2>9. CASE handleEscape
        <3>1. CASE fr' = [Goto("write") EXCEPT !.ch = Escaped(Peek(rd))] /\ inBang' = inBang
            BY <1>0, <3>1 DEF Goto, Frame, Recalls
        <3> QED
            BY <2>9, <3>1 DEF handleEscape, StepBuf
    <2>10. CASE writeString
        BY <1>2, <1>3, <2>10 DEF writeString, StepBuf
    <2> QED
        BY <1>12, <2>1, <2>2, <2>3, <2>4, <2>5, <2>6, <2>7, <2>8, <2>9, <2>10 DEF Going
<1>13. CASE startWithNumber /\ ~At("number")
    <2> DEFINE hex == Inc([fr EXCEPT !.tok = tok_hexLit, !.mark = Advance(rd).pos], "hex", "radixEnd")
               bit == Inc([fr EXCEPT !.tok = tok_bitLit, !.mark = Advance(rd).pos], "bit", "radixEnd")
    <2>1. /\ hex.from = fr.from /\ hex.fromBang = fr.fromBang /\ hex.pc = "inc"
          /\ bit.from = fr.from /\ bit.fromBang = fr.fromBang /\ bit.pc = "inc"
        BY <1>0 DEF Inc, Frame
    <2>2. /\ inBang' = inBang
          /\ \/ fr' = Goto("digits") \/ fr' = Goto("float") \/ fr' = hex \/ fr' = bit
             \/ fr' = Inc(fr, "octal", "digits") \/ fr' = Inc(fr, "identChar", "identEnd")
        <3> HIDE <1>1, <1>2, <1>3
        <3> QED
            BY <1>13, Zenon DEF startWithNumber, Step
    <2> HIDE DEF hex, bit
    <2> QED
        BY <1>2, <1>3, <2>1, <2>2
<1>14. CASE radixEnd \/ numberTail
    BY <1>1, <1>2, <1>3, <1>14 DEF radixEnd, numberTail, Step, Return
<1>15. CASE scanFloat
    BY <1>1, <1>2, <1>3, <1>15 DEF scanFloat, Step, Return
<1>16. CASE exponent
    BY <1>1, <1>2, <1>3, <1>16 DEF exponent, Step, Return
<1>17. CASE scanIdentifierOrString
    BY <1>17 DEF Paced, scanIdentifierOrString, At
<1> QED
    BY <1>4, <1>5, <1>6, <1>7, <1>8, <1>9, <1>10, <1>11, <1>12, <1>13, <1>14, <1>15, <1>16, <1>17
       DEF Scanning, Going, Beginning, Commenting

\* The comment that opens at offset p is not closed before offset n.
Unclosed(s, p, n) ==
    /\ p + 2 <= n
    /\ Looks(s, p, <<Slash, Star>>) /\ ~Looks(s, p, <<Slash, Star, Bang>>)
    /\ \A j \in p + 2 .. n - 1 : ~Looks(s, j, <<Star, Slash>>)

\* What the handlers of '/', '*' and '#' have read.
Handled(r, f) ==
    LET s == r.slice
        p == f.pos.offset
        i == r.index
    IN  /\ f.pc = "version" =>
             /\ Looks(s, p, <<Slash, Star, Bang>>) /\ f.mark.offset = p + 3
             /\ f.i \in 0 .. 5 /\ i = p + 3 + f.i
             /\ \A k \in 1 .. f.i : isDigit(s[p + 3 + k])
        /\ f.pc = "comment" =>
             IF f.star THEN s[i] = Star /\ Unclosed(s, p, i - 1) ELSE Unclosed(s, p, i)
        /\ f.pc = "inc" /\ f.ret = "afterStar" => f.pred = "notStar" /\ Unclosed(s, p, i)
        /\ f.pc = "afterStar" =>
             \/ f.ch = Star /\ s[i] = Star /\ Unclosed(s, p, i - 1)
             \/ f.ch = Star /\ Peek(r) = Star /\ Unclosed(s, p, i)
             \/ f.ch # Star /\ i = Len(s) /\ Unclosed(s, p, i)
        /\ f.pc = "star2" => i = p + 1
        /\ f.pc = "inc" /\ f.ret = "scan" =>
             /\ f.pred = "notNewline" /\ s[p + 1] = 35
             /\ \A j \in p .. i - 1 : ~Looks(s, j, <<Newline>>)

\* The call has taken its token to begin somewhere, for the time being.
InToken(f) == f.pc \notin {"idle", "scan"} /\ Stage(f) # "scanned"

\* What is left to skip, behind what the call has skipped: all that there was
\* from where the reader stood.
Skipped(r, f, bang) ==
    LET s == r.slice
        goal == AfterTrivia(s, f.from, f.fromBang)
    IN  Clean(s) =>
          /\ f.pc = "scan" \/ Stage(f) = "scanned" => goal = AfterTrivia(s, r.index, bang)
          /\ f.pc = "scanned" => ~is_space(Peek(r))
          /\ InToken(f) =>
               /\ f.pos.offset < Len(s) /\ ~is_space(FirstRune(r, f))
               /\ goal = AfterTrivia(s, f.pos.offset, bang)
               /\ Handled(r, f)

Skips == Skipped(rd', fr', inBang') /\ SkipsTrivia'

\* The labels of which Handled says nothing.
LEMMA PlainlyHandled ==
    ASSUME NEW r, NEW f, Stage(f) \notin {"version", "comment", "afterStar", "star2", "scan"},
           f.pc # "inc" => f.pc \notin {"version", "comment", "afterStar", "star2"}
    PROVE  Handled(r, f)
BY DEF Handled, Stage

\* A step that goes on with the token.
LEMMA TokenGoesOn ==
    ASSUME Skipped(rd, fr, inBang), InToken(fr), InToken(fr'), Recalls,
           rd'.slice = rd.slice, fr'.pos.offset = fr.pos.offset, inBang' = inBang,
           Clean(rd.slice) => Handled(rd', fr')
    PROVE  Skips
<1>1. fr'.pc # "idle" /\ fr'.from = fr.from /\ fr'.fromBang = fr.fromBang
    BY DEF InToken, Recalls
<1>2. ~Returned'
    BY <1>1 DEF Returned, At
<1>3. FirstRune(rd', fr') = FirstRune(rd, fr)
    BY DEF FirstRune
<1>4. fr'.pc # "scan" /\ Stage(fr') # "scanned" /\ fr'.pc # "scanned"
    BY DEF InToken, Stage
<1>5. Skipped(rd', fr', inBang')
    BY <1>1, <1>3, <1>4 DEF Skipped
<1> QED
    BY <1>2, <1>5 DEF Skips, SkipsTrivia

\* A step that calls scan() again, or goes on looking for the token.
LEMMA LooksOn ==
    ASSUME fr'.pc = "scan" \/ Stage(fr') = "scanned", fr'.pc # "idle",
           Clean(rd'.slice) =>
              /\ AfterTrivia(rd'.slice, fr'.from, fr'.fromBang) = AfterTrivia(rd'.slice, rd'.index, inBang')
              /\ fr'.pc = "scanned" => ~is_space(Peek(rd'))
    PROVE  Skips
<1>1. ~InToken(fr')
    BY DEF InToken
<1>2. ~Returned'
    BY DEF Returned, At
<1> QED
    BY <1>1, <1>2 DEF Skips, SkipsTrivia, Skipped

\* A step that returns the token.
LEMMA TokenReturns ==
    ASSUME ScanInv, Skipped(rd, fr, inBang), InToken(fr), fr'.pc = "idle", Recalls,
           rd'.slice = rd.slice, inBang' = inBang, out'.begin = fr.pos.offset,
           Clean(rd.slice) => AfterPiece(rd.slice, fr.pos.offset, inBang) = <<fr.pos.offset, inBang>>
    PROVE  Skips
<1> DEFINE s == rd.slice
           p == fr.pos.offset
<1>0. s \in Seq(Byte) /\ Len(s) \in Nat /\ p \in Nat /\ inBang \in BOOLEAN
    BY Found, ReaderFields DEF ReaderInv, ScanInv, Settled
<1>1. out'.from = fr.from /\ out'.fromBang = fr.fromBang
    BY DEF Recalls
<1>2. Skipped(rd', fr', inBang')
    <2>1. ~InToken(fr') /\ Stage(fr') = "idle"
        BY DEF InToken, Stage
    <2> QED
        BY <2>1 DEF Skipped, Stage
<1>3. ASSUME Clean(s)
      PROVE  <<p, inBang>> = AfterTrivia(s, fr.from, fr.fromBang)
    <2>1. p < Len(s) /\ AfterTrivia(s, fr.from, fr.fromBang) = AfterTrivia(s, p, inBang)
        BY <1>3 DEF Skipped
    <2>2. p \in 0 .. Len(s)
        <3> HIDE DEF s, p
        <3> QED
            BY <1>0, <2>1
    <2>3. AfterTrivia(s, p, inBang) = <<p, inBang>>
        BY <1>0, <1>3, <2>2, TriviaEquation
    <2> QED
        BY <2>1, <2>3
<1>4. SkipsTrivia'
    <2>1. text' = s
        BY DEF text
    <2> QED
        BY <1>1, <1>3, <2>1 DEF SkipsTrivia
<1> QED
    BY <1>2, <1>4 DEF Skips

\* Only the characters of trivia lead to something that is skipped.
LEMMA NothingSkipped ==
    ASSUME NEW s \in Seq(Byte), NEW i \in Nat, i < Len(s), NEW b \in BOOLEAN,
           ~is_space(RuneAt(s, i)), Handler(RuneAt(s, i)) \notin {"slash", "star", "sharp"}
    PROVE  AfterPiece(s, i, b) = <<i, b>>
<1>1. Handler(Slash) = "slash" /\ Handler(Star) = "star" /\ Handler(35) = "sharp"
    BY SMT DEF Handler, isDigit, isLetter, Slash, Star, Minus, Dot, Backquote, Quote, DQuote,
               Underscore
<1>2. \A c \in {Slash, Star, 35} : s[i + 1] # c
    <2>1. \A c \in {Slash, Star, 35} : s[i + 1] = c => RuneAt(s, i) = c
        BY AsciiRunes, TriviaCharacters
    <2> QED
        BY <1>1, <2>1
<1>3. i <= Len(s)
    BY LenProperties
<1>4. /\ ~Looks(s, i, <<Slash, Star, Bang>>)
      /\ ~Looks(s, i, <<Slash, Star>>)
      /\ ~Looks(s, i, <<Star, Slash>>)
    <2>1. ~Looks(s, i, <<Slash, Star, Bang>>)
        BY ZenonT(60), <1>2, <1>3, LooksAt
    <2>2. ~Looks(s, i, <<Slash, Star>>)
        BY ZenonT(60), <1>2, <1>3, LooksAt
    <2>3. ~Looks(s, i, <<Star, Slash>>)
        <3>1. s[i + 1] # Star
            BY <1>2
        <3>2. Looks(s, i, <<Star, Slash>>) => s[i + 1] = Star
            BY <1>3, LooksAt
        <3> QED
            BY <3>1, <3>2
    <2> QED
        BY <2>1, <2>2, <2>3
<1> QED
    BY <1>2, <1>4, Pieces

\* A call of scan().
LEMMA CallSkips == ScanInv /\ Call => Skips
<1> SUFFICES ASSUME ScanInv, Call
             PROVE  Skips
    OBVIOUS
<1>1. rd' = rd /\ fr'.pc = "scan" /\ fr'.from = rd.index /\ fr'.fromBang = inBang /\ inBang' = inBang
    BY DEF Call, Step, NoFrame
<1> QED
    BY <1>1, LooksOn

\* scanner.cc:84-88
LEMMA ScanSkips == ScanInv /\ Skipped(rd, fr, inBang) /\ Recalls /\ scan => Skips
<1> SUFFICES ASSUME ScanInv, Skipped(rd, fr, inBang), Recalls, scan
             PROVE  Skips
    OBVIOUS
<1>1. ReaderInv(rd) /\ fr \in Frame
    BY Found
<1>2. /\ rd' = Peeked(rd) /\ inBang' = inBang /\ fr.pc = "scan"
      /\ Stage(fr') = "scanned" /\ fr'.pc # "idle"
      /\ fr'.pc = "scanned" => ~is_space(Peek(rd))
    BY DEF scan, Step, Inc, Fresh, NoFrame, Stage, At
<1>3. rd'.slice = rd.slice /\ rd'.index = rd.index /\ Peek(rd') = Peek(rd)
    BY <1>1, <1>2, PeekedInv, PeekAgain
<1>4. fr'.from = fr.from /\ fr'.fromBang = fr.fromBang
    BY <1>2 DEF Recalls
<1>5. Clean(rd.slice) =>
        AfterTrivia(rd.slice, fr.from, fr.fromBang) = AfterTrivia(rd.slice, rd.index, inBang)
    BY <1>2 DEF Skipped
<1> QED
    BY <1>2, <1>3, <1>4, <1>5, LooksOn

\* scanner.cc:89-100
LEMMA ScannedSkips ==
    ScanInv /\ Paced(rd, fr) /\ Skipped(rd, fr, inBang) /\ Recalls /\ scanned => Skips
<1> SUFFICES ASSUME ScanInv, Paced(rd, fr), Skipped(rd, fr, inBang), Recalls, scanned
             PROVE  Skips
    OBVIOUS
<1> DEFINE s == rd.slice
           i == rd.index
<1>1. /\ ReaderInv(rd) /\ fr \in Frame /\ rd.pos.offset = i /\ i \in Nat /\ s \in Seq(Byte)
      /\ i <= Len(s) /\ Len(s) \in Nat /\ inBang \in BOOLEAN
      /\ fr.pc = "scanned" /\ Stage(fr) = "scanned"
    BY Found, ReaderFields DEF ReaderInv, ScanInv, Settled, scanned, At, Stage
<1>2. Clean(s) => /\ AfterTrivia(s, fr.from, fr.fromBang) = AfterTrivia(s, i, inBang)
                  /\ ~is_space(Peek(rd))
    BY <1>1 DEF Skipped
<1>3. CASE Eof(rd) /\ Return(rd, 0, rd.pos, << >>)
    <2>1. /\ rd' = rd /\ fr' = NoFrame /\ inBang' = inBang /\ out'.begin = i
          /\ out'.from = fr.from /\ out'.fromBang = fr.fromBang
        BY <1>1, <1>3 DEF Return, Result
    <2>2. AfterTrivia(s, i, inBang) = <<i, inBang>>
        <3>1. i = Len(s)
            BY <1>1, <1>3, SMT DEF Eof
        <3>2. AfterPiece(s, i, inBang) = <<i, inBang>>
            BY <3>1 DEF AfterPiece
        <3>3. i \in 0 .. Len(s)
            <4> HIDE DEF s, i
            <4> QED
                BY <1>1
        <3> QED
            BY <1>1, <3>2, <3>3, TriviaEquation
    <2>3. SkipsTrivia'
        BY <1>2, <2>1, <2>2 DEF SkipsTrivia, text
    <2>4. Skipped(rd', fr', inBang')
        BY <2>1 DEF Skipped, NoFrame, Stage, InToken
    <2> QED
        BY <2>3, <2>4 DEF Skips
<1>4. CASE ~Eof(rd) /\ \E l \in {"ident", "trie"} : Step(rd, Save(l))
    <2>1. /\ rd' = rd /\ fr'.pc \in {"ident", "trie"} /\ fr'.pos = rd.pos /\ inBang' = inBang
        BY <1>1, <1>4 DEF Step, Save, Frame
    <2>2. InToken(fr') /\ fr'.pc \notin {"scan", "scanned", "idle"} /\ Stage(fr') = fr'.pc
        BY <2>1 DEF InToken, Stage
    <2>3. fr'.from = fr.from /\ fr'.fromBang = fr.fromBang
        BY <2>2 DEF Recalls
    <2>4. i < Len(s) /\ FirstRune(rd', fr') = Peek(rd) /\ fr'.pos.offset = i
        BY <1>1, <1>4, <2>1, ReadsByte DEF FirstRune
    <2>5. Handled(rd', fr')
        BY <2>1, <2>2, PlainlyHandled
    <2>6. Skipped(rd', fr', inBang')
        BY <1>2, <2>1, <2>2, <2>3, <2>4, <2>5 DEF Skipped
    <2>7. ~Returned'
        BY <2>2 DEF Returned, At
    <2> QED
        BY <2>6, <2>7 DEF Skips, SkipsTrivia
<1> QED
    BY <1>3, <1>4 DEF scanned

\* Only the handlers of '/', '*' and '#' open or close a bang comment.
LEMMA NotCommenting ==
    fr.pc \notin Slashing \cup {"star", "star2", "sharp"} => ~Commenting
BY DEF Commenting, startWithSlash, scanVersionDigits, comment, startWithStar, startWithSharp,
       At, Slashing

\* A handler returns that has no part in trivia.
LEMMA OthersReturn ==
    ASSUME Known, Skipped(rd, fr, inBang), Recalls, Scanning, fr'.pc = "idle",
           fr.pc \in {"trie"} \cup Steady \cup Numeric
    PROVE  Skips
<1> DEFINE s == rd.slice
           p == fr.pos.offset
<1>0. ScanInv /\ Ahead(rd, fr) /\ Paced(rd, fr) /\ Led(rd, fr)
    BY DEF Known
<1>1. fr.pc \notin {"idle", "scan", "scanned", "inc"} /\ fr.pc \notin Slashing \cup {"star", "star2", "sharp"}
    BY SMT DEF Steady, Numeric, Slashing
<1>2. InToken(fr) /\ inBang' = inBang
    BY <1>1, NotCommenting DEF InToken, Stage, Recalls
<1>3. rd'.slice = s /\ out'.begin = p
    BY <1>0, <1>1, CallReturns DEF Returning
<1>4. s \in Seq(Byte) /\ p \in Nat /\ inBang \in BOOLEAN
    BY <1>0, Found, ReaderFields DEF ReaderInv, ScanInv, Settled
<1>5. ASSUME Clean(s)
      PROVE  AfterPiece(s, p, inBang) = <<p, inBang>>
    <2>1. p < Len(s) /\ ~is_space(RuneAt(s, p))
        BY <1>2, <1>5 DEF Skipped, FirstRune
    <2>2. LedBy(fr.pc, Handler(RuneAt(s, p))) /\ (fr.pc = "trie" => Handler(RuneAt(s, p)) = "none")
        BY <1>0, <1>3, <2>1, ReturnedLed DEF text, FirstRune
    <2>3. Handler(RuneAt(s, p)) \notin {"slash", "star", "sharp"}
        <3>1. CASE fr.pc = "trie"
            BY <2>2, <3>1
        <3>2. CASE fr.pc \in Numeric
            BY <2>2, <3>2, LedFacts
        <3>3. CASE fr.pc \in Steady
            BY <2>2, <3>3, LedFacts DEF Steady, Quoting, Stringing
        <3> QED
            BY <3>1, <3>2, <3>3
    <2> QED
        BY <1>4, <2>1, <2>3, NothingSkipped
<1> QED
    BY <1>0, <1>2, <1>3, <1>5, TokenReturns

\* One goes on with its token.
LEMMA OthersGoOn ==
    ASSUME Known, Skipped(rd, fr, inBang), Recalls, InToken(fr),
           fr.pc \notin Slashing \cup {"star", "star2", "sharp"},
           rd'.slice = rd.slice, fr'.pos.offset = fr.pos.offset,
           Stage(fr') \notin {"idle", "scan", "scanned", "version", "comment", "afterStar", "star2", "inc"}
    PROVE  Skips
<1>1. InToken(fr') /\ Handled(rd', fr')
    BY PlainlyHandled DEF InToken, Stage
<1>2. inBang' = inBang
    BY NotCommenting DEF Recalls
<1> QED
    BY <1>1, <1>2, TokenGoesOn

\* scanner.cc:100-114
LEMMA TrieSkips == Known /\ Skipped(rd, fr, inBang) /\ Recalls /\ Scanning /\ trie => Skips
<1> SUFFICES ASSUME Known, Skipped(rd, fr, inBang), Recalls, Scanning, trie
             PROVE  Skips
    OBVIOUS
<1>1. ScanInv /\ fr \in Frame /\ fr.pc = "trie"
    BY Found DEF Known, trie, At
<1>2. InToken(fr) /\ fr.pc \notin Slashing \cup {"star", "star2", "sharp"}
    BY <1>1 DEF InToken, Stage, Slashing
<1>3. CASE Return(rd, NodeToken(fr.node), fr.pos, Data(rd, fr.pos))
    BY <1>1, <1>3, OthersReturn DEF Return, Result, NoFrame
<1>4. CASE Handler(fr.ch) # "none" /\ Step(rd, Goto(Stub(Handler(fr.ch))))
    <2>1. rd' = rd /\ fr'.pos = fr.pos /\ fr'.pc = Stub(Handler(fr.ch))
        BY <1>1, <1>4 DEF Step, Goto, Frame
    <2>2. Stub(Handler(fr.ch)) \in {"stub", "slash", "star", "sharp", "xx", "nn", "bb", "quoted",
                                    "number", "string", "ident"}
        BY <1>4, HandlersFor DEF Stub
    <2>3. Stage(fr') = fr'.pc
        BY <2>1, <2>2 DEF Stage
    <2> QED
        BY <1>2, <2>1, <2>2, <2>3, OthersGoOn
<1>5. CASE Step(Advance(rd), [fr EXCEPT !.node = Append(fr.node, fr.ch), !.ch = Peek(rd)])
    <2>1. rd' = Advance(rd) /\ fr'.pos = fr.pos /\ fr'.pc = "trie" /\ Stage(fr') = "trie"
        BY <1>1, <1>5 DEF Step, Frame, Stage
    <2>2. rd'.slice = rd.slice
        BY <1>1, <2>1, OnwardFacts DEF Onward
    <2> QED
        BY <1>2, <2>1, <2>2, OthersGoOn
<1> QED
    BY <1>3, <1>4, <1>5 DEF trie

\* The handlers of literals and identifiers.
LEMMA OthersSkip ==
    ASSUME Known, Skipped(rd, fr, inBang), Recalls, Scanning,
           Going \/ Counting \/ scanFloat \/ exponent \/ (prefix /\ At("prefix")) \/ Beginning
           \/ (scanIdentifier /\ At("ident")) \/ (startWithNn /\ At("nn"))
    PROVE  Skips
<1>0. /\ ScanInv /\ Ahead(rd, fr) /\ Paced(rd, fr) /\ Led(rd, fr) /\ fr \in Frame
      /\ rd.pos.offset = rd.index /\ ReaderInv(rd) /\ ReaderInv(Peeked(rd)) /\ fr.pos.offset \in Nat
    BY Found DEF Known
<1>1. CASE Going
    <2>1. Keeps(Kin(fr.pc)) /\ fr.pc \in Steady /\ Kin(fr.pc) \subseteq Steady
        BY <1>0, <1>1, GoingKeeps, KinFacts
    <2>2. Steady \cap (Slashing \cup {"star", "star2", "sharp", "idle", "scan", "scanned", "inc"}) = {}
        BY SMT DEF Steady, Slashing
    <2>3. CASE fr' = NoFrame
        BY <1>0, <2>1, <2>3, OthersReturn DEF NoFrame
    <2>4. CASE On(Kin(fr.pc), fr')
        <3>1. fr'.pos = fr.pos /\ Stage(fr') \in Steady /\ InToken(fr)
            BY <2>1, <2>2, <2>4 DEF On, Stage, InToken
        <3>2. rd'.slice = rd.slice
            BY <1>0, <2>1, OnwardFacts DEF Keeps
        <3>3. Stage(fr') \notin {"idle", "scan", "scanned", "version", "comment", "afterStar", "star2", "inc"}
            BY <2>2, <3>1 DEF Slashing
        <3> QED
            BY <2>1, <2>2, <3>1, <3>2, <3>3, OthersGoOn
    <2> QED
        BY <2>1, <2>3, <2>4 DEF Keeps
<1>2. CASE Counting \/ scanFloat \/ exponent
    <2>1. rd'.slice = rd.slice /\ fr.pc \in Numeric /\ (fr' = NoFrame \/ On(Counted, fr'))
        BY <1>0, <1>2, NumbersStep
    <2>2. Counted \cap (Slashing \cup {"star", "star2", "sharp", "idle", "scan", "scanned", "inc"}) = {}
        BY SMT DEF Counted, Numeric, Slashing
    <2>3. CASE fr' = NoFrame
        BY <1>0, <2>1, <2>3, OthersReturn DEF NoFrame
    <2>4. CASE On(Counted, fr')
        <3>1. fr'.pos = fr.pos /\ Stage(fr') \in Counted /\ InToken(fr) /\ fr.pc \in Counted
            BY <2>1, <2>2, <2>4 DEF On, Stage, InToken, Counted
        <3>2. Stage(fr') \notin {"idle", "scan", "scanned", "version", "comment", "afterStar", "star2", "inc"}
            BY <2>2, <3>1 DEF Slashing
        <3> QED
            BY <2>1, <2>2, <3>1, <3>2, OthersGoOn
    <2> QED
        BY <2>1, <2>3, <2>4
<1>3. CASE prefix /\ At("prefix")
    <2>1. fr.pc = "prefix" /\ InToken(fr) /\ fr.pc \notin Slashing \cup {"star", "star2", "sharp"}
        BY <1>3 DEF At, InToken, Stage, Slashing
    <2>2. \/ rd' = Advance(Peeked(rd)) /\ fr' = Inc(fr, fr.pred, "prefixEnd")
          \/ rd' = UpdatePos(Peeked(rd), fr.pos) /\ fr' = Goto("ident")
        BY <1>3 DEF prefix, Step, At
    <2>3. fr'.pos = fr.pos /\ Stage(fr') \in {"prefixEnd", "ident"}
        BY <1>0, <2>2 DEF Inc, Goto, Frame, Stage
    <2>4. rd'.slice = rd.slice
        <3>1. Saved(Peeked(rd), fr.pos) /\ Peeked(rd).slice = rd.slice
            BY <1>0, PeekedInv DEF ScanInv, GoodFrame, Saved
        <3> QED
            BY <1>0, <2>2, <3>1, OnwardFacts, UpdatePosLands DEF Onward
    <2> QED
        BY <2>1, <2>3, <2>4, OthersGoOn
<1>4. CASE Beginning
    <2>1. /\ rd' = Advance(rd) /\ fr'.pos = rd.pos /\ Stage(fr') = fr'.pc /\ Stage(fr) = fr.pc
          /\ fr.pc \in {"xx", "bb", "quoted", "number", "string"}
          /\ fr'.pc \in {"prefix", "quotedLoop", "number2", "stringPeek"}
        BY <1>0, <1>4, BeginningStep
    <2>2. rd.index = fr.pos.offset
        BY <1>0, <2>1 DEF Led, Entries
    <2>3. rd'.slice = rd.slice
        BY <1>0, <2>1, OnwardFacts DEF Onward
    <2>4. InToken(fr) /\ fr.pc \notin Slashing \cup {"star", "star2", "sharp"}
        BY <2>1 DEF InToken, Slashing
    <2> QED
        BY <1>0, <2>1, <2>2, <2>3, <2>4, OthersGoOn
<1>5. CASE (scanIdentifier /\ At("ident")) \/ (startWithNn /\ At("nn"))
    <2>1. /\ rd' = rd /\ fr'.pos = rd.pos /\ Stage(fr) = fr.pc
          /\ fr.pc \in {"ident", "nn"} /\ Stage(fr') \in {"identEnd", "nnEnd"}
        BY <1>0, <1>5, WordsStep
    <2>2. rd.index = fr.pos.offset
        BY <1>0, <2>1 DEF Led, Entries
    <2>3. InToken(fr) /\ fr.pc \notin Slashing \cup {"star", "star2", "sharp"}
        BY <2>1 DEF InToken, Slashing
    <2> QED
        BY <1>0, <2>1, <2>2, <2>3, OthersGoOn
<1> QED
    BY <1>1, <1>2, <1>3, <1>4, <1>5

\* A rune takes no byte that is another character.
LEMMA RuneWithout ==
    ASSUME NEW s \in Seq(Byte), Clean(s), NEW i \in Nat, i < Len(s), NEW c \in 1 .. 127,
           RuneAt(s, i) # c
    PROVE  \A j \in i .. i + DecodeWidth(s, i) - 1 : s[j + 1] # c
<1> DEFINE w == DecodeWidth(s, i)
<1> SUFFICES ASSUME NEW j \in i .. i + w - 1
             PROVE  s[j + 1] # c
    OBVIOUS
<1>1. w \in 1 .. 4 /\ i + w <= Len(s) /\ Len(s) \in Nat
    BY CleanRune, LenProperties
<1>2. CASE w > 1
    <2> DEFINE k == j + 1 - i
    <2>1. k \in 1 .. w /\ i + k = j + 1 /\ j + 1 \in DOMAIN s
        <3> HIDE DEF w
        <3> QED
            BY <1>1, SMT
    <2> HIDE DEF k
    <2>2. s[j + 1] >= 128
        BY ZenonT(60), <1>2, <2>1, CleanRune
    <2>3. s[j + 1] \in Byte
        BY <2>1, ElementOfSeq
    <2> DEFINE x == s[j + 1]
    <2>4. x \in Nat /\ x >= 128
        <3>1. \A y \in Byte : y \in Nat
            BY DEF Byte
        <3> QED
            BY <2>2, <2>3, <3>1
    <2> HIDE DEF x
    <2>5. x # c
        BY <2>4
    <2> QED
        BY <2>5 DEF x
<1>3. CASE ~(w > 1)
    <2>1. w = 1 /\ j = i
        <3> HIDE DEF w
        <3> QED
            BY <1>1, <1>3, SMT
    <2>2. RuneAt(s, i) = s[i + 1]
        BY <2>1, CleanRune
    <2> QED
        BY <2>1, <2>2
<1> QED
    BY <1>2, <1>3

\* Only the end of a clean text stops incAsLongAs.
LEMMA ErroredIsEof ==
    ASSUME NEW r, ReaderInv(r), Clean(r.slice), is_errored(Peek(r))
    PROVE  r.index = Len(r.slice)
<1>1. r.slice \in Seq(Byte) /\ r.index \in Nat /\ r.index <= Len(r.slice) /\ Len(r.slice) \in Nat
    BY ReaderFields, LenProperties DEF ReaderInv
<1>2. ASSUME r.index < Len(r.slice)
      PROVE  FALSE
    <2>1. Peek(r) = RuneAt(r.slice, r.index)
        <3>1. ~Eof(r)
            BY <1>1, <1>2, SMT DEF Eof
        <3> QED
            BY <3>1, ReadsByte
    <2> QED
        BY <1>1, <1>2, <2>1, CleanRune DEF is_errored
<1> QED
    BY <1>1, <1>2, SMT

\* White space is read on.
LEMMA IncSpaces ==
    ASSUME ScanInv, Ahead(rd, fr), Paced(rd, fr), Skipped(rd, fr, inBang), Recalls, incAsLongAs,
           fr.ret = "scanned"
    PROVE  Skips
<1> DEFINE s == rd.slice
           i == rd.index
<1>0. /\ ReaderInv(rd) /\ ReaderInv(Peeked(rd)) /\ rd.index \in Nat
      /\ s \in Seq(Byte) /\ Len(s) \in Nat /\ i <= Len(s) /\ inBang \in BOOLEAN
    BY Found, ReaderFields, LenProperties DEF ReaderInv, ScanInv, Settled
<1>1. /\ fr.pc = "inc" /\ Stage(fr) = "scanned" /\ rd'.slice = s /\ Stage(fr') = "scanned"
      /\ \/ /\ fr'.pc = "inc" /\ rd' = Advance(Peeked(rd))
            /\ Holds(fr.pred, Peek(rd)) /\ ~is_errored(Peek(rd))
         \/ /\ fr'.pc = "scanned" /\ rd' = Peeked(rd)
            /\ ~Holds(fr.pred, Peek(rd)) \/ is_errored(Peek(rd))
    BY IncStep
<1>2. fr.pred = "space"
    BY <1>1 DEF Paced, Inside, Steady, Numeric
<1>3. Holds("space", Peek(rd)) <=> is_space(Peek(rd))
    BY SMT DEF Holds
<1>4. inBang' = inBang /\ fr'.pc # "idle" /\ fr'.from = fr.from /\ fr'.fromBang = fr.fromBang
    BY <1>1, NotCommenting DEF Recalls, Slashing
<1>5. Peek(Peeked(rd)) = Peek(rd) /\ Peeked(rd).index = i /\ Peeked(rd).slice = s
    BY <1>0, PeekAgain, PeekedInv
<1>6. ASSUME Clean(s)
      PROVE  /\ AfterTrivia(s, fr.from, fr.fromBang) = AfterTrivia(s, rd'.index, inBang)
             /\ fr'.pc = "scanned" => ~is_space(Peek(rd'))
    <2>1. AfterTrivia(s, fr.from, fr.fromBang) = AfterTrivia(s, i, inBang)
        BY <1>1, <1>6 DEF Skipped
    <2>2. CASE fr'.pc = "inc" /\ rd' = Advance(Peeked(rd)) /\ is_space(Peek(rd)) /\ ~is_errored(Peek(rd))
        <3>1. ~Eof(rd) /\ ~Eof(Peeked(rd))
            BY <1>0, <2>2, ReadableIsThere, PeekAgain
        <3>2. i < Len(s) /\ Peek(rd) = RuneAt(s, i)
            BY <1>0, <3>1, ReadsByte
        <3>3. rd'.index = i + DecodeWidth(s, i)
            BY <1>0, <1>5, <2>2, <3>1, AdvanceBy
        <3>4. AfterPiece(s, i, inBang) = <<i + DecodeWidth(s, i), inBang>>
            BY <1>0, <2>2, <3>2, Pieces
        <3>5. i \in 0 .. Len(s)
            <4> HIDE DEF s, i
            <4> QED
                BY <1>0 DEF i
        <3> QED
            BY <1>0, <2>1, <2>2, <3>3, <3>4, <3>5, TriviaEquation
    <2>3. CASE fr'.pc = "scanned" /\ rd' = Peeked(rd) /\ (~is_space(Peek(rd)) \/ is_errored(Peek(rd)))
        <3>1. ~is_space(rune_eof) /\ ~is_space(rune_invalid)
            BY SMT DEF is_space, rune_eof, rune_invalid, CategoryMC, CategoryZS
        <3>2. ~is_space(Peek(rd))
            BY <2>3, <3>1 DEF is_errored
        <3> QED
            BY <1>5, <2>1, <2>3, <3>2
    <2> QED
        BY <1>1, <1>2, <1>3, <2>2, <2>3
<1> QED
    BY <1>1, <1>4, <1>6, LooksOn

\* Reading a rune that is not some character passes none of that.
LEMMA ReadsWithout ==
    ASSUME NEW r, ReaderInv(r), Clean(r.slice), NEW c \in 1 .. 127, Peek(r) # c
    PROVE  /\ Advance(r).slice = r.slice /\ Advance(r).index \in Nat
           /\ r.index <= Advance(r).index
           /\ \A j \in r.index .. Advance(r).index - 1 : r.slice[j + 1] # c /\ j < Len(r.slice)
<1> DEFINE s == r.slice
           i == r.index
           m == Advance(r).index
<1>1. s \in Seq(Byte) /\ i \in Nat /\ Len(s) \in Nat /\ m \in Nat /\ Advance(r).slice = s
    BY ReaderFields, AdvanceInv DEF ReaderInv
<1>2. CASE Eof(r)
    <2>1. m = i
        BY <1>2 DEF Advance
    <2> HIDE DEF m, i
    <2>2. i <= m /\ i .. m - 1 = {}
        BY <1>1, <2>1
    <2> QED
        BY <1>1, <2>2 DEF m, i
<1>3. CASE ~Eof(r)
    <2>1. i < Len(s) /\ Peek(r) = RuneAt(s, i) /\ m = i + DecodeWidth(s, i)
        BY <1>3, ReadsByte, AdvanceBy
    <2>2. DecodeWidth(s, i) \in 1 .. 4 /\ i + DecodeWidth(s, i) <= Len(s)
        BY <1>1, <2>1, CleanRune
    <2>3. \A j \in i .. i + DecodeWidth(s, i) - 1 : s[j + 1] # c
        BY <1>1, <2>1, RuneWithout
    <2> HIDE DEF i, s, m
    <2>4. i <= m
        BY <1>1, <2>1, <2>2
    <2>5. ASSUME NEW j \in i .. m - 1
          PROVE  s[j + 1] # c /\ j < Len(s)
        <3>1. j \in i .. i + DecodeWidth(s, i) - 1
            BY <1>1, <2>1, <2>2, <2>5
        <3>2. j < Len(s)
            BY <1>1, <2>2, <3>1
        <3> QED
            BY <2>3, <3>1, <3>2
    <2> QED
        BY <1>1, <2>4, <2>5 DEF i, s, m
<1> QED
    BY <1>2, <1>3

\* Without a star, a comment is not closed.
LEMMA UnclosedGrows ==
    ASSUME NEW s \in Seq(Byte), NEW p \in Nat, NEW n \in Nat, Unclosed(s, p, n),
           NEW m \in Nat, n <= m, \A j \in n .. m - 1 : s[j + 1] # Star /\ j < Len(s)
    PROVE  Unclosed(s, p, m)
<1>1. Len(s) \in Nat /\ p + 2 <= n
    BY LenProperties DEF Unclosed
<1>2. ASSUME NEW j \in p + 2 .. m - 1
      PROVE  ~Looks(s, j, <<Star, Slash>>)
    <2>1. CASE j < n
        <3>1. j \in p + 2 .. n - 1
            BY <1>1, <1>2, <2>1
        <3> QED
            BY <3>1 DEF Unclosed
    <2>2. CASE ~(j < n)
        <3>1. j \in n .. m - 1
            BY <1>1, <1>2, <2>2
        <3>2. j \in Nat /\ j < Len(s)
            BY <3>1
        <3>3. j <= Len(s)
            BY <1>1, <3>2
        <3> QED
            BY <3>1, <3>2, <3>3, LooksAt
    <2> QED
        BY <2>1, <2>2
<1>3. p + 2 <= m
    BY <1>1
<1> QED
    BY <1>2, <1>3 DEF Unclosed

\* Inside a comment.
LEMMA IncStars ==
    ASSUME ScanInv, Ahead(rd, fr), Skipped(rd, fr, inBang), Recalls, incAsLongAs,
           fr.ret = "afterStar"
    PROVE  Skips
<1> DEFINE s == rd.slice
           i == rd.index
           p == fr.pos.offset
<1>0. /\ ReaderInv(rd) /\ ReaderInv(Peeked(rd)) /\ i \in Nat /\ p \in Nat
      /\ s \in Seq(Byte) /\ Len(s) \in Nat /\ i <= Len(s) /\ fr \in Frame
    BY Found, ReaderFields, LenProperties DEF ReaderInv
<1>1. /\ fr.pc = "inc" /\ Stage(fr) = "afterStar" /\ rd'.slice = s /\ Stage(fr') = "afterStar"
      /\ fr'.pos = fr.pos /\ fr'.pred = fr.pred
      /\ \/ /\ fr'.pc = "inc" /\ rd' = Advance(Peeked(rd))
            /\ Holds(fr.pred, Peek(rd)) /\ ~is_errored(Peek(rd))
         \/ /\ fr'.pc = "afterStar" /\ rd' = Peeked(rd)
            /\ ~Holds(fr.pred, Peek(rd)) \/ is_errored(Peek(rd))
    BY IncStep
<1>2. InToken(fr) /\ InToken(fr') /\ inBang' = inBang
    BY <1>1, NotCommenting DEF InToken, Recalls, Slashing, Stage
<1>3. Holds("notStar", Peek(rd)) <=> Peek(rd) # Star
    BY SMT DEF Holds
<1>4. Peek(Peeked(rd)) = Peek(rd) /\ Peeked(rd).index = i /\ Peeked(rd).slice = s
    BY <1>0, PeekAgain, PeekedInv
<1>5. ASSUME Clean(s)
      PROVE  Handled(rd', fr')
    <2>1. fr.pred = "notStar" /\ Unclosed(s, p, i)
        BY <1>1, <1>2, <1>5 DEF Skipped, Handled
    <2>2. CASE fr'.pc = "inc" /\ rd' = Advance(Peeked(rd)) /\ Peek(rd) # Star /\ ~is_errored(Peek(rd))
        <3>1. Star \in 1 .. 127
            BY TriviaCharacters
        <3>2. /\ rd'.index \in Nat /\ i <= rd'.index
              /\ \A j \in i .. rd'.index - 1 : s[j + 1] # Star /\ j < Len(s)
            BY ZenonT(60), <1>0, <1>4, <1>5, <2>2, <3>1, ReadsWithout
        <3>3. Unclosed(s, p, rd'.index)
            BY <1>0, <2>1, <3>2, UnclosedGrows
        <3> QED
            BY <1>1, <2>1, <2>2, <3>3 DEF Handled, Stage
    <2>3. CASE fr'.pc = "afterStar" /\ rd' = Peeked(rd) /\ (Peek(rd) = Star \/ is_errored(Peek(rd)))
        <3>1. Star # 0 /\ Star # rune_eof /\ Star # rune_invalid
            BY SMT DEF Star, rune_eof, rune_invalid
        <3>2. fr' # fr
            BY <1>1, <2>3
        <3>3. \/ Peek(rd) = Star /\ fr'.ch = Star
              \/ is_errored(Peek(rd)) /\ fr'.ch # Star
            <4>1. CASE IncErrored
                <5>1. fr'.ch = 0 /\ is_errored(Peek(rd))
                    BY <1>0, <4>1 DEF IncErrored, Step, Frame
                <5> QED
                    BY <3>1, <5>1
            <4>2. CASE IncStop
                <5>1. fr'.ch = Peek(rd) /\ ~Holds("notStar", Peek(rd))
                    BY <1>0, <2>1, <4>2 DEF IncStop, Step, Frame
                <5> QED
                    BY <1>3, <5>1
            <4>3. ~IncNext
                BY <3>2 DEF IncNext, Step
            <4> QED
                BY <4>1, <4>2, <4>3 DEF incAsLongAs
        <3>4. is_errored(Peek(rd)) => i = Len(s)
            BY <1>0, <1>5, ErroredIsEof
        <3> QED
            BY <1>1, <1>4, <2>1, <2>3, <3>3, <3>4 DEF Handled
    <2> QED
        BY <1>1, <1>3, <2>1, <2>2, <2>3
<1> QED
    BY <1>1, <1>2, <1>5, TokenGoesOn

\* Up to the end of the line.
LEMMA IncLine ==
    ASSUME ScanInv, Ahead(rd, fr), Skipped(rd, fr, inBang), Recalls, incAsLongAs,
           fr.ret = "scan"
    PROVE  Skips
<1> DEFINE s == rd.slice
           i == rd.index
           p == fr.pos.offset
           L(j) == Looks(s, j, <<Newline>>)
<1>0. /\ ReaderInv(rd) /\ ReaderInv(Peeked(rd)) /\ i \in Nat /\ p \in Nat /\ p <= i
      /\ s \in Seq(Byte) /\ Len(s) \in Nat /\ i <= Len(s) /\ fr \in Frame /\ inBang \in BOOLEAN
    BY Found, ReaderFields, LenProperties DEF ReaderInv, ScanInv, Settled
<1>1. /\ fr.pc = "inc" /\ Stage(fr) = "scan" /\ rd'.slice = s /\ Stage(fr') = "scan"
      /\ fr'.pos = fr.pos /\ fr'.pred = fr.pred
      /\ \/ /\ fr'.pc = "inc" /\ rd' = Advance(Peeked(rd))
            /\ Holds(fr.pred, Peek(rd)) /\ ~is_errored(Peek(rd))
         \/ /\ fr'.pc = "scan" /\ rd' = Peeked(rd)
            /\ ~Holds(fr.pred, Peek(rd)) \/ is_errored(Peek(rd))
    BY IncStep
<1>2. InToken(fr) /\ inBang' = inBang /\ fr'.from = fr.from /\ fr'.fromBang = fr.fromBang /\ fr'.pc # "idle"
    BY <1>1, NotCommenting DEF InToken, Recalls, Slashing
<1>3. Holds("notNewline", Peek(rd)) <=> Peek(rd) # Newline
    BY SMT DEF Holds
<1>4. Peek(Peeked(rd)) = Peek(rd) /\ Peeked(rd).index = i /\ Peeked(rd).slice = s
    BY <1>0, PeekAgain, PeekedInv
<1>5. Clean(s) => /\ fr.pred = "notNewline" /\ s[p + 1] = 35 /\ (\A j \in p .. i - 1 : ~L(j))
                  /\ AfterTrivia(s, fr.from, fr.fromBang) = AfterTrivia(s, p, inBang)
                  /\ p < Len(s)
    BY <1>1, <1>2 DEF Skipped, Handled
<1>6. Newline \in 1 .. 127
    BY SMT DEF Newline
<1>7. CASE fr'.pc = "inc" /\ rd' = Advance(Peeked(rd)) /\ Holds(fr.pred, Peek(rd)) /\ ~is_errored(Peek(rd))
    <2>1. ASSUME Clean(s)
          PROVE  Handled(rd', fr')
        <3>1. /\ rd'.index \in Nat /\ i <= rd'.index
              /\ \A j \in i .. rd'.index - 1 : s[j + 1] # Newline /\ j < Len(s)
            <4>1. Peek(Peeked(rd)) # Newline
                BY <1>3, <1>4, <1>5, <1>7, <2>1
            <4> QED
                BY ZenonT(60), <1>0, <1>4, <1>6, <1>7, <2>1, <4>1, ReadsWithout
        <3> DEFINE n == rd'.index
        <3>2. \A j \in i .. n - 1 : ~L(j)
            <4> SUFFICES ASSUME NEW j \in i .. n - 1
                         PROVE  ~L(j)
                OBVIOUS
            <4>1. j \in Nat /\ j <= Len(s)
                <5>1. j \in Nat /\ j < Len(s)
                    BY <1>0, <3>1
                <5> QED
                    BY <1>0, <5>1
            <4> QED
                BY <1>0, <3>1, <4>1, LooksAt
        <3>3. \A j \in p .. n - 1 : ~L(j)
            <4>1. \A j \in p .. i - 1 : ~L(j)
                BY <1>5, <2>1
            <4>2. n \in Nat /\ i <= n
                BY <3>1
            <4> HIDE DEF n, L, i, p
            <4>3. i \in Nat /\ p \in Nat
                BY <1>0 DEF i, p
            <4> QED
                BY <3>2, <4>1, <4>2, <4>3
        <3> QED
            BY <1>1, <1>5, <1>7, <2>1, <3>3 DEF Handled, Stage
    <2>2. InToken(fr')
        BY <1>1, <1>7 DEF InToken
    <2> QED
        BY <1>1, <1>2, <2>1, <2>2, TokenGoesOn
<1>8. CASE fr'.pc = "scan" /\ rd' = Peeked(rd) /\ (~Holds(fr.pred, Peek(rd)) \/ is_errored(Peek(rd)))
    <2>1. ASSUME Clean(s)
          PROVE  AfterTrivia(s, fr.from, fr.fromBang) = AfterTrivia(s, i, inBang)
        <3>1. L(i) \/ i = Len(s)
            <4>1. CASE is_errored(Peek(rd))
                BY <1>0, <2>1, <4>1, ErroredIsEof
            <4>2. CASE ~is_errored(Peek(rd))
                <5>1. Peek(rd) = Newline /\ ~Eof(rd)
                    BY <1>3, <1>5, <1>8, <2>1, <4>2, ReadableIsThere
                <5>2. i < Len(s) /\ s[i + 1] = Newline
                    BY <1>0, <1>6, <5>1, ReadsByte
                <5>3. Looks(s, i, <<Newline>>) <=> i < Len(s) /\ s[i + 1] = Newline
                    BY <1>0, LooksAt, Zenon
                <5> QED
                    BY <5>2, <5>3
            <4> QED
                BY <4>1, <4>2
        <3>2. FirstFrom(s, p, <<Newline>>) = i
            <4>1. \A k \in p .. Len(s) : k < i => ~L(k)
                <5>1. \A j \in p .. i - 1 : ~L(j)
                    BY <1>5, <2>1
                <5> DEFINE n == Len(s)
                <5> HIDE DEF L, i, p, n
                <5>2. i \in Nat /\ p \in Nat /\ n \in Nat
                    BY <1>0 DEF i, p, n
                <5>3. \A k \in p .. n : k < i => ~L(k)
                    BY <5>1, <5>2
                <5> QED
                    BY <5>3 DEF n
            <4>2. i \in p .. Len(s)
                <5> HIDE DEF s, p, i
                <5> QED
                    BY <1>0
            <4> QED
                BY <1>0, <3>1, <4>1, <4>2, FirstPlaceIs
        <3>3. AfterPiece(s, p, inBang) = <<i, inBang>>
            <4>1. AfterPiece(s, p, inBang) = <<FirstFrom(s, p, <<Newline>>), inBang>>
                BY <1>0, <1>5, <2>1, Pieces
            <4> QED
                BY <3>2, <4>1
        <3>4. p \in 0 .. Len(s)
            <4> HIDE DEF s, p, i
            <4> QED
                BY <1>0, <1>5, <2>1
        <3>5. AfterTrivia(s, p, inBang) = AfterTrivia(s, i, inBang)
            BY <1>0, <3>3, <3>4, TriviaEquation
        <3> QED
            BY <1>5, <2>1, <3>5
    <2> QED
        BY <1>1, <1>2, <1>4, <1>8, <2>1, LooksOn
<1> QED
    BY <1>1, <1>7, <1>8

\* reader.cc:140-151
LEMMA IncSkips ==
    ASSUME Known, Skipped(rd, fr, inBang), Recalls, incAsLongAs
    PROVE  Skips
<1>0. ScanInv /\ Ahead(rd, fr) /\ Paced(rd, fr)
    BY DEF Known
<1>1. /\ fr.pc = "inc" /\ Stage(fr) = fr.ret /\ rd'.slice = rd.slice /\ Stage(fr') = fr.ret
      /\ fr'.pos = fr.pos /\ fr.ret \in Returns /\ fr'.pc \in {"inc", fr.ret}
    BY <1>0, IncStep
<1>2. CASE fr.ret \in Resumes
    <2>1. fr.ret \notin {"version", "comment", "afterStar", "star2", "scan", "scanned", "idle", "inc"}
        BY <1>2 DEF Resumes, Returns
    <2>2. InToken(fr) /\ InToken(fr') /\ inBang' = inBang /\ Handled(rd', fr')
        BY <1>1, <2>1, NotCommenting, PlainlyHandled DEF InToken, Recalls, Slashing
    <2> QED
        BY <1>1, <2>2, TokenGoesOn
<1> QED
    BY <1>0, <1>1, <1>2, IncSpaces, IncStars, IncLine DEF Resumes

LEMMA LooksTwo ==
    ASSUME NEW s \in Seq(Byte), NEW i \in Nat, i <= Len(s), NEW a, NEW b
    PROVE  Looks(s, i, <<a, b>>) <=> i + 1 < Len(s) /\ s[i + 1] = a /\ s[i + 2] = b
BY LooksAt, Zenon

LEMMA LooksThree ==
    ASSUME NEW s \in Seq(Byte), NEW i \in Nat, i <= Len(s), NEW a, NEW b, NEW c
    PROVE  Looks(s, i, <<a, b, c>>) <=>
               i + 2 < Len(s) /\ s[i + 1] = a /\ s[i + 2] = b /\ s[i + 3] = c
BY LooksAt, Zenon

\* A '/' or a '*' that is skipped, and one that is not.
LEMMA SlashPiece ==
    ASSUME NEW s \in Seq(Byte), NEW p \in Nat, p < Len(s), NEW b \in BOOLEAN, s[p + 1] = Slash,
           \/ ~Looks(s, p, <<Slash, Star>>)
           \/ ~Looks(s, p, <<Slash, Star, Bang>>) /\ ~Closed(s, p + 2)
    PROVE  AfterPiece(s, p, b) = <<p, b>>
<1>1. RuneAt(s, p) = Slash /\ ~is_space(Slash) /\ Slash # 35 /\ Slash # Star
    BY AsciiRunes, TriviaCharacters
<1>2. p <= Len(s)
    BY LenProperties
<1>3. Looks(s, p, <<Slash, Star, Bang>>) => Looks(s, p, <<Slash, Star>>)
    <2>1. p + 2 < Len(s) => p + 1 < Len(s)
        BY LenProperties
    <2>2. Looks(s, p, <<Slash, Star, Bang>>) => p + 2 < Len(s) /\ s[p + 2] = Star
        BY <1>2, LooksThree
    <2>3. Looks(s, p, <<Slash, Star>>) <=> p + 1 < Len(s) /\ s[p + 1] = Slash /\ s[p + 2] = Star
        BY <1>2, LooksTwo
    <2> QED
        BY <2>1, <2>2, <2>3
<1>4. ~Looks(s, p, <<Star, Slash>>)
    BY <1>1, <1>2, LooksTwo
<1> QED
    BY <1>1, <1>3, <1>4, Pieces

LEMMA StarPiece ==
    ASSUME NEW s \in Seq(Byte), NEW p \in Nat, p < Len(s), NEW b \in BOOLEAN, s[p + 1] = Star
    PROVE  /\ b /\ p + 1 < Len(s) /\ s[p + 2] = Slash => AfterPiece(s, p, b) = <<p + 2, FALSE>>
           /\ ~(b /\ p + 1 < Len(s) /\ s[p + 2] = Slash) => AfterPiece(s, p, b) = <<p, b>>
<1>1. RuneAt(s, p) = Star /\ ~is_space(Star) /\ Star # 35 /\ Slash # Star
    BY AsciiRunes, TriviaCharacters
<1>2. p <= Len(s)
    BY LenProperties
<1>3. ~Looks(s, p, <<Slash, Star>>)
    BY <1>1, <1>2, LooksTwo
<1>4. ~Looks(s, p, <<Slash, Star, Bang>>)
    BY <1>1, <1>2, LooksThree
<1>5. Looks(s, p, <<Star, Slash>>) <=> p + 1 < Len(s) /\ s[p + 2] = Slash
    BY <1>2, LooksTwo
<1>6. b /\ p + 1 < Len(s) /\ s[p + 2] = Slash => AfterPiece(s, p, b) = <<p + 2, FALSE>>
    BY <1>5, Pieces
<1>7. ~(b /\ p + 1 < Len(s) /\ s[p + 2] = Slash) => AfterPiece(s, p, b) = <<p, b>>
    BY <1>1, <1>3, <1>4, <1>5, Pieces
<1> QED
    BY <1>6, <1>7

\* The characters that the reader sees and those that it does not.
LEMMA SeesSlashing ==
    ASSUME NEW r, ReaderInv(r), NEW c \in {Slash, Star, Bang, 35}
    PROVE  /\ r.slice \in Seq(Byte) /\ Len(r.slice) \in Nat /\ r.index \in Nat
           /\ r.index <= Len(r.slice)
           /\ Peek(r) = c <=> r.index < Len(r.slice) /\ r.slice[r.index + 1] = c
           /\ Peek(r) = c => Advance(r).index = r.index + 1
<1>1. c \in 1 .. 127 /\ c # rune_eof
    BY SMT DEF Slash, Star, Bang, rune_eof
<1>2. /\ r.slice \in Seq(Byte) /\ Len(r.slice) \in Nat /\ r.index \in Nat
      /\ r.index <= Len(r.slice)
    BY ReaderFields DEF ReaderInv
<1>3. Eof(r) <=> ~(r.index < Len(r.slice))
    BY <1>2, SMT DEF Eof
<1>4. CASE Eof(r)
    BY <1>1, <1>2, <1>3, <1>4 DEF Peek
<1>5. CASE ~Eof(r)
    BY <1>1, <1>2, <1>3, <1>5, ReadsByte
<1> QED
    BY <1>4, <1>5

\* What the handlers of '/', '*' and '#' find.
LEMMA CommentersFind ==
    ASSUME ScanInv
    PROVE  LET s == rd.slice
               i == rd.index
               p == fr.pos.offset
           IN  /\ ReaderInv(rd) /\ ReaderInv(Peeked(rd)) /\ fr \in Frame
               /\ s \in Seq(Byte) /\ Len(s) \in Nat /\ i \in Nat /\ p \in Nat /\ p <= i /\ i <= Len(s)
               /\ inBang \in BOOLEAN /\ rd.pos.offset = i
               /\ Peek(Peeked(rd)) = Peek(rd) /\ Peeked(rd).index = i /\ Peeked(rd).slice = s
               /\ Advance(rd).slice = s /\ Advance(Peeked(rd)).slice = s
<1>1. ReaderInv(rd) /\ ReaderInv(Peeked(rd)) /\ fr \in Frame /\ rd.pos.offset = rd.index
      /\ fr.pos.offset \in Nat /\ fr.pos.offset <= rd.index /\ inBang \in BOOLEAN
    BY Found DEF ScanInv, Settled
<1> QED
    BY <1>1, ReaderFields, PeekAgain, PeekedInv, AdvanceInv DEF ReaderInv

\* The calls of scan(): a piece of trivia is behind.
LEMMA PieceBehind ==
    ASSUME ScanInv, Skipped(rd, fr, inBang), InToken(fr), Recalls, fr'.pc = "scan",
           rd'.slice = rd.slice,
           Clean(rd.slice) => AfterPiece(rd.slice, fr.pos.offset, inBang) = <<rd'.index, inBang'>>
    PROVE  Skips
<1> DEFINE s == rd.slice
           p == fr.pos.offset
<1>1. s \in Seq(Byte) /\ Len(s) \in Nat /\ p \in Nat /\ inBang \in BOOLEAN
    BY CommentersFind
<1>2. fr'.from = fr.from /\ fr'.fromBang = fr.fromBang
    BY DEF Recalls
<1>3. ASSUME Clean(s)
      PROVE  AfterTrivia(s, fr.from, fr.fromBang) = AfterTrivia(s, rd'.index, inBang')
    <2>1. p < Len(s) /\ AfterTrivia(s, fr.from, fr.fromBang) = AfterTrivia(s, p, inBang)
        BY <1>3 DEF Skipped
    <2>2. p \in 0 .. Len(s)
        <3> HIDE DEF s, p
        <3> QED
            BY <1>1, <2>1
    <2>3. AfterTrivia(s, p, inBang) = AfterTrivia(s, rd'.index, inBang')
        BY <1>1, <1>3, <2>2, TriviaEquation
    <2> QED
        BY <2>1, <2>3
<1> QED
    BY <1>2, <1>3, LooksOn

\* lexer.cc:57-146: the operator, or what opens a comment.
LEMMA SlashSkips ==
    ASSUME Known, Behind(rd, fr, inBang), Skipped(rd, fr, inBang), Recalls, startWithSlash
    PROVE  Skips
<1> DEFINE s == rd.slice
           i == rd.index
           p == fr.pos.offset
<1>0. ScanInv /\ Led(rd, fr)
    BY DEF Known
<1>1. /\ ReaderInv(rd) /\ ReaderInv(Peeked(rd)) /\ fr \in Frame
      /\ s \in Seq(Byte) /\ Len(s) \in Nat /\ i \in Nat /\ p \in Nat /\ p <= i /\ i <= Len(s)
      /\ inBang \in BOOLEAN /\ rd.pos.offset = i
      /\ Peek(Peeked(rd)) = Peek(rd) /\ Peeked(rd).index = i /\ Peeked(rd).slice = s
      /\ Advance(rd).slice = s /\ Advance(Peeked(rd)).slice = s
    BY <1>0, CommentersFind
<1>2. fr.pc \in {"slash", "slash2", "slash3"} /\ InToken(fr) /\ p < Len(s)
    <2>1. fr.pc \in {"slash", "slash2", "slash3"}
        BY DEF startWithSlash, At
    <2> QED
        BY <1>0, <2>1 DEF InToken, Stage, Led
<1>3. CASE At("slash") /\ Step(Advance(rd), Save("slash2"))
    <2>1. /\ rd' = Advance(rd) /\ fr'.pc = "slash2" /\ fr'.pos = rd.pos /\ inBang' = inBang
        BY <1>1, <1>3 DEF Step, Save, Frame
    <2>2. i = p
        BY <1>0, <1>3 DEF Led, Entries, At
    <2>3. InToken(fr') /\ Handled(rd', fr')
        BY <2>1, PlainlyHandled DEF InToken, Stage
    <2> QED
        BY <1>1, <1>2, <2>1, <2>2, <2>3, TokenGoesOn
<1>4. CASE At("slash2") /\ Peek(rd) # Star /\ Return(Peeked(rd), Slash, fr.pos, <<Slash>>)
    <2>1. s[p + 1] = Slash /\ i = p + 1
        BY <1>4 DEF Behind, At
    <2>2. ~(p + 1 < Len(s) /\ s[p + 2] = Star)
        <3>1. ~(i < Len(s) /\ s[i + 1] = Star)
            BY <1>1, <1>4, SeesSlashing
        <3>2. i + 1 = p + 2
            BY <1>1, <2>1
        <3> QED
            BY <2>1, <3>1, <3>2
    <2>3. ~Looks(s, p, <<Slash, Star>>)
        <3>1. p <= Len(s)
            BY <1>1, <1>2
        <3> QED
            BY <1>1, <2>2, <3>1, LooksTwo
    <2>4. AfterPiece(s, p, inBang) = <<p, inBang>>
        BY <1>1, <1>2, <2>1, <2>3, SlashPiece
    <2>5. rd' = Peeked(rd) /\ fr'.pc = "idle" /\ inBang' = inBang /\ out'.begin = p
        BY <1>4 DEF Return, Result, NoFrame
    <2> QED
        BY <1>0, <1>1, <1>2, <2>4, <2>5, TokenReturns
<1>5. CASE Step(Advance(Peeked(rd)), Goto("slash3"))
    <2>1. /\ rd' = Advance(Peeked(rd)) /\ fr'.pc = "slash3" /\ fr'.pos = fr.pos /\ inBang' = inBang
        BY <1>1, <1>5 DEF Step, Goto, Frame
    <2>2. InToken(fr') /\ Handled(rd', fr')
        BY <2>1, PlainlyHandled DEF InToken, Stage
    <2> QED
        BY <1>1, <1>2, <2>1, <2>2, TokenGoesOn
<1>6. CASE At("slash3") /\ \/ Peek(rd) = Bang /\ Step(Advance(rd), [Goto("version") EXCEPT !.mark = Advance(rd).pos, !.i = 0])
                           \/ Peek(rd) # Bang /\ Step(Advance(rd), [Goto("comment") EXCEPT !.star = Peek(rd) = Star])
    <2>1. s[p + 1] = Slash /\ i = p + 2 /\ s[p + 2] = Star
        BY <1>6 DEF Behind, At
    <2>2. i + 1 = p + 3 /\ p <= Len(s) /\ p + 1 < i /\ p + 1 < Len(s)
        BY SMTT(30), <1>1, <2>1
    <2>3. Looks(s, p, <<Slash, Star>>)
        BY <1>1, <2>1, <2>2, LooksTwo
    <2>4. Looks(s, p, <<Slash, Star, Bang>>) <=> Peek(rd) = Bang
        <3>1. Peek(rd) = Bang <=> i < Len(s) /\ s[i + 1] = Bang
            BY <1>1, SeesSlashing
        <3>2. Looks(s, p, <<Slash, Star, Bang>>) <=>
                 p + 2 < Len(s) /\ s[p + 1] = Slash /\ s[p + 2] = Star /\ s[p + 3] = Bang
            <4>1. s \in Seq(Byte) /\ p \in Nat /\ p <= Len(s)
                BY <1>1, <2>2
            <4> HIDE DEF s, p
            <4> QED
                BY <4>1, LooksThree, Zenon
        <3> QED
            BY <2>1, <2>2, <3>1, <3>2
    <2>5. rd' = Advance(rd) /\ fr'.pos = fr.pos /\ inBang' = inBang
        BY <1>1, <1>6 DEF Step, Goto, Frame
    <2>6. CASE Peek(rd) = Bang
        <3>1. fr'.pc = "version" /\ fr'.mark = Advance(rd).pos /\ fr'.i = 0
            BY <1>1, <1>6, <2>6 DEF Step, Goto, Frame
        <3>2. Advance(rd).index = p + 3 /\ Advance(rd).pos.offset = p + 3
            BY <1>1, <2>2, <2>6, SeesSlashing, AdvanceGrows
        <3>3. 0 \in 0 .. 5 /\ p + 3 = p + 3 + 0 /\ 1 .. 0 = {}
            BY <1>1
        <3>4. InToken(fr') /\ Handled(rd', fr')
            <4>1. fr'.pc = "version" => /\ Looks(rd'.slice, p, <<Slash, Star, Bang>>) /\ fr'.mark.offset = p + 3
                                        /\ fr'.i \in 0 .. 5 /\ rd'.index = p + 3 + fr'.i
                                        /\ \A k \in 1 .. fr'.i : isDigit(rd'.slice[p + 3 + k])
                BY <1>1, <2>4, <2>5, <2>6, <3>1, <3>2, <3>3
            <4> QED
                BY <2>5, <3>1, <4>1 DEF Handled, InToken, Stage
        <3> QED
            BY <1>1, <1>2, <2>5, <3>4, TokenGoesOn
    <2>7. CASE Peek(rd) # Bang
        <3>1. fr'.pc = "comment" /\ fr'.star = (Peek(rd) = Star)
            BY <1>1, <1>6, <2>7 DEF Step, Goto, Frame
        <3>2. Unclosed(s, p, i)
            <4>1. p + 2 <= i /\ p + 2 .. i - 1 = {}
                BY <1>1, <2>1
            <4> QED
                BY <2>3, <2>4, <2>7, <4>1 DEF Unclosed
        <3>3. ASSUME Clean(s)
              PROVE  Handled(rd', fr')
            <4>1. CASE Peek(rd) = Star
                <5>1. rd'.index = i + 1 /\ s[i + 1] = Star
                    BY <1>1, <2>5, <4>1, SeesSlashing
                <5>2. rd'.index - 1 = i
                    BY <1>1, <5>1
                <5> QED
                    BY <1>1, <2>5, <3>1, <3>2, <4>1, <5>1, <5>2 DEF Handled
            <4>2. CASE Peek(rd) # Star
                <5>1. /\ rd'.index \in Nat /\ i <= rd'.index
                      /\ \A j \in i .. rd'.index - 1 : s[j + 1] # Star /\ j < Len(s)
                    BY <1>1, <2>5, <3>3, <4>2, TriviaCharacters, ReadsWithout
                <5>2. Unclosed(s, p, rd'.index)
                    BY <1>1, <3>2, <5>1, UnclosedGrows
                <5> QED
                    BY <1>1, <2>5, <3>1, <4>2, <5>2 DEF Handled
            <4> QED
                BY <4>1, <4>2
        <3>4. InToken(fr')
            BY <3>1 DEF InToken, Stage
        <3> QED
            BY <1>1, <1>2, <2>5, <3>3, <3>4, TokenGoesOn
    <2> QED
        BY <2>6, <2>7
<1> QED
    BY <1>3, <1>4, <1>5, <1>6 DEF startWithSlash

\* scanner.cc:67-82
LEMMA VersionSkips ==
    ASSUME Known, Skipped(rd, fr, inBang), Recalls, scanVersionDigits
    PROVE  Skips
<1> DEFINE s == rd.slice
           i == rd.index
           p == fr.pos.offset
<1>0. ScanInv
    BY DEF Known
<1>1. /\ ReaderInv(rd) /\ ReaderInv(Peeked(rd)) /\ fr \in Frame
      /\ s \in Seq(Byte) /\ Len(s) \in Nat /\ i \in Nat /\ p \in Nat /\ p <= i /\ i <= Len(s)
      /\ inBang \in BOOLEAN /\ rd.pos.offset = i
      /\ Peek(Peeked(rd)) = Peek(rd) /\ Peeked(rd).index = i /\ Peeked(rd).slice = s
      /\ Advance(rd).slice = s /\ Advance(Peeked(rd)).slice = s
    BY <1>0, CommentersFind
<1>2. fr.pc = "version" /\ InToken(fr)
    BY DEF scanVersionDigits, At, InToken, Stage
<1>3. Clean(s) => /\ Looks(s, p, <<Slash, Star, Bang>>) /\ fr.mark.offset = p + 3
                  /\ fr.i \in 0 .. 5 /\ i = p + 3 + fr.i
                  /\ \A k \in 1 .. fr.i : isDigit(s[p + 3 + k])
                  /\ p < Len(s)
    BY <1>2 DEF Skipped, Handled
<1>4. Clean(s) => AfterPiece(s, p, inBang) = <<AfterVersion(s, p + 3), TRUE>>
    BY <1>1, <1>3, Pieces
<1>5. \A c : isDigit(c) => c \in 1 .. 127
    BY SMT DEF isDigit
<1>6. isDigit(Peek(rd)) => ~Eof(rd)
    BY ReadableIsThere
<1>7. CASE isDigit(Peek(rd)) /\ fr.i < 5 /\ Step(Advance(Peeked(rd)), [fr EXCEPT !.i = fr.i + 1])
    <2>1. /\ rd' = Advance(Peeked(rd)) /\ fr'.pc = "version" /\ fr'.pos = fr.pos /\ inBang' = inBang
          /\ fr'.mark = fr.mark /\ fr'.i = fr.i + 1
        BY <1>1, <1>2, <1>7 DEF Step, Frame
    <2>2. rd'.index = i + 1 /\ s[i + 1] = Peek(rd)
        <3>1. ~Eof(Peeked(rd)) /\ Peek(Peeked(rd)) \in 1 .. 127
            BY <1>1, <1>5, <1>6, <1>7, PeekAgain
        <3> QED
            BY <1>1, <2>1, <3>1, ReadsByte
    <2>3. ASSUME Clean(s)
          PROVE  Handled(rd', fr')
        <3> DEFINE n == fr.i
        <3>1. n \in 0 .. 5 /\ n < 5 /\ i = p + 3 + n /\ \A k \in 1 .. n : isDigit(s[p + 3 + k])
            BY <1>3, <1>7, <2>3
        <3> HIDE DEF n
        <3>2. n + 1 \in 0 .. 5 /\ i + 1 = p + 3 + (n + 1)
            BY SMTT(30), <1>1, <3>1
        <3>3. ASSUME NEW k \in 1 .. n + 1
              PROVE  isDigit(s[p + 3 + k])
            <4>1. CASE k = n + 1
                BY <1>7, <2>2, <3>2, <4>1
            <4>2. CASE k # n + 1
                <5>1. k \in 1 .. n
                    BY <3>1, <4>2
                <5> QED
                    BY <3>1, <5>1
            <4> QED
                BY <4>1, <4>2
        <3>4. fr'.i = n + 1
            BY <2>1 DEF n
        <3>5. fr'.pc = "version" => /\ Looks(rd'.slice, p, <<Slash, Star, Bang>>) /\ fr'.mark.offset = p + 3
                                    /\ fr'.i \in 0 .. 5 /\ rd'.index = p + 3 + fr'.i
                                    /\ \A k \in 1 .. fr'.i : isDigit(rd'.slice[p + 3 + k])
            <4>1. rd'.slice = s
                BY <1>1, <2>1
            <4>2. rd'.index = p + 3 + (n + 1)
                BY <2>2, <3>2
            <4> QED
                BY <1>3, <2>1, <2>3, <3>2, <3>3, <3>4, <4>1, <4>2
        <3> QED
            BY <2>1, <3>5 DEF Handled
    <2>4. InToken(fr')
        BY <2>1 DEF InToken, Stage
    <2> QED
        BY <1>1, <1>2, <2>1, <2>3, <2>4, TokenGoesOn
<1>8. CASE fr.i < 5 /\ ~isDigit(Peek(rd)) /\ Rescan(UpdatePos(Peeked(rd), fr.mark), TRUE)
    <2>1. /\ rd' = UpdatePos(Peeked(rd), fr.mark) /\ fr'.pc = "scan" /\ inBang' = TRUE
        BY <1>1, <1>8 DEF Rescan, Goto, Frame
    <2>2. rd'.index = fr.mark.offset /\ rd'.slice = s
        <3>1. Saved(Peeked(rd), fr.mark)
            BY <1>0, <1>1, <1>2, Found, PeekedInv DEF At, Saved
        <3> QED
            BY <1>1, <2>1, <3>1, UpdatePosLands
    <2>3. ASSUME Clean(s)
          PROVE  AfterVersion(s, p + 3) = p + 3
        <3> DEFINE n == fr.i
        <3>1. n \in 0 .. 5 /\ n < 5 /\ i = p + 3 + n
            BY <1>3, <1>8, <2>3
        <3>2. p + 3 + 5 <= Len(s) => ~isDigit(s[p + 3 + (n + 1)])
            <4> SUFFICES ASSUME p + 3 + 5 <= Len(s), isDigit(s[p + 3 + (n + 1)])
                         PROVE  FALSE
                OBVIOUS
            <4>1. i < Len(s) /\ i + 1 = p + 3 + (n + 1)
                <5> HIDE DEF n, i, p, s
                <5> QED
                    BY <1>1, <3>1
            <4>2. ~Eof(rd)
                BY <1>1, <4>1, SMT DEF Eof
            <4>3. s[i + 1] \in 1 .. 127
                BY <1>5, <4>1
            <4>4. Peek(rd) = s[i + 1]
                BY <1>1, <4>2, <4>3, ReadsByte
            <4> QED
                BY <1>8, <4>1, <4>4
        <3>3. n + 1 \in 1 .. 5
            BY <3>1
        <3> HIDE DEF n
        <3> QED
            BY <3>2, <3>3 DEF AfterVersion
    <2>4. Clean(s) => AfterPiece(s, p, inBang) = <<rd'.index, inBang'>>
        BY <1>3, <1>4, <2>1, <2>2, <2>3
    <2> QED
        BY <1>0, <1>2, <2>1, <2>2, <2>4, PieceBehind
<1>9. CASE fr.i >= 5 /\ Rescan(IF fr.i = 5 THEN rd ELSE Peeked(rd), TRUE)
    <2>1. /\ rd' \in {rd, Peeked(rd)} /\ fr'.pc = "scan" /\ inBang' = TRUE
        BY <1>1, <1>9 DEF Rescan, Goto, Frame
    <2>2. rd'.index = i /\ rd'.slice = s
        BY <1>1, <2>1
    <2>3. ASSUME Clean(s)
          PROVE  AfterVersion(s, p + 3) = i
        <3> DEFINE n == fr.i
        <3>1. n \in 0 .. 5 /\ n >= 5 /\ i = p + 3 + n /\ \A k \in 1 .. n : isDigit(s[p + 3 + k])
            BY <1>3, <1>9, <2>3
        <3>2. n = 5
            <4> HIDE DEF n
            <4> QED
                BY <3>1
        <3>3. i = p + 3 + 5 /\ p + 3 + 5 <= Len(s) /\ \A k \in 1 .. 5 : isDigit(s[p + 3 + k])
            BY <1>1, <3>1, <3>2
        <3> QED
            BY <3>3 DEF AfterVersion
    <2>4. Clean(s) => AfterPiece(s, p, inBang) = <<rd'.index, inBang'>>
        BY <1>4, <2>1, <2>2, <2>3
    <2> QED
        BY <1>0, <1>2, <2>1, <2>2, <2>4, PieceBehind
<1> QED
    BY <1>7, <1>8, <1>9 DEF scanVersionDigits, versionMin, versionMax

\* lexer.cc:121-146: the comment.
LEMMA CommentSkips ==
    ASSUME Known, Skipped(rd, fr, inBang), Recalls, comment
    PROVE  Skips
<1> DEFINE s == rd.slice
           i == rd.index
           p == fr.pos.offset
<1>0. ScanInv
    BY DEF Known
<1>1. /\ ReaderInv(rd) /\ ReaderInv(Peeked(rd)) /\ fr \in Frame
      /\ s \in Seq(Byte) /\ Len(s) \in Nat /\ i \in Nat /\ p \in Nat /\ p <= i /\ i <= Len(s)
      /\ inBang \in BOOLEAN /\ rd.pos.offset = i
      /\ Peek(Peeked(rd)) = Peek(rd) /\ Peeked(rd).index = i /\ Peeked(rd).slice = s
      /\ Advance(rd).slice = s /\ Advance(Peeked(rd)).slice = s
    BY <1>0, CommentersFind
<1>2. fr.pc \in {"comment", "afterStar"} /\ InToken(fr)
    BY DEF comment, At, InToken, Stage
<1>3. Clean(s) => Handled(rd, fr) /\ p < Len(s)
    BY <1>2 DEF Skipped
<1>4. \A n : Unclosed(s, p, n) => /\ p + 2 <= n /\ Looks(s, p, <<Slash, Star>>)
                                  /\ ~Looks(s, p, <<Slash, Star, Bang>>)
                                  /\ \A j \in p + 2 .. n - 1 : ~Looks(s, j, <<Star, Slash>>)
    BY DEF Unclosed
<1>5. \A n : Unclosed(s, p, n) /\ p < Len(s) => s[p + 1] = Slash
    <2>1. p <= Len(s)
        BY <1>1
    <2> QED
        BY <1>1, <1>4, <2>1, LooksTwo
<1>6. CASE At("comment") /\ ~fr.star /\ Step(rd, Inc(fr, "notStar", "afterStar"))
    <2>1. /\ rd' = rd /\ fr'.pc = "inc" /\ fr'.ret = "afterStar" /\ fr'.pred = "notStar"
          /\ fr'.pos = fr.pos /\ inBang' = inBang
        BY <1>1, <1>6 DEF Step, Inc, Frame
    <2>2. Clean(s) => Handled(rd', fr')
        <3>1. Clean(s) => Unclosed(s, p, i)
            BY <1>3, <1>6 DEF Handled, At
        <3> QED
            BY <2>1, <3>1 DEF Handled
    <2>3. InToken(fr')
        BY <2>1 DEF InToken, Stage
    <2> QED
        BY <1>2, <2>1, <2>2, <2>3, TokenGoesOn
<1>7. CASE At("comment") /\ fr.star /\ Step(rd, [Goto("afterStar") EXCEPT !.ch = Star])
    <2>1. rd' = rd /\ fr'.pc = "afterStar" /\ fr'.ch = Star /\ fr'.pos = fr.pos /\ inBang' = inBang
        BY <1>1, <1>7 DEF Step, Goto, Frame
    <2>2. Clean(s) => Handled(rd', fr')
        <3>1. Clean(s) => s[i] = Star /\ Unclosed(s, p, i - 1)
            BY <1>3, <1>7 DEF Handled, At
        <3> QED
            BY <2>1, <3>1 DEF Handled
    <2>3. InToken(fr')
        BY <2>1 DEF InToken, Stage
    <2> QED
        BY <1>2, <2>1, <2>2, <2>3, TokenGoesOn
<1>8. CASE At("afterStar") /\ fr.ch # Star /\ ReturnNothing(rd)
    <2>1. rd' = rd /\ fr'.pc = "idle" /\ inBang' = inBang /\ out'.begin = p
        BY <1>8 DEF ReturnNothing, Result, NoFrame
    <2>2. ASSUME Clean(s)
          PROVE  AfterPiece(s, p, inBang) = <<p, inBang>>
        <3>1. i = Len(s) /\ Unclosed(s, p, i)
            BY <1>3, <1>8, <2>2 DEF Handled, At
        <3> DEFINE n == Len(s)
                   L(j) == Looks(s, j, <<Star, Slash>>)
        <3>2. ~L(n)
            BY SMTT(30), <1>1, LooksTwo
        <3>3. p + 2 <= n /\ \A j \in p + 2 .. n - 1 : ~L(j)
            BY <1>4, <3>1
        <3>4. \A j \in p + 2 .. n : ~L(j)
            <4>1. n \in Nat /\ p \in Nat
                BY <1>1
            <4> HIDE DEF n, L, p
            <4>2. \A j \in p + 2 .. n : j = n \/ j \in p + 2 .. n - 1
                BY <4>1
            <4> QED
                BY <3>2, <3>3, <4>2
        <3>5. ~Closed(s, p + 2)
            BY <3>4 DEF Closed
        <3> QED
            BY <1>1, <1>3, <1>4, <1>5, <2>2, <3>1, <3>5, SlashPiece
    <2> QED
        BY <1>0, <1>2, <2>1, <2>2, TokenReturns
<1>9. CASE At("afterStar") /\ fr.ch = Star /\ Peek(rd) = Slash /\ Step(Advance(rd), Goto("scan"))
    <2>1. rd' = Advance(rd) /\ fr'.pc = "scan" /\ inBang' = inBang
        BY <1>1, <1>9 DEF Step, Goto, Frame
    <2>2. rd'.index = i + 1 /\ i < Len(s) /\ s[i + 1] = Slash
        BY <1>1, <1>9, <2>1, SeesSlashing
    <2>3. ASSUME Clean(s)
          PROVE  AfterPiece(s, p, inBang) = <<rd'.index, inBang>>
        <3> DEFINE k == i - 1
                   L(j) == Looks(s, j, <<Star, Slash>>)
                   n == Len(s)
        <3>1. s[i] = Star /\ Unclosed(s, p, k)
            <4>1. Slash # Star
                BY TriviaCharacters
            <4> QED
                BY <1>3, <1>9, <2>3, <4>1 DEF Handled, At
        <3>2. p + 2 <= k /\ \A j \in p + 2 .. k - 1 : ~L(j)
            BY <1>4, <3>1
        <3>3. /\ k \in Nat /\ k + 1 = i /\ k + 2 = i + 1 /\ k <= n /\ k + 1 < n
              /\ p + 2 \in Nat /\ k \in p + 2 .. n /\ p + 2 <= n
            <4> HIDE DEF n, p, L
            <4> QED
                BY SMTT(30), <1>1, <2>2, <3>2 DEF n, p
        <3>4. L(k)
            <4>1. s[k + 1] = Star /\ s[k + 2] = Slash
                BY <2>2, <3>1, <3>3
            <4> QED
                BY <1>1, <3>3, <4>1, LooksTwo
        <3>5. Closed(s, p + 2)
            BY <3>3, <3>4 DEF Closed
        <3>6. \A j \in p + 2 .. n : j < k => ~L(j)
            <4> HIDE DEF n, L, p, k
            <4> QED
                BY <3>2, <3>3
        <3>7. FirstFrom(s, p + 2, <<Star, Slash>>) = k
            BY <1>1, <3>3, <3>4, <3>6, FirstPlaceIs
        <3>8. AfterPiece(s, p, inBang) = <<FirstFrom(s, p + 2, <<Star, Slash>>) + 2, inBang>>
            BY <1>1, <1>3, <1>4, <2>3, <3>1, <3>5, Pieces
        <3> QED
            BY <2>2, <3>3, <3>7, <3>8
    <2> QED
        BY <1>0, <1>1, <1>2, <2>1, <2>3, PieceBehind
<1>10. CASE /\ At("afterStar") /\ fr.ch = Star /\ Peek(rd) # Slash
            /\ Step(Advance(rd), [Goto("comment") EXCEPT !.star = Peek(rd) = Star])
    <2>1. /\ rd' = Advance(rd) /\ fr'.pc = "comment" /\ fr'.star = (Peek(rd) = Star)
          /\ fr'.pos = fr.pos /\ inBang' = inBang
        BY <1>1, <1>10 DEF Step, Goto, Frame
    <2>2. ASSUME Clean(s)
          PROVE  Unclosed(s, p, i)
        <3> DEFINE k == i - 1
                   L(j) == Looks(s, j, <<Star, Slash>>)
        <3>1. CASE Unclosed(s, p, k)
            <4>1. p + 2 <= k /\ \A j \in p + 2 .. k - 1 : ~L(j)
                BY <1>4, <3>1
            <4>2. k \in Nat /\ k + 2 = i + 1 /\ k <= Len(s) /\ p + 2 <= i /\ (k + 1 < Len(s) <=> i < Len(s))
                <5> HIDE DEF p, s
                <5> QED
                    BY <1>1, <4>1
            <4>3. ~(i < Len(s) /\ s[i + 1] = Slash)
                BY <1>1, <1>10, SeesSlashing
            <4>4. ~L(k)
                BY <1>1, <4>2, <4>3, LooksTwo
            <4>5. \A j \in p + 2 .. i - 1 : ~L(j)
                <5>1. \A j \in p + 2 .. k : j = k \/ j \in p + 2 .. k - 1
                    <6> HIDE DEF p, k
                    <6> QED
                        BY <1>1, <4>2
                <5> HIDE DEF L
                <5> QED
                    BY <4>1, <4>4, <5>1
            <4> QED
                BY <1>4, <3>1, <4>2, <4>5 DEF Unclosed
        <3>2. CASE Unclosed(s, p, i)
            BY <3>2
        <3> QED
            BY <1>3, <1>10, <2>2, <3>1, <3>2 DEF Handled, At
    <2>3. ASSUME Clean(s)
          PROVE  Handled(rd', fr')
        <3>1. Unclosed(s, p, i)
            BY <2>2, <2>3
        <3>2. CASE Peek(rd) = Star
            <4>1. rd'.index = i + 1 /\ s[i + 1] = Star
                BY <1>1, <2>1, <3>2, SeesSlashing
            <4>2. rd'.index - 1 = i
                BY <1>1, <4>1
            <4> QED
                BY <1>1, <2>1, <3>1, <3>2, <4>1, <4>2 DEF Handled
        <3>3. CASE Peek(rd) # Star
            <4>1. /\ rd'.index \in Nat /\ i <= rd'.index
                  /\ \A j \in i .. rd'.index - 1 : s[j + 1] # Star /\ j < Len(s)
                BY <1>1, <2>1, <2>3, <3>3, TriviaCharacters, ReadsWithout
            <4>2. Unclosed(s, p, rd'.index)
                BY <1>1, <3>1, <4>1, UnclosedGrows
            <4> QED
                BY <1>1, <2>1, <3>3, <4>2 DEF Handled
        <3> QED
            BY <3>2, <3>3
    <2>4. InToken(fr')
        BY <2>1 DEF InToken, Stage
    <2> QED
        BY <1>1, <1>2, <2>1, <2>3, <2>4, TokenGoesOn
<1> QED
    BY <1>6, <1>7, <1>8, <1>9, <1>10 DEF comment

\* A '*' is first where its handler runs.
LEMMA StarHandler == \A c : Handler(c) = "star" => c = Star
BY SMT DEF Handler, isDigit, isLetter, Slash, Star, Minus, Dot, Backquote, Quote, DQuote, Underscore

\* lexer.cc:148-161: the end of a bang comment, or the operator.
LEMMA StarSkips ==
    ASSUME Known, Skipped(rd, fr, inBang), Recalls, startWithStar
    PROVE  Skips
<1> DEFINE s == rd.slice
           i == rd.index
           p == fr.pos.offset
<1>0. ScanInv /\ Led(rd, fr) /\ Ahead(rd, fr)
    BY DEF Known
<1>1. /\ ReaderInv(rd) /\ ReaderInv(Peeked(rd)) /\ fr \in Frame
      /\ s \in Seq(Byte) /\ Len(s) \in Nat /\ i \in Nat /\ p \in Nat /\ p <= i /\ i <= Len(s)
      /\ inBang \in BOOLEAN /\ rd.pos.offset = i
      /\ Peek(Peeked(rd)) = Peek(rd) /\ Peeked(rd).index = i /\ Peeked(rd).slice = s
      /\ Advance(rd).slice = s /\ Advance(Peeked(rd)).slice = s
    BY <1>0, CommentersFind
<1>2. fr.pc \in {"star", "star2"} /\ InToken(fr) /\ Stage(fr) = fr.pc /\ p < Len(s)
    <2>1. fr.pc \in {"star", "star2"}
        BY DEF startWithStar, At
    <2> QED
        BY <1>0, <2>1 DEF InToken, Stage, Led
<1>3. s[p + 1] = Star
    <2>1. LedBy(fr.pc, Handler(RuneAt(s, p)))
        BY <1>0, <1>2 DEF Led, FirstRune
    <2>2. RuneAt(s, p) = Star
        BY <1>2, <2>1, LedFacts, StarHandler
    <2> QED
        BY <1>1, <1>2, <2>2, AsciiRunes, TriviaCharacters
<1>4. CASE At("star") /\ Step(Advance(rd), Save("star2"))
    <2>1. /\ rd' = Advance(rd) /\ fr'.pc = "star2" /\ fr'.pos = rd.pos /\ inBang' = inBang
        BY <1>1, <1>4 DEF Step, Save, Frame
    <2>2. i = p
        BY <1>0, <1>4 DEF Led, Entries, At
    <2>3. rd'.index = p + 1
        <3>1. Peek(rd) = Star
            BY <1>1, <1>2, <1>3, <2>2, SeesSlashing
        <3> QED
            BY <1>1, <2>1, <2>2, <3>1, SeesSlashing
    <2>4. InToken(fr') /\ Handled(rd', fr')
        BY <1>1, <2>1, <2>2, <2>3 DEF InToken, Stage, Handled
    <2> QED
        BY <1>1, <1>2, <2>1, <2>2, <2>4, TokenGoesOn
<1>5. CASE At("star2") /\ \/ inBang /\ Peek(rd) = Slash /\ Rescan(Advance(Peeked(rd)), FALSE)
                          \/ /\ ~(inBang /\ Peek(rd) = Slash)
                             /\ Return(IF inBang THEN Peeked(rd) ELSE rd, Star, fr.pos, <<Star>>)
    <2>1. Clean(s) => i = p + 1
        BY <1>2, <1>5 DEF Skipped, Handled, At
    <2>2. Clean(s) => (Peek(rd) = Slash <=> p + 1 < Len(s) /\ s[p + 2] = Slash)
        <3>1. Peek(rd) = Slash <=> i < Len(s) /\ s[i + 1] = Slash
            BY <1>1, SeesSlashing
        <3>2. i = p + 1 => i + 1 = p + 2
            BY <1>1
        <3> QED
            BY <2>1, <3>1, <3>2
    <2>3. CASE inBang /\ Peek(rd) = Slash /\ Rescan(Advance(Peeked(rd)), FALSE)
        <3>1. rd' = Advance(Peeked(rd)) /\ fr'.pc = "scan" /\ inBang' = FALSE
            BY <1>1, <2>3 DEF Rescan, Goto, Frame
        <3>2. rd'.index = i + 1
            BY <1>1, <2>3, <3>1, SeesSlashing
        <3>3. ASSUME Clean(s)
              PROVE  AfterPiece(s, p, inBang) = <<rd'.index, inBang'>>
            <4>1. AfterPiece(s, p, inBang) = <<p + 2, FALSE>>
                BY <1>1, <1>2, <1>3, <2>2, <2>3, <3>3, StarPiece
            <4>2. rd'.index = p + 2
                BY <1>1, <2>1, <3>2, <3>3
            <4> QED
                BY <3>1, <4>1, <4>2
        <3> QED
            BY <1>0, <1>1, <1>2, <3>1, <3>3, PieceBehind
    <2>4. CASE /\ ~(inBang /\ Peek(rd) = Slash)
               /\ Return(IF inBang THEN Peeked(rd) ELSE rd, Star, fr.pos, <<Star>>)
        <3>1. rd' \in {rd, Peeked(rd)} /\ fr'.pc = "idle" /\ inBang' = inBang /\ out'.begin = p
            BY <2>4 DEF Return, Result, NoFrame
        <3>2. Clean(s) => AfterPiece(s, p, inBang) = <<p, inBang>>
            BY <1>1, <1>2, <1>3, <2>2, <2>4, StarPiece
        <3>3. rd'.slice = s
            BY <1>1, <3>1
        <3> QED
            BY <1>0, <1>2, <3>1, <3>2, <3>3, TokenReturns
    <2> QED
        BY <1>5, <2>3, <2>4
<1> QED
    BY <1>4, <1>5 DEF startWithStar

\* lexer.cc:163-167: a line comment begins.
LEMMA SharpSkips ==
    ASSUME Known, Skipped(rd, fr, inBang), Recalls, startWithSharp
    PROVE  Skips
<1> DEFINE s == rd.slice
           i == rd.index
           p == fr.pos.offset
<1>0. ScanInv /\ Led(rd, fr) /\ Ahead(rd, fr)
    BY DEF Known
<1>1. /\ ReaderInv(rd) /\ fr \in Frame /\ p \in Nat
    BY <1>0, CommentersFind
<1>2. fr.pc = "sharp" /\ InToken(fr) /\ i = p
    BY <1>0 DEF startWithSharp, At, InToken, Stage, Led, Entries
<1>3. s[p + 1] = 35
    <2>1. Peek(rd) = 35
        BY <1>0, <1>2 DEF Ahead, CalledFor, Sharp
    <2> QED
        BY <1>1, <1>2, <2>1, SeesSlashing
<1>4. /\ rd' = rd /\ fr'.pc = "inc" /\ fr'.ret = "scan" /\ fr'.pred = "notNewline"
      /\ fr'.pos = fr.pos /\ inBang' = inBang
    BY <1>1 DEF startWithSharp, Step, Inc, Frame
<1>5. p .. i - 1 = {}
    BY <1>1, <1>2
<1>6. Handled(rd', fr') /\ InToken(fr')
    BY <1>3, <1>4, <1>5 DEF Handled, InToken, Stage
<1> QED
    BY <1>2, <1>4, <1>6, TokenGoesOn

\* Every step of a call.
LEMMA NextSkips ==
    ASSUME Known, Behind(rd, fr, inBang), Skipped(rd, fr, inBang), Scanning \/ Call
    PROVE  Skips
<1>0. ScanInv /\ Ahead(rd, fr) /\ Paced(rd, fr)
    BY DEF Known
<1>1. CASE Call
    BY <1>0, <1>1, CallSkips
<1>2. CASE Scanning
    <2>1. Recalls
        BY <1>0, <1>2, NextRecalls
    <2>2. CASE scan \/ scanned \/ trie \/ incAsLongAs
        BY <1>0, <1>2, <2>1, <2>2, ScanSkips, ScannedSkips, TrieSkips, IncSkips
    <2>3. CASE Commenting
        BY <1>0, <2>1, <2>3, SlashSkips, VersionSkips, CommentSkips, StarSkips, SharpSkips DEF Commenting
    <2>4. CASE \/ Going \/ Counting \/ scanFloat \/ exponent \/ (prefix /\ At("prefix")) \/ Beginning
               \/ (scanIdentifier /\ At("ident")) \/ (startWithNn /\ At("nn"))
        BY <1>2, <2>1, <2>4, OthersSkip
    <2>5. ~scanIdentifierOrString
        BY <1>0 DEF Paced, scanIdentifierOrString, At
    <2> QED
        BY <1>2, <2>2, <2>3, <2>4, <2>5 DEF Scanning, Going, Beginning, Counting, Commenting
<1> QED
    BY <1>1, <1>2

\* Between two tokens scan() skips the white space, the comments and the
\* delimiters of bang comments and nothing else, in every statement of well-formed
\* text: the handlers of '/', '*' and '#' drop what they have read and call
\* scan() again, so what a call has skipped so far, joined to what is left to skip
\* behind the reader, stays all there was to skip.
THEOREM ScannerSkipsTrivia == ScanSpec => []SkipsTrivia
<1> DEFINE K == Behind(rd, fr, inBang) /\ Skipped(rd, fr, inBang) /\ SkipsTrivia
<1>1. Init => K
    <2> SUFFICES ASSUME Init
                 PROVE  K
        OBVIOUS
    <2>1. fr.pc = "idle" /\ inBang = FALSE /\ ~Returned
        BY DEF Init, NoFrame, Returned
    <2>2. Behind(rd, fr, inBang)
        BY <2>1 DEF Behind
    <2>3. Skipped(rd, fr, inBang)
        BY <2>1 DEF Skipped, InToken, Stage
    <2> QED
        BY <2>1, <2>2, <2>3 DEF SkipsTrivia
<1>2. Known /\ K /\ [Scanning \/ Call]_vars => K'
    <2>1. Known /\ K /\ (Scanning \/ Call) => Behind(rd, fr, inBang)'
        BY NextBehind DEF Known, Next, Client
    <2>2. Known /\ K /\ (Scanning \/ Call) => Skipped(rd, fr, inBang)' /\ SkipsTrivia'
        BY NextSkips DEF Skips
    <2>3. UNCHANGED vars => UNCHANGED <<rd, fr, inBang, out>>
        BY DEF vars
    <2>4. Behind(rd, fr, inBang) /\ UNCHANGED <<rd, fr, inBang, out>> => Behind(rd, fr, inBang)'
        OBVIOUS
    <2>5. Skipped(rd, fr, inBang) /\ UNCHANGED <<rd, fr, inBang, out>> => Skipped(rd, fr, inBang)'
        OBVIOUS
    <2>6. SkipsTrivia /\ UNCHANGED <<rd, fr, inBang, out>> => SkipsTrivia'
        BY DEF SkipsTrivia, Returned, At, text
    <2> QED
        BY <2>1, <2>2, <2>3, <2>4, <2>5, <2>6
<1>3. K => SkipsTrivia
    OBVIOUS
<1> QED
    BY <1>1, <1>2, <1>3, ScannerKnown, PTL DEF ScanSpec

-----------------------------------------------------------------------------
(***************************************************************************)
(* Words (lexer.cc:170-232, scanner.cc:85-100).                            *)
(***************************************************************************)
IdentRunes == {c \in Nat : isIdentChar(c)}

\* The run of identifier characters, as a set of runes.
LEMMA IdentRuns ==
    ASSUME NEW s \in Seq(Byte), NEW i
    PROVE  RunEnd(s, i, isIdentChar) = RunIn(s, i, IdentRunes)
<1> DEFINE D == 0 .. Len(s)
           Goes(k) == k < Len(s) /\ isIdentChar(RuneAt(s, k))
           InRun(k) == k < Len(s) /\ RuneAt(s, k) \in IdentRunes
           A(end) == end = [k \in D |-> IF Goes(k) THEN end[k + DecodeWidth(s, k)] ELSE k]
           B(end) == end = [k \in D |-> IF InRun(k) THEN end[k + DecodeWidth(s, k)] ELSE k]
<1>1. \A k \in D : Goes(k) <=> InRun(k)
    <2> SUFFICES ASSUME NEW k \in D
                 PROVE  Goes(k) <=> InRun(k)
        OBVIOUS
    <2>1. CASE k < Len(s)
        <3>1. k \in Nat
            BY LenProperties
        <3>2. RuneAt(s, k) \in Nat
            BY <2>1, <3>1, AsciiRunes
        <3> QED
            BY <3>2 DEF IdentRunes
    <2> QED
        BY <2>1
<1>2. RunEnd(s, i, isIdentChar) = (CHOOSE end : A(end))[i]
    BY DEF RunEnd
<1>3. RunIn(s, i, IdentRunes) = (CHOOSE end : B(end))[i]
    BY DEF RunIn
<1> HIDE DEF Goes, InRun, D
<1>4. ASSUME NEW end
      PROVE  A(end) <=> B(end)
    <2>1. [k \in D |-> IF Goes(k) THEN end[k + DecodeWidth(s, k)] ELSE k]
        = [k \in D |-> IF InRun(k) THEN end[k + DecodeWidth(s, k)] ELSE k]
        BY <1>1
    <2> QED
        BY <2>1
<1>5. \A end : A(end) <=> B(end)
    BY <1>4
<1> HIDE DEF A, B
<1>6. (CHOOSE end : A(end)) = (CHOOSE end : B(end))
    BY <1>5, Zenon
<1> QED
    BY <1>2, <1>3, <1>6

\* A word that is read on: the run from its start ends where the run from the
\* index does; and nothing that the trie is walked for is a character that
\* scan() takes for one of a word.
Worded(r, f) ==
    /\ f.pc = "trie" /\ f.pos.offset < Len(r.slice) => ~isIdentExtend(FirstRune(r, f))
    /\ Stage(f) \in {"identEnd", "nnEnd"} /\ Handler(FirstRune(r, f)) # "number" =>
         /\ f.pc = "inc" => f.pred = "identChar"
         /\ RunIn(r.slice, f.pos.offset, IdentRunes) = RunIn(r.slice, r.index, IdentRunes)
         /\ f.pc # "inc" => ~isIdentChar(Peek(r)) \/ is_errored(Peek(r))

\* The labels of which Worded says nothing.
LEMMA PlainlyWorded ==
    ASSUME NEW r, NEW f, f.pc # "trie", Stage(f) \notin {"identEnd", "nnEnd"}
    PROVE  Worded(r, f)
BY DEF Worded

\* The word is read.
LEMMA WordGoesOn ==
    Known /\ Worded(rd, fr) /\ incAsLongAs => Worded(rd', fr')
<1> SUFFICES ASSUME Known, Worded(rd, fr), incAsLongAs
             PROVE  Worded(rd', fr')
    OBVIOUS
<1>1. /\ fr \in Frame /\ ScanInv /\ fr.pc = "inc" /\ fr.ret \in Returns
      /\ Stage(fr) = fr.ret /\ fr.pos.offset \in Nat
      /\ ReaderInv(rd) /\ ReaderInv(Peeked(rd))
    <2>1. fr.pc = "inc"
        BY DEF incAsLongAs, IncNext, IncErrored, IncStop, At
    <2> QED
        BY <2>1, Found DEF Known, Ahead, Stage
<1>2. /\ rd' \in Onward /\ fr'.pos = fr.pos /\ fr'.pred = fr.pred
      /\ Stage(fr') = fr.ret /\ (fr' = fr \/ fr'.pc = fr.ret)
    <2>1. \A c : LET f == [fr EXCEPT !.pc = fr.ret, !.ch = c]
                 IN  f.pc = fr.ret /\ f.pos = fr.pos /\ f.pred = fr.pred
        BY <1>1 DEF Frame
    <2>2. "inc" \notin Returns
        BY DEF Returns
    <2> QED
        BY <1>1, <2>1, <2>2 DEF incAsLongAs, IncNext, IncErrored, IncStop, Step, Onward, Stage
<1>3. rd'.slice = rd.slice /\ FirstRune(rd', fr') = FirstRune(rd, fr)
    BY <1>1, <1>2, OnwardFacts DEF FirstRune
<1>4. fr'.pc # "trie" /\ fr.ret # "inc"
    BY <1>1, <1>2 DEF Returns
<1>5. CASE fr.ret \notin {"identEnd", "nnEnd"} \/ Handler(FirstRune(rd, fr)) = "number"
    BY <1>2, <1>3, <1>4, <1>5 DEF Worded
<1>6. CASE fr.ret \in {"identEnd", "nnEnd"} /\ Handler(FirstRune(rd, fr)) # "number"
    <2> DEFINE s == rd.slice
               M == IdentRunes
    <2>1. /\ fr.pred = "identChar"
          /\ RunIn(s, fr.pos.offset, M) = RunIn(s, rd.index, M)
        BY <1>1, <1>6 DEF Worded
    <2>2. \A c : Holds(fr.pred, c) <=> isIdentChar(c)
        BY <2>1, Zenon DEF Holds
    <2>3. CASE IncNext
        <3>1. rd' = Advance(Peeked(rd)) /\ fr' = fr /\ isIdentChar(Peek(rd))
            BY <2>2, <2>3 DEF IncNext, Step
        <3>2. ~Eof(rd)
            BY <2>3, ReadableIsThere DEF IncNext
        <3>3. /\ rd.index \in 0 .. Len(s) /\ rd.index < Len(s)
              /\ Peek(rd) = RuneAt(s, rd.index) /\ Peek(rd) \in Nat /\ s \in Seq(Byte)
            <4>1. s \in Seq(Byte) /\ rd.index \in 0 .. Len(s)
                BY <1>1, ReaderFields, SMT DEF ReaderInv
            <4> QED
                BY <1>1, <3>2, <4>1, ReadsByte
        <3>4. rd'.index = rd.index + DecodeWidth(s, rd.index)
            <4>1. Peeked(rd).slice = rd.slice /\ Peeked(rd).index = rd.index /\ ~Eof(Peeked(rd))
                BY <1>1, <3>2, PeekedInv, PeekAgain
            <4>2. EndsRune(Peeked(rd), PosAfterNext(Peeked(rd)))
                BY <1>1, <4>1, PosAfterEndsRune
            <4> QED
                BY <1>1, <3>1, <4>1, <4>2, ForwardInv DEF Advance, EndsRune
        <3>5. Peek(rd) \in M
            BY <3>1, <3>3 DEF IdentRunes
        <3> HIDE DEF s, M
        <3>6. RunIn(s, rd.index, M) = RunIn(s, rd'.index, M)
            BY <3>3, <3>4, <3>5, RunEquation
        <3> QED
            BY <1>1, <1>2, <1>3, <1>4, <2>1, <3>1, <3>6 DEF Worded, s, M
    <2>4. CASE ~IncNext
        <3>1. /\ rd' = Peeked(rd) /\ fr'.pc = fr.ret
              /\ ~isIdentChar(Peek(rd)) \/ is_errored(Peek(rd))
            <4>1. \A c : [fr EXCEPT !.pc = fr.ret, !.ch = c].pc = fr.ret
                BY <1>1 DEF Frame
            <4> QED
                BY <2>2, <2>4, <4>1 DEF incAsLongAs, IncErrored, IncStop, Step
        <3>2. rd'.index = rd.index /\ Peek(rd') = Peek(rd)
            BY <1>1, <3>1, PeekAgain
        <3> QED
            BY <1>2, <1>3, <1>4, <2>1, <3>1, <3>2 DEF Worded
    <2> QED
        BY <2>3, <2>4
<1> QED
    BY <1>5, <1>6

\* The walk down the trie begins, and goes on, with what is no character of a word.
LEMMA WalkWorded ==
    Known /\ Worded(rd, fr) /\ (scanned \/ trie) => Worded(rd', fr')
<1> SUFFICES ASSUME Known, Worded(rd, fr), scanned \/ trie
             PROVE  Worded(rd', fr')
    OBVIOUS
<1>1. /\ fr \in Frame /\ ReaderInv(rd) /\ rd.pos.offset = rd.index
      /\ Paced(rd, fr) /\ ScanInv
    BY Found DEF Known
<1>2. /\ \A l : Save(l).pc = l /\ Goto(l).pc = l /\ Save(l).pos = rd.pos
      /\ NoFrame.pc = "idle"
    BY <1>1 DEF Save, Goto, Frame, NoFrame
<1> DEFINE walked == [fr EXCEPT !.node = Append(fr.node, fr.ch), !.ch = Peek(rd)]
<1>3. walked.pc = fr.pc /\ walked.pos = fr.pos
    BY <1>1 DEF Frame
<1> HIDE DEF walked
<1>4. Stage(fr') \notin {"identEnd", "nnEnd"}
    <2>1. CASE scanned
        <3>1. fr' \in {NoFrame, Save("ident"), Save("trie")}
            BY <2>1 DEF scanned, Return, Result, Step
        <3>2. fr'.pc \in {"idle", "ident", "trie"}
            BY <1>2, <3>1
        <3> QED
            BY <3>2 DEF Stage
    <2>2. CASE trie
        <3>1. \/ fr' = NoFrame
              \/ Handler(fr.ch) # "none" /\ fr' = Goto(Stub(Handler(fr.ch)))
              \/ fr.pc = "trie" /\ fr' = walked
            BY <2>2 DEF trie, Return, Result, Step, At, walked
        <3>2. Handler(fr.ch) # "none" =>
                 Stub(Handler(fr.ch)) \in {"stub", "slash", "star", "sharp", "xx", "nn", "bb",
                                           "quoted", "number", "string", "ident"}
            BY HandlersFor DEF Stub
        <3>3. fr'.pc \in {"idle", "trie", "stub", "slash", "star", "sharp", "xx", "nn", "bb",
                          "quoted", "number", "string", "ident"}
            BY <1>2, <1>3, <3>1, <3>2
        <3> QED
            BY <3>3 DEF Stage
    <2> QED
        BY <2>1, <2>2
<1>5. ASSUME fr'.pc = "trie", fr'.pos.offset < Len(rd'.slice)
      PROVE  ~isIdentExtend(FirstRune(rd', fr'))
    <2>1. CASE scanned
        <3>1. fr.ch = Peek(rd)
            BY <1>1, <2>1 DEF scanned, At, Paced
        <3>2. ~Eof(rd) /\ ~isIdentExtend(fr.ch) /\ rd' = rd /\ fr'.pos = rd.pos
            BY <1>2, <1>5, <2>1 DEF scanned, Step, Return, Result
        <3>3. FirstRune(rd', fr') = Peek(rd)
            BY <1>1, <3>2, ReadsByte DEF FirstRune
        <3> QED
            BY <3>1, <3>2, <3>3
    <2>2. CASE trie
        <3>1. Handler(fr.ch) # "none" => Stub(Handler(fr.ch)) # "trie"
            BY HandlersFor DEF Stub
        <3>2. fr.pc = "trie" /\ rd' = Advance(rd) /\ fr' = walked
            BY <1>2, <1>5, <2>2, <3>1 DEF trie, At, Step, Return, Result, walked
        <3>3. rd' \in Onward
            BY <3>2 DEF Onward
        <3>4. fr'.pos = fr.pos /\ rd'.slice = rd.slice
            BY <1>1, <1>3, <3>2, <3>3, OnwardFacts
        <3> QED
            BY <1>5, <3>2, <3>4 DEF Worded, FirstRune
    <2> QED
        BY <2>1, <2>2
<1> QED
    BY <1>4, <1>5 DEF Worded

\* The handler of numbers keeps to what begins with a digit.
LEMMA NumbersWorded ==
    Known /\ (Counting \/ scanFloat \/ exponent) => Worded(rd', fr')
<1> SUFFICES ASSUME Known, Counting \/ scanFloat \/ exponent
             PROVE  Worded(rd', fr')
    OBVIOUS
<1>1. /\ rd'.slice = rd.slice /\ fr.pc \in Numeric
      /\ fr' = NoFrame \/ On(Counted, fr')
    BY NumbersStep DEF Known
<1>2. Handler(FirstRune(rd, fr)) = "number"
    <2>1. Stage(fr) = fr.pc
        BY <1>1, StagesApart DEF Stage
    <2> QED
        BY <1>1, <2>1, LedFacts DEF Known, Led
<1>3. CASE fr' = NoFrame
    BY <1>3, PlainlyWorded DEF NoFrame, Stage
<1>4. CASE On(Counted, fr')
    <2>1. FirstRune(rd', fr') = FirstRune(rd, fr)
        BY <1>1, <1>4 DEF On, FirstRune
    <2>2. fr'.pc # "trie"
        <3>1. "trie" \notin Counted
            BY SMT DEF Counted, Numeric
        <3> QED
            BY <1>4, <3>1 DEF On
    <2> QED
        BY <1>2, <2>1, <2>2 DEF Worded
<1> QED
    BY <1>1, <1>3, <1>4

\* Every step keeps what is known of the word.
LEMMA NextWorded ==
    Known /\ Worded(rd, fr) /\ (Scanning \/ Call) => Worded(rd', fr')
<1> SUFFICES ASSUME Known, Worded(rd, fr), Scanning \/ Call
             PROVE  Worded(rd', fr')
    OBVIOUS
<1>0. fr \in Frame /\ ScanInv /\ Paced(rd, fr)
    BY Found DEF Known
<1>1. CASE Call \/ scan
    <2>1. Stage(fr') \in {"scan", "scanned"} /\ fr'.pc # "trie"
        <3>1. CASE Call
            BY <3>1 DEF Call, Step, NoFrame, Stage
        <3>2. CASE scan
            BY <3>2 DEF scan, Step, Inc, Fresh, NoFrame, Stage
        <3> QED
            BY <1>1, <3>1, <3>2
    <2> QED
        BY <2>1, PlainlyWorded
<1>2. CASE scanned \/ trie
    BY <1>2, WalkWorded
<1>3. CASE incAsLongAs
    BY <1>3, WordGoesOn
<1>4. CASE Going
    <2>1. Keeps(Kin(fr.pc)) /\ fr.pc \in Steady
        BY <1>0, <1>4, GoingKeeps
    <2>2. CASE fr' = NoFrame
        BY <2>2, PlainlyWorded DEF NoFrame, Stage
    <2>3. CASE On(Kin(fr.pc), fr')
        <3>1. fr.pc \in Quoting \/ fr.pc \in Stringing
            BY <2>3, StagesApart DEF On, Kin
        <3>2. Stage(fr') \in Quoting \cup Stringing /\ fr'.pc \in Quoting \cup Stringing \cup {"inc"}
            BY <2>3, <3>1, KinFacts, StagesApart DEF On, Stage
        <3>3. /\ "trie" \notin Quoting \cup Stringing \cup {"inc"}
              /\ {"identEnd", "nnEnd"} \cap (Quoting \cup Stringing) = {}
            BY SMT DEF Quoting, Stringing
        <3> QED
            BY <3>2, <3>3, PlainlyWorded
    <2> QED
        BY <2>1, <2>2, <2>3 DEF Keeps
<1>5. CASE Counting \/ scanFloat \/ exponent
    BY <1>5, NumbersWorded
<1>6. CASE prefix /\ At("prefix")
    <2>1. fr' = Goto("ident") \/ fr' = Inc(fr, fr.pred, "prefixEnd")
        BY <1>6 DEF prefix, Step, At
    <2>2. fr'.pc # "trie" /\ Stage(fr') \in {"ident", "prefixEnd"}
        BY <1>0, <2>1 DEF Inc, Goto, Frame, Stage
    <2> QED
        BY <2>2, PlainlyWorded
<1>7. CASE Beginning
    BY <1>0, <1>7, BeginningStep, PlainlyWorded
<1>8. CASE (scanIdentifier /\ At("ident")) \/ (startWithNn /\ At("nn"))
    <2>1. rd' = rd /\ fr'.pos = rd.pos /\ fr'.pc = "inc" /\ rd.pos.offset = rd.index
        BY <1>0, <1>8, WordsStep, Found
    <2>2. fr'.pred = "identChar"
        <3>1. \A l, ret : Inc(Save(l), "identChar", ret).pred = "identChar"
            BY <1>0 DEF Inc, Save, Frame
        <3> QED
            BY <1>8, <3>1 DEF scanIdentifier, startWithNn, Step, At
    <2> QED
        BY <2>1, <2>2 DEF Worded
<1>9. CASE Commenting
    <2>1. Stage(fr') \in {"idle", "scan", "star2"} \cup Slashing /\ fr'.pc # "trie"
        BY <1>0, <1>9, CommentingStep DEF Slashing
    <2>2. {"identEnd", "nnEnd"} \cap ({"idle", "scan", "star2"} \cup Slashing) = {}
        BY SMT DEF Slashing
    <2> QED
        BY <2>1, <2>2, PlainlyWorded
<1>10. ~scanIdentifierOrString
    BY <1>0 DEF Paced, scanIdentifierOrString, At
<1> QED
    BY <1>1, <1>2, <1>3, <1>4, <1>5, <1>6, <1>7, <1>8, <1>9, <1>10
       DEF Scanning, Going, Counting, Beginning, Commenting

\* The handlers of the characters that a word begins with.
LEMMA WordHandlers ==
    ASSUME NEW c \in Nat, isIdentChar(c), ~isDigit(c)
    PROVE  /\ Handler(c) \in {"ident", "xx", "bb", "nn", "none"}
           /\ Handler(c) = "none" => isIdentExtend(c)
           /\ Handler(c) \in {"xx", "bb", "nn"} => c \in 1 .. 127 /\ c \in {120, 88, 98, 66, 110, 78}
<1>1. Handler(c) = "none" => isIdentExtend(c)
    BY SMT DEF Handler, isIdentChar, isLetter, Underscore
<1>2. Handler(c) \notin {"at", "slash", "star", "dash", "sharp", "dot", "quoted", "string"}
    <2>1. Handler(c) \in {"at", "slash", "star", "dash", "sharp", "dot", "quoted", "string"} =>
             c \in {64, Slash, Star, Minus, 35, Dot, Backquote, Quote, DQuote}
        BY Zenon DEF Handler
    <2>2. \A x \in {64, 47, 42, 45, 35, 46, 96, 39, 34} :
             ~isLetter(x) /\ ~isDigit(x) /\ x \notin {95, 36} /\ ~isIdentExtend(x)
        <3>1. \A x \in {64, 47, 42, 45, 35, 46, 96, 39, 34} : x \in 1 .. 127 /\ x \notin {95, 36}
            BY SMT
        <3>2. \A x \in {64, 47, 42, 45, 35, 46, 96, 39, 34} : ~isLetter(x)
            BY SMT DEF isLetter
        <3>3. \A x \in {64, 47, 42, 45, 35, 46, 96, 39, 34} : ~isDigit(x)
            BY SMT DEF isDigit
        <3> QED
            BY <3>1, <3>2, <3>3, AsciiIsNotExtended
    <2>3. c \notin {64, 47, 42, 45, 35, 46, 96, 39, 34}
        BY <2>2 DEF isIdentChar
    <2> QED
        BY <2>1, <2>3 DEF Slash, Star, Minus, Dot, Backquote, Quote, DQuote
<1>3. Handler(c) \in {"xx", "bb", "nn"} => c \in 1 .. 127 /\ c \in {120, 88, 98, 66, 110, 78}
    BY SMT DEF Handler
<1> QED
    BY <1>1, <1>2, <1>3, HandlersFor

\* WordsAreIdentifiers, of the token.
WordToken ==
    LET b == out.begin
    IN  /\ Returned /\ Clean(text) /\ b < Len(text)
        /\ isIdentChar(RuneAt(text, b)) /\ ~isDigit(text[b + 1])
        /\ ~Introduces(b, {120, 88, 98, 66, 110, 78})
        => /\ out.tok = tok_identifier
           /\ out.to = RunIn(text, b, IdentRunes)
           /\ out.lit = SubSeq(text, b + 1, out.to)

\* Where a word ends when its handler has found its end.
LEMMA RunEnded ==
    ASSUME NEW r, ReaderInv(r), Clean(r.slice), ~isIdentChar(Peek(r)) \/ is_errored(Peek(r))
    PROVE  RunIn(r.slice, r.index, IdentRunes) = r.index
<1> DEFINE s == r.slice
           M == IdentRunes
<1>1. s \in Seq(Byte) /\ r.index \in 0 .. Len(s) /\ Len(s) \in Nat
    BY ReaderFields, SMT DEF ReaderInv
<1>2. ASSUME r.index < Len(s)
      PROVE  RuneAt(s, r.index) \notin M
    <2>1. ~Eof(r)
        BY <1>1, <1>2, SMT DEF Eof
    <2>2. Peek(r) = RuneAt(s, r.index)
        BY <2>1, ReadsByte
    <2>3. ~is_errored(Peek(r))
        BY <1>1, <1>2, ErroredIsEof
    <2> QED
        BY <2>2, <2>3 DEF IdentRunes
<1> HIDE DEF s, M
<1>3. RunIn(s, r.index, M) = r.index
    BY <1>1, <1>2, RunEquation
<1> QED
    BY <1>3 DEF s, M

\* A word is returned by the handlers of words, as a whole.
LEMMA WordReturn ==
    ASSUME Known, Prefixed(rd, fr), Worded(rd, fr), Scanning \/ Call, fr'.pc = "idle"
    PROVE  WordToken'
<1> DEFINE s == rd.slice
           b == fr.pos.offset
           first == FirstRune(rd, fr)
           letters == {120, 88, 98, 66, 110, 78}
<1> SUFFICES ASSUME Clean(text'), out'.begin < Len(text'), isIdentChar(RuneAt(text', out'.begin)),
                    ~isDigit(text'[out'.begin + 1]),
                    ~Introduces(out.begin, {120, 88, 98, 66, 110, 78})'
             PROVE  /\ out'.tok = tok_identifier
                    /\ out'.to = RunIn(text', out'.begin, IdentRunes)
                    /\ out'.lit = SubSeq(text', out'.begin + 1, out'.to)
    BY DEF WordToken
<1>0. /\ ScanInv /\ Ahead(rd, fr) /\ Paced(rd, fr) /\ Led(rd, fr)
      /\ ReaderInv(rd) /\ ReaderInv(Peeked(rd)) /\ s \in Seq(Byte) /\ b \in Nat /\ fr \in Frame
      /\ rd.index \in 0 .. Len(s) /\ Len(s) \in Nat
    <2>1. ScanInv /\ Ahead(rd, fr) /\ Paced(rd, fr) /\ Led(rd, fr)
        BY DEF Known
    <2> QED
        BY <2>1, Found, ReaderFields, SMT DEF ReaderInv
<1>1. /\ fr.pc \in Ends /\ Stage(fr) = fr.pc
      /\ text' = s /\ out'.to = rd'.index /\ out'.begin = b /\ b < Len(s)
      /\ LedBy(fr.pc, Handler(first))
      /\ fr.pc = "trie" => Handler(first) = "none"
    BY <1>0, ReturnedLed DEF text
<1>2. ~(b + 1 < Len(s) /\ s[b + 1] \in letters /\ s[b + 2] = Quote)
    BY <1>1 DEF Introduces
<1>3. isIdentChar(first) /\ first \in Nat /\ (first \in 1 .. 127 => s[b + 1] = first)
    BY <1>0, <1>1, AsciiRunes DEF FirstRune
<1>4. ~isDigit(first)
    <2>1. isDigit(first) => first \in 1 .. 127
        BY <1>3, SMT DEF isDigit
    <2> QED
        BY <1>1, <1>3, <2>1
<1> HIDE DEF first
<1>5. /\ Handler(first) \in {"ident", "xx", "bb", "nn", "none"}
      /\ Handler(first) = "none" => isIdentExtend(first)
      /\ Handler(first) \in {"xx", "bb", "nn"} => s[b + 1] = first /\ first \in letters
    BY <1>3, <1>4, WordHandlers
<1>6. fr.pc \in {"identEnd", "nnEnd"}
    <2>1. fr.pc # "trie"
        BY <1>1, <1>5 DEF Worded, first
    <2>2. fr.pc # "prefixEnd"
        <3>1. fr.pc = "prefixEnd" => QuoteNext(rd, fr) /\ Handler(first) \in {"xx", "bb"}
            BY <1>1, LedFacts DEF Prefixed
        <3> QED
            BY <1>2, <1>5, <3>1 DEF QuoteNext
    <2>3. fr.pc \notin Numeric \cup Quoting \cup Stringing \cup Slashing \cup {"star2", "stub"}
        BY <1>1, <1>5, LedFacts
    <2> HIDE DEF s, b
    <2> QED
        BY <1>1, <2>1, <2>2, <2>3 DEF Ends, Steady, Quoting, Stringing, Slashing, PastFirst
<1>7. /\ RunIn(s, b, IdentRunes) = RunIn(s, rd.index, IdentRunes)
      /\ ~isIdentChar(Peek(rd)) \/ is_errored(Peek(rd))
    BY <1>1, <1>5, <1>6 DEF Worded, first
<1>8. RunIn(s, b, IdentRunes) = rd.index
    BY <1>0, <1>1, <1>7, RunEnded
<1>9. SUFFICES out'.tok = tok_identifier /\ out'.lit = SubSeq(s, b + 1, rd.index) /\ rd'.index = rd.index
    BY <1>1, <1>8
<1>10. scanIdentifier \/ startWithNn
    BY <1>6 DEF Scanning, Call, scan, scanned, trie, incAsLongAs, IncNext, IncErrored, IncStop,
        startWithStub, startWithSlash, scanVersionDigits, comment, startWithStar,
        startWithSharp, startWithXx, startWithBb, prefix,
        openQuotedIdent, scanQuotedIdent, startWithNumber, radixEnd, numberTail, scanFloat,
        exponent, startString, scanString, afterQuote, handleEscape, writeString,
        scanIdentifierOrString, At
<1>11. CASE fr.pc = "identEnd"
    <2>1. Return(rd, tok_identifier, fr.pos, Data(rd, fr.pos))
        BY <1>10, <1>11 DEF scanIdentifier, startWithNn, At
    <2> QED
        BY <2>1 DEF Return, Result, Data
<1>12. CASE fr.pc = "nnEnd"
    <2> DEFINE lit == Data(rd, fr.pos)
               alone == lit \in {<<78>>, <<110>>}
    <2>1. /\ lit = SubSeq(s, b + 1, rd.index)
          /\ Handler(first) = "nn"
        BY <1>1, <1>12, LedFacts DEF Data
    <2>2. ~(alone /\ Peek(rd) = Quote)
        <3> SUFFICES ASSUME alone, Peek(rd) = Quote
                     PROVE  FALSE
            OBVIOUS
        <3>1. Len(SubSeq(s, b + 1, rd.index)) = 1
            <4>1. Len(<<78>>) = 1 /\ Len(<<110>>) = 1
                BY SMT
            <4>2. Len(lit) = 1
                BY <4>1
            <4> HIDE DEF lit
            <4> QED
                BY <2>1, <4>2
        <3>2. rd.index = b + 1
            <4>1. b <= rd.index /\ rd.index \in Nat
                BY <1>0, Found
            <4>2. Len(SubSeq(s, b + 1, rd.index)) = rd.index - b
                BY <1>0, <4>1
            <4> QED
                BY <1>0, <3>1, <4>1, <4>2
        <3>3. Quote \in 1 .. 127 /\ Quote # rune_eof
            BY SMT DEF Quote, rune_eof
        <3>4. ~Eof(rd)
            BY <3>3 DEF Peek
        <3>5. rd.index < Len(s) /\ s[rd.index + 1] = Quote
            BY <1>0, <3>3, <3>4, ReadsByte
        <3>6. b + 1 + 1 = b + 2
            BY <1>0
        <3> QED
            BY <1>2, <1>5, <2>1, <3>2, <3>5, <3>6
    <2> HIDE DEF lit
    <2>3. \E r \in {rd, Peeked(rd)} : Return(r, tok_identifier, fr.pos, lit)
        BY <1>10, <1>12, <2>2 DEF scanIdentifier, startWithNn, At, lit
    <2>4. out'.tok = tok_identifier /\ out'.lit = lit /\ rd' \in {rd, Peeked(rd)}
        BY <2>3 DEF Return, Result
    <2>5. Peeked(rd).index = rd.index
        BY <1>0, PeekAgain
    <2> QED
        BY <2>1, <2>4, <2>5
<1> QED
    BY <1>6, <1>11, <1>12

\* A word is an identifier as a whole, in every statement of well-formed text, up
\* to the last character that may continue it: the handlers of x, b and n, which
\* have read their letter before they know that no literal follows, go back over
\* it or count it in.
THEOREM ScannerWordsAreIdentifiers == ScanSpec => []WordsAreIdentifiers
<1> DEFINE K == Prefixed(rd, fr) /\ Worded(rd, fr) /\ WordToken
<1>1. Init => K
    <2> SUFFICES ASSUME Init
                 PROVE  K
        OBVIOUS
    <2>1. fr.pc = "idle" /\ ~Returned
        BY DEF Init, NoFrame, Returned
    <2>2. Prefixed(rd, fr) /\ Worded(rd, fr)
        BY <2>1, PlainlyWorded DEF Stage, Prefixed
    <2> QED
        BY <2>1, <2>2 DEF WordToken
<1>2. Known /\ K /\ [Scanning \/ Call]_vars => K'
    <2>1. Known /\ K /\ (Scanning \/ Call) => Prefixed(rd, fr)' /\ Worded(rd, fr)'
        BY NextPrefixed, NextWorded
    <2>2. Known /\ K /\ (Scanning \/ Call) => WordToken'
        <3>1. fr'.pc # "idle" => WordToken'
            BY DEF WordToken, Returned, At
        <3> QED
            BY <3>1, WordReturn
    <2>3. UNCHANGED vars => UNCHANGED <<rd, fr, out>>
        BY DEF vars
    <2>4. Prefixed(rd, fr) /\ Worded(rd, fr) /\ UNCHANGED <<rd, fr, out>> => Prefixed(rd, fr)' /\ Worded(rd, fr)'
        OBVIOUS
    <2>5. WordToken /\ UNCHANGED <<rd, fr, out>> => WordToken'
        BY DEF WordToken, Returned, At, text, Introduces
    <2> QED
        BY <2>1, <2>2, <2>3, <2>4, <2>5
<1>3. Known /\ SkipsTrivia /\ K => WordsAreIdentifiers
    <2> DEFINE start == AfterTrivia(text, out.from, out.fromBang)[1]
    <2> SUFFICES ASSUME Known, SkipsTrivia, WordToken, Returned, Clean(text), start < Len(text),
                        isIdentChar(RuneAt(text, start)), ~isDigit(text[start + 1]),
                        ~Introduces(start, {120, 88, 98, 66, 110, 78})
                 PROVE  /\ out.tok = tok_identifier
                        /\ out.to = RunEnd(text, start, isIdentChar)
                        /\ out.lit = SubSeq(text, start + 1, out.to)
        BY DEF WordsAreIdentifiers
    <2>1. start = out.begin
        BY DEF SkipsTrivia
    <2>2. text \in Seq(Byte)
        BY Found, ReaderFields DEF ReaderInv, text, Known
    <2>3. RunEnd(text, start, isIdentChar) = RunIn(text, start, IdentRunes)
        BY <2>2, IdentRuns
    <2> HIDE DEF start
    <2> QED
        BY <2>1, <2>3 DEF WordToken
<1> QED
    BY <1>1, <1>2, <1>3, ScannerKnown, ScannerSkipsTrivia, PTL DEF ScanSpec
=============================================================================
