---------------------------- MODULE ReaderProofs ----------------------------
(***************************************************************************)
(* The safety properties of Reader for every set of texts.                 *)
(***************************************************************************)
EXTENDS MCReader, TextLaws

\* The inductive invariant: the reader's, and the types of the two results.
Inv == /\ ReaderInv(rd)
       /\ got \in Rune
       /\ ok \in BOOLEAN

\* A reader on any of the texts starts in the invariant.
LEMMA InvInit == Init => Inv
<1> SUFFICES ASSUME Init PROVE Inv
    OBVIOUS
<1>1. PICK t \in Texts : rd = NewReader(t)
    BY DEF Init
<1>2. t \in Seq(Byte)
    BY <1>1, TextsAssumption
<1>3. ReaderInv(rd)
    BY <1>1, <1>2, NewReaderInv
<1>4. got \in Rune /\ ok \in BOOLEAN
    BY RuneFacts DEF Init
<1> QED
    BY <1>3, <1>4 DEF Inv

\* Every method keeps the invariant.
LEMMA InvNext == Inv /\ [Next]_vars => Inv'
<1> SUFFICES ASSUME Inv, [Next]_vars
             PROVE  Inv'
    OBVIOUS
<1>1. ReaderInv(rd) /\ got \in Rune /\ ok \in BOOLEAN
    BY DEF Inv
<1>2. CASE NextRune
    <2>1. ReaderInv(rd')
        BY <1>1, <1>2, AdvanceInv DEF NextRune
    <2>2. got' \in Rune /\ ok' \in BOOLEAN
        BY <1>1, <1>2, PeekInRune DEF NextRune
    <2> QED
        BY <2>1, <2>2 DEF Inv
<1>3. CASE CurrRune
    <2>1. ReaderInv(rd')
        BY <1>1, <1>3, PeekedInv DEF CurrRune
    <2>2. got' \in Rune /\ ok' \in BOOLEAN
        BY <1>1, <1>3, PeekInRune DEF CurrRune
    <2> QED
        BY <2>1, <2>2 DEF Inv
<1>4. CASE PrevRune
    <2>1. CASE CanRetreat(rd)
        <3>1. rd' = Retreat(rd) /\ got' = RuneAt(rd.slice, rd'.index) /\ ok' = ok
            BY <1>4, <2>1 DEF PrevRune
        <3>2. ReaderInv(rd') /\ rd'.slice = rd.slice /\ rd'.index < rd.index
            BY <1>1, <2>1, <3>1, RetreatInv
        <3>3. /\ rd.slice \in Seq(Byte) /\ rd'.index \in Nat
              /\ rd.index \in Nat /\ rd.index <= Len(rd.slice) /\ Len(rd.slice) \in Nat
            BY <1>1, <3>2, ReaderFields DEF ReaderInv
        <3>4. rd'.index < Len(rd.slice)
            BY <3>2, <3>3, SMT
        <3>5. RuneAt(rd.slice, rd'.index) \in Rune
            BY <3>3, <3>4, RuneAtInRune
        <3> QED
            BY <1>1, <3>1, <3>2, <3>5 DEF Inv
    <2>2. CASE ~ CanRetreat(rd)
        BY <1>1, <1>4, <2>2, RuneFacts DEF PrevRune, Inv
    <2> QED
        BY <2>1, <2>2
<1>5. CASE MoveNext
    BY <1>1, <1>5, AdvanceMoveInv DEF MoveNext, Inv
<1>6. CASE MovePrev
    <2>1. ReaderInv(rd')
        BY <1>1, <1>6, RetreatInv DEF MovePrev
    <2>2. ok' \in BOOLEAN /\ got' = got
        <3>1. CanRetreat(rd) \in BOOLEAN
            BY DEF CanRetreat
        <3> QED
            BY <1>6, <3>1 DEF MovePrev
    <2> QED
        BY <1>1, <2>1, <2>2 DEF Inv
<1>7. ASSUME NEW i \in 0 .. Len(rd.slice) + 1, Seek(i)
      PROVE  Inv'
    <2>1. ReaderInv(rd')
        BY <1>1, <1>7, SeekToInv DEF Seek
    <2>2. ok' \in BOOLEAN /\ got' = got
        <3>1. SeekOk(rd, i) \in BOOLEAN
            BY DEF SeekOk
        <3> QED
            BY <1>7, <3>1 DEF Seek
    <2> QED
        BY <1>1, <2>1, <2>2 DEF Inv
<1>8. CASE UNCHANGED vars
    BY <1>1, <1>8 DEF vars, Inv
<1> QED
    BY <1>2, <1>3, <1>4, <1>5, <1>6, <1>7, <1>8 DEF Next

\* The invariant holds in every state of every behaviour, for all texts.
THEOREM ReaderInvariant == Spec => []Inv
<1>1. Init => Inv
    BY InvInit
<1>2. Inv /\ [Next]_vars => Inv'
    BY InvNext
<1> QED
    BY <1>1, <1>2, PTL DEF Spec

\* Type correctness: what peek, next and prev return is a rune, the index never
\* leaves the text and the recorded positions are offsets of it.
THEOREM ReaderTypeCorrect == Spec => []TypeOK
<1>1. Inv => TypeOK
    BY DEF Inv, ReaderInv, TypeOK
<1> QED
    BY <1>1, ReaderInvariant, PTL

\* Every offset that the index or the width stack can lead to has a recorded
\* position of its own: the std::map behind _idx2pos never default-constructs
\* one (reader.cc:42, :80, :91).
THEOREM ReaderRecordsPositions == Spec => []RecordedPos
<1>1. Inv => RecordedPos
    <2> SUFFICES ASSUME Inv PROVE RecordedPos
        OBVIOUS
    <2>1. rd.index \in DOMAIN rd.idx2pos /\ rd.pos = rd.idx2pos[rd.index]
        BY DEF Inv, ReaderInv
    <2>2. \A i \in DOMAIN rd.idx2pos : rd.idx2pos[i].offset = i
        BY DEF Inv, ReaderInv, Recorded
    <2>3. \A k \in DOMAIN rd.starts : rd.starts[k] \in DOMAIN rd.idx2pos
        BY DEF Inv, ReaderInv, Stacked
    <2> QED
        BY <2>1, <2>2, <2>3 DEF RecordedPos
<1> QED
    BY <1>1, ReaderInvariant, PTL

\* seek succeeds on exactly the positions handed out that are not ahead, also
\* when _idx2pos holds entries of runs ahead that were undone since.
THEOREM ReaderSeekExact == Spec => []SeekExact
<1>1. Inv => SeekExact
    <2> SUFFICES ASSUME Inv, NEW i \in 0 .. Len(rd.slice)
                 PROVE  SeekOk(rd, i) <=> /\ i \in DOMAIN rd.idx2pos
                                          /\ i <= rd.index
                                          /\ rd.slice = << >> \/ i < Len(rd.slice)
        BY DEF SeekExact
    <2> QED
        BY SeekOkExact DEF Inv
<1> QED
    BY <1>1, ReaderInvariant, PTL

\* The line reported is the number of newlines before the index in every text,
\* whichever mix of next, move_next, prev, move_prev and seek moved the reader.
THEOREM ReaderLineAccurate == Spec => []LineAccurate
<1>1. Inv => LineAccurate
    BY DEF Inv, ReaderInv, Recorded, NewlinesBefore, LineAccurate
<1> QED
    BY <1>1, ReaderInvariant, PTL

-----------------------------------------------------------------------------
(* Where runes begin. *)

\* The boundaries from an offset on are that offset and those from the next on.
LEMMA BoundariesEquation ==
    ASSUME NEW s \in Seq(Byte)
    PROVE  \A i \in 0 .. Len(s) :
               /\ BoundariesFrom(s, i) \in SUBSET Nat
               /\ BoundariesFrom(s, i) =
                    IF i = Len(s) THEN {i} ELSE {i} \cup BoundariesFrom(s, i + DecodeWidth(s, i))
<1> DEFINE D == 0 .. Len(s)
           V == SUBSET Nat
           rank == [i \in D |-> Len(s) - i]
           onward == [i \in D |-> IF i = Len(s) THEN i ELSE i + DecodeWidth(s, i)]
           Stop == {Len(s)}
           base == [i \in D |-> {i}]
           step == [i \in D |-> [S \in V |-> {i} \cup S]]
<1>1. Len(s) \in Nat
    BY LenProperties
<1>2. \A i \in D : i # Len(s) => /\ DecodeWidth(s, i) \in 1 .. 4
                                 /\ i + DecodeWidth(s, i) \in D
    BY <1>1, DecodeWidthBounds
<1>3. Descends(D, rank, Len(s), Stop, onward)
    <2>1. rank \in [D -> Nat] /\ \A i \in D : rank[i] <= Len(s)
        BY <1>1
    <2>2. onward \in [D -> D]
        BY <1>1, <1>2
    <2>3. \A i \in D : i \notin Stop => rank[onward[i]] < rank[i]
        <3> SUFFICES ASSUME NEW i \in D, i \notin Stop
                     PROVE  rank[onward[i]] < rank[i]
            OBVIOUS
        <3> DEFINE j == i + DecodeWidth(s, i)
        <3>1. onward[i] = j /\ i < j /\ j \in D /\ i \in Nat
            BY <1>1, <1>2
        <3> HIDE DEF j
        <3>2. rank[j] = Len(s) - j /\ rank[i] = Len(s) - i
            BY <3>1
        <3>3. j \in Nat
            BY <1>1, <3>1
        <3>4. Len(s) - j < Len(s) - i
            BY <1>1, <3>1, <3>3
        <3> QED
            BY <3>1, <3>2, <3>4
    <2> QED
        BY <2>1, <2>2, <2>3 DEF Descends
<1>4. base \in [D -> V] /\ step \in [D -> [V -> V]]
    <2>1. \A i \in D : {i} \in V /\ \A S \in V : {i} \cup S \in V
        BY <1>1
    <2> HIDE DEF D, V
    <2> QED
        BY <2>1
<1>5. PICK f \in [D -> V] : Recurses(f, D, Stop, onward, base, step)
    <2> DEFINE n == Len(s)
    <2>1. n \in Nat /\ Descends(D, rank, n, Stop, onward)
        BY <1>1, <1>3
    <2> HIDE DEF D, V, rank, onward, Stop, base, step, n
    <2> QED
        BY <1>4, <2>1, Recursion
<1>6. f = [i \in D |-> IF i = Len(s) THEN {i} ELSE {i} \cup f[i + DecodeWidth(s, i)]]
    BY <1>2, <1>5 DEF Recurses
<1> DEFINE Equation(from) ==
        from = [i \in D |-> IF i = Len(s) THEN {i} ELSE {i} \cup from[i + DecodeWidth(s, i)]]
           g == CHOOSE from : Equation(from)
<1>7. Equation(g)
    BY <1>6
<1>8. \A i : BoundariesFrom(s, i) = g[i]
    BY DEF BoundariesFrom
<1>9. g = [i \in D |-> IF i = Len(s) THEN {i} ELSE {i} \cup g[i + DecodeWidth(s, i)]]
    BY <1>7
<1> HIDE DEF g
<1>10. \A i \in D : g[i] = IF i = Len(s) THEN {i} ELSE {i} \cup g[i + DecodeWidth(s, i)]
    BY <1>9
<1>11. \A i \in D : g[i] \in SUBSET Nat
    <2> DEFINE T == {i \in D : g[i] \in SUBSET Nat}
    <2>1. ASSUME NEW i \in D, \A j \in D : i < j => j \in T
          PROVE  i \in T
        BY <1>1, <1>2, <1>10, <2>1
    <2> HIDE DEF T
    <2>2. D \subseteq T
        BY <1>1, <2>1, FromTheEnd
    <2> QED
        BY <2>2 DEF T
<1> QED
    BY <1>8, <1>10, <1>11

\* A boundary before the end of the text is followed by the one where its rune ends.
LEMMA BoundariesClosed ==
    ASSUME NEW s \in Seq(Byte)
    PROVE  \A i \in 0 .. Len(s) :
               /\ i \in BoundariesFrom(s, i)
               /\ \A d \in BoundariesFrom(s, i) :
                      d < Len(s) => d + DecodeWidth(s, d) \in BoundariesFrom(s, i)
<1> DEFINE D == 0 .. Len(s)
           Closed(i) == \A d \in BoundariesFrom(s, i) :
                            d < Len(s) => d + DecodeWidth(s, d) \in BoundariesFrom(s, i)
           T == {i \in D : Closed(i)}
<1>1. Len(s) \in Nat
    BY LenProperties
<1>2. \A i \in D : BoundariesFrom(s, i) =
                     IF i = Len(s) THEN {i} ELSE {i} \cup BoundariesFrom(s, i + DecodeWidth(s, i))
    BY BoundariesEquation
<1>3. \A i \in D : i # Len(s) => /\ i + DecodeWidth(s, i) \in D
                                 /\ i < i + DecodeWidth(s, i)
    BY <1>1, DecodeWidthBounds
<1>4. \A i \in D : i \in BoundariesFrom(s, i)
    BY <1>2
<1>5. ASSUME NEW i \in D, \A j \in D : i < j => j \in T
      PROVE  i \in T
    <2>1. CASE i = Len(s)
        <3>1. BoundariesFrom(s, i) = {i} /\ ~ (i < Len(s))
            BY <1>1, <1>2, <2>1
        <3> QED
            BY <3>1
    <2>2. CASE i # Len(s)
        <3> DEFINE next == i + DecodeWidth(s, i)
        <3>1. BoundariesFrom(s, i) = {i} \cup BoundariesFrom(s, next)
            BY <1>2, <2>2
        <3>2. next \in D /\ i < next
            BY <1>3, <2>2
        <3>3. next \in T /\ next \in BoundariesFrom(s, next)
            BY <1>4, <1>5, <3>2
        <3> SUFFICES ASSUME NEW d \in BoundariesFrom(s, i), d < Len(s)
                     PROVE  d + DecodeWidth(s, d) \in BoundariesFrom(s, i)
            OBVIOUS
        <3>4. CASE d = i
            BY <3>1, <3>3, <3>4
        <3>5. CASE d # i
            BY <3>1, <3>3, <3>5
        <3> QED
            BY <3>4, <3>5
    <2> QED
        BY <2>1, <2>2
<1> HIDE DEF T
<1>6. D \subseteq T
    BY <1>1, <1>5, FromTheEnd
<1> QED
    BY <1>4, <1>6 DEF T

\* What is recorded are boundaries.
OnBoundaries(r) == DOMAIN r.idx2pos \subseteq Boundaries(r.slice)

\* Consuming a rune records where it ends, which is a boundary since the rune
\* started at one.
LEMMA ForwardOnBoundaries ==
    ASSUME NEW r, ReaderInv(r), OnBoundaries(r), ~ Eof(r), NEW p, EndsRune(r, p)
    PROVE  OnBoundaries(Forward(r, p))
<1> DEFINE s == r.slice
           B == Boundaries(s)
<1>1. /\ s \in Seq(Byte) /\ Len(s) \in Nat /\ r.index \in Nat
      /\ r.index <= Len(s) /\ r.index \in DOMAIN r.idx2pos
    BY ReaderFields DEF ReaderInv
<1>2. r.index < Len(s)
    BY <1>1 DEF Eof
<1>3. r.index \in B
    BY <1>1 DEF OnBoundaries
<1>4. 0 \in 0 .. Len(s)
    BY <1>1
<1>5. r.index + DecodeWidth(s, r.index) \in B
    BY <1>1, <1>2, <1>3, <1>4, BoundariesClosed DEF Boundaries
<1>6. DOMAIN Forward(r, p).idx2pos = DOMAIN r.idx2pos \cup {p.offset}
    <2>1. Forward(r, p).idx2pos = Put(r.idx2pos, p.offset, p)
        BY ForwardInv
    <2>2. DOMAIN Put(r.idx2pos, p.offset, p) = DOMAIN r.idx2pos \cup {p.offset}
        BY Zenon DEF Put
    <2> QED
        BY <2>1, <2>2
<1>7. Forward(r, p).slice = s
    BY ForwardInv
<1> HIDE DEF s, B
<1> QED
    BY <1>5, <1>6, <1>7 DEF s, B, OnBoundaries, EndsRune

-----------------------------------------------------------------------------
(* The reader implements the rune cursor. *)

\* The runes from an offset on are the rune there and those from the next on.
LEMMA RunesEquation ==
    ASSUME NEW s \in Seq(Byte)
    PROVE  \A i \in 0 .. Len(s) :
               /\ RunesFrom(s, i) \in Seq(Rune)
               /\ i = Len(s) => RunesFrom(s, i) = << >>
               /\ i < Len(s) => RunesFrom(s, i) = <<RuneAt(s, i)>> \o RunesFrom(s, i + DecodeWidth(s, i))
<1> DEFINE D == 0 .. Len(s)
           V == Seq(Rune)
           rank == [i \in D |-> Len(s) - i]
           onward == [i \in D |-> IF i = Len(s) THEN i ELSE i + DecodeWidth(s, i)]
           Stop == {Len(s)}
           base == [i \in D |-> << >>]
           step == [i \in D |-> [r \in V |-> IF i = Len(s) THEN << >> ELSE <<RuneAt(s, i)>> \o r]]
<1>1. Len(s) \in Nat
    BY LenProperties
<1>2. \A i \in D : i # Len(s) => /\ DecodeWidth(s, i) \in 1 .. 4
                                 /\ i + DecodeWidth(s, i) \in D
    BY <1>1, DecodeWidthBounds
<1>3. Descends(D, rank, Len(s), Stop, onward)
    <2>1. rank \in [D -> Nat] /\ \A i \in D : rank[i] <= Len(s)
        BY <1>1
    <2>2. onward \in [D -> D]
        BY <1>1, <1>2
    <2>3. \A i \in D : i \notin Stop => rank[onward[i]] < rank[i]
        <3> SUFFICES ASSUME NEW i \in D, i \notin Stop
                     PROVE  rank[onward[i]] < rank[i]
            OBVIOUS
        <3> DEFINE j == i + DecodeWidth(s, i)
        <3>1. onward[i] = j /\ i < j /\ j \in D /\ i \in Nat
            BY <1>1, <1>2
        <3> HIDE DEF j
        <3>2. rank[j] = Len(s) - j /\ rank[i] = Len(s) - i
            BY <3>1
        <3>3. j \in Nat
            BY <1>1, <3>1
        <3>4. Len(s) - j < Len(s) - i
            BY <1>1, <3>1, <3>3
        <3> QED
            BY <3>1, <3>2, <3>4
    <2> QED
        BY <2>1, <2>2, <2>3 DEF Descends
<1>4. base \in [D -> V] /\ step \in [D -> [V -> V]]
    <2>1. << >> \in V
        BY EmptySeq
    <2>2. ASSUME NEW i \in D, NEW r \in V
          PROVE  (IF i = Len(s) THEN << >> ELSE <<RuneAt(s, i)>> \o r) \in V
        <3>1. CASE i = Len(s)
            BY <2>1, <3>1
        <3>2. CASE i # Len(s)
            <4>1. RuneAt(s, i) \in Rune
                BY <1>1, <3>2, RuneAtInRune
            <4>2. <<RuneAt(s, i)>> \in Seq(Rune)
                BY <4>1
            <4>3. <<RuneAt(s, i)>> \o r \in Seq(Rune)
                BY <4>2, ConcatProperties
            <4> QED
                BY <3>2, <4>3
        <3> QED
            BY <3>1, <3>2
    <2> HIDE DEF D, V
    <2> QED
        BY <2>1, <2>2
<1>5. PICK f \in [D -> V] : Recurses(f, D, Stop, onward, base, step)
    <2> DEFINE n == Len(s)
    <2>1. n \in Nat /\ Descends(D, rank, n, Stop, onward)
        BY <1>1, <1>3
    <2> HIDE DEF D, V, rank, onward, Stop, base, step, n
    <2> QED
        BY <1>4, <2>1, Recursion
<1> DEFINE Equation(runes) ==
        runes = [i \in D |-> IF i = Len(s) THEN << >>
                             ELSE <<RuneAt(s, i)>> \o runes[i + DecodeWidth(s, i)]]
           g == CHOOSE runes : Equation(runes)
<1>6. Equation(f)
    <2>1. f = [i \in D |-> f[i]]
        OBVIOUS
    <2>2. ASSUME NEW i \in D
          PROVE  f[i] = IF i = Len(s) THEN << >> ELSE <<RuneAt(s, i)>> \o f[i + DecodeWidth(s, i)]
        <3>1. CASE i = Len(s)
            BY <1>5, <3>1 DEF Recurses
        <3>2. CASE i # Len(s)
            <4>1. f[i] = step[i][f[onward[i]]] /\ onward[i] = i + DecodeWidth(s, i) /\ onward[i] \in D
                BY <1>2, <1>5, <3>2 DEF Recurses
            <4>2. f[onward[i]] \in V
                BY <4>1
            <4> QED
                BY <3>2, <4>1, <4>2
        <3> QED
            BY <3>1, <3>2
    <2> QED
        BY <2>1, <2>2, Zenon
<1>7. Equation(g)
    BY <1>6
<1>8. \A i : RunesFrom(s, i) = g[i]
    BY DEF RunesFrom
<1>9. g = [i \in D |-> IF i = Len(s) THEN << >> ELSE <<RuneAt(s, i)>> \o g[i + DecodeWidth(s, i)]]
    BY <1>7
<1> HIDE DEF g
<1>10. \A i \in D : g[i] = IF i = Len(s) THEN << >> ELSE <<RuneAt(s, i)>> \o g[i + DecodeWidth(s, i)]
    BY <1>9
<1>11. \A i \in D : g[i] \in Seq(Rune)
    <2> DEFINE T == {i \in D : g[i] \in Seq(Rune)}
    <2>1. ASSUME NEW i \in D, \A j \in D : i < j => j \in T
          PROVE  i \in T
        <3>1. CASE i = Len(s)
            BY <1>10, <3>1, EmptySeq
        <3>2. CASE i # Len(s)
            <4> DEFINE next == i + DecodeWidth(s, i)
                       one == <<RuneAt(s, i)>>
            <4>1. next \in D /\ i < next
                <5>1. DecodeWidth(s, i) \in 1 .. 4 /\ next \in D
                    BY <1>2, <3>2
                <5>2. i < next
                    BY <1>1, <5>1
                <5> QED
                    BY <5>1, <5>2
            <4>2. one \in Seq(Rune)
                BY <1>1, <3>2, RuneAtInRune
            <4>3. g[i] = one \o g[next]
                BY <1>10, <3>2
            <4> HIDE DEF D, next, one
            <4>4. g[next] \in Seq(Rune)
                BY <2>1, <4>1
            <4>5. one \o g[next] \in Seq(Rune)
                BY <4>2, <4>4, ConcatProperties
            <4> QED
                BY <4>3, <4>5
        <3> QED
            BY <3>1, <3>2
    <2> HIDE DEF T
    <2>2. D \subseteq T
        BY <1>1, <2>1, FromTheEnd
    <2> QED
        BY <2>2 DEF T
<1>12. \A i \in D : /\ i = Len(s) => g[i] = << >>
                    /\ i < Len(s) => g[i] = <<RuneAt(s, i)>> \o g[i + DecodeWidth(s, i)]
    <2>1. \A i \in D : i < Len(s) => i # Len(s)
        BY <1>1
    <2> HIDE DEF D
    <2> QED
        BY <1>10, <2>1
<1> QED
    BY <1>8, <1>11, <1>12

\* How many runes there are before an offset.
Place(s, d) == Len(RunesFrom(s, 0)) - Len(RunesFrom(s, d))

\* The rune at an offset, pointwise.
LEMMA RuneByRune ==
    ASSUME NEW s \in Seq(Byte), NEW i \in 0 .. Len(s), i < Len(s)
    PROVE  LET next == i + DecodeWidth(s, i)
           IN  /\ next \in 0 .. Len(s) /\ i < next
               /\ Len(RunesFrom(s, i)) \in Nat /\ Len(RunesFrom(s, next)) \in Nat
               /\ Len(RunesFrom(s, i)) = Len(RunesFrom(s, next)) + 1
               /\ RunesFrom(s, i)[1] = RuneAt(s, i)
               /\ \A k \in 1 .. Len(RunesFrom(s, next)) : RunesFrom(s, next)[k] = RunesFrom(s, i)[k + 1]
<1> DEFINE next == i + DecodeWidth(s, i)
           rest == RunesFrom(s, next)
           one == <<RuneAt(s, i)>>
<1>1. Len(s) \in Nat /\ next \in 0 .. Len(s) /\ i < next
    BY LenProperties, DecodeWidthBounds
<1>2. rest \in Seq(Rune) /\ RunesFrom(s, i) = one \o rest
    BY <1>1, RunesEquation
<1>3. one \in Seq(Rune) /\ Len(one) = 1 /\ one[1] = RuneAt(s, i)
    BY RuneAtInRune
<1>4. Len(rest) \in Nat
    BY <1>2, LenProperties
<1> HIDE DEF one, rest, next
<1>5. /\ Len(one \o rest) = 1 + Len(rest)
      /\ \A k \in 1 .. 1 + Len(rest) : (one \o rest)[k] = IF k <= 1 THEN one[k] ELSE rest[k - 1]
    <2>1. one \in Seq(Rune) /\ rest \in Seq(Rune)
        BY <1>2, <1>3
    <2>2. /\ Len(one \o rest) = Len(one) + Len(rest)
          /\ \A k \in 1 .. Len(one) + Len(rest) :
                 (one \o rest)[k] = IF k <= Len(one) THEN one[k] ELSE rest[k - Len(one)]
        BY ONLY <2>1, ConcatProperties
    <2> QED
        BY <1>3, <2>2
<1>6. (one \o rest)[1] = RuneAt(s, i)
    BY <1>3, <1>4, <1>5
<1>7. \A k \in 1 .. Len(rest) : (one \o rest)[k + 1] = rest[k]
    <2> SUFFICES ASSUME NEW k \in 1 .. Len(rest)
                 PROVE  (one \o rest)[k + 1] = rest[k]
        OBVIOUS
    <2>1. k + 1 \in 1 .. 1 + Len(rest) /\ ~(k + 1 <= 1) /\ (k + 1) - 1 = k
        BY <1>4
    <2> QED
        BY <1>5, <2>1
<1>8. Len(RunesFrom(s, i)) = Len(rest) + 1 /\ Len(RunesFrom(s, i)) \in Nat
    BY <1>2, <1>4, <1>5
<1> QED
    BY <1>1, <1>2, <1>4, <1>6, <1>7, <1>8 DEF rest, next

\* The runes from a boundary on are the last ones of the text.
Ends(s, d) ==
    LET all == RunesFrom(s, 0)
        rest == RunesFrom(s, d)
    IN  /\ Len(rest) <= Len(all)
        /\ \A k \in 1 .. Len(rest) : rest[k] = all[Len(all) - Len(rest) + k]

\* What holds of the start, and of the next boundary if of one, holds of all.
LEMMA OverBoundaries ==
    ASSUME NEW s \in Seq(Byte), NEW T, 0 \in T,
           \A d \in 0 .. Len(s) : d \in T /\ d < Len(s) => d + DecodeWidth(s, d) \in T
    PROVE  Boundaries(s) \subseteq T /\ Boundaries(s) \subseteq 0 .. Len(s)
<1> DEFINE D == 0 .. Len(s)
           Within(i) == BoundariesFrom(s, i) \subseteq D /\ (i \in T => BoundariesFrom(s, i) \subseteq T)
           U == {i \in D : Within(i)}
<1>1. Len(s) \in Nat
    BY LenProperties
<1>2. \A i \in D : BoundariesFrom(s, i) =
                     IF i = Len(s) THEN {i} ELSE {i} \cup BoundariesFrom(s, i + DecodeWidth(s, i))
    BY BoundariesEquation
<1>3. ASSUME NEW i \in D, \A j \in D : i < j => j \in U
      PROVE  i \in U
    <2>1. CASE i = Len(s)
        BY <1>2, <2>1
    <2>2. CASE i # Len(s)
        <3> DEFINE next == i + DecodeWidth(s, i)
        <3>1. BoundariesFrom(s, i) = {i} \cup BoundariesFrom(s, next)
            BY <1>2, <2>2
        <3>2. i < Len(s)
            BY <1>1, <2>2
        <3>3. next \in D /\ i < next
            BY <1>1, <3>2, DecodeWidthBounds
        <3>4. next \in U
            BY <1>3, <3>3
        <3>5. i \in T => next \in T
            BY <3>2
        <3> HIDE DEF next, D
        <3> QED
            BY <3>1, <3>4, <3>5
    <2> QED
        BY <2>1, <2>2
<1> HIDE DEF U
<1>4. D \subseteq U
    BY <1>1, <1>3, FromTheEnd
<1>5. 0 \in U
    BY <1>1, <1>4
<1> QED
    BY <1>5 DEF U, Boundaries

\* The runes of the text, parted at a boundary.
LEMMA EndsAtBoundaries ==
    ASSUME NEW s \in Seq(Byte), NEW d \in Boundaries(s)
    PROVE  Ends(s, d) /\ d \in 0 .. Len(s)
<1> DEFINE T == {i \in 0 .. Len(s) : Ends(s, i)}
           all == RunesFrom(s, 0)
<1>1. Len(s) \in Nat /\ 0 \in 0 .. Len(s)
    BY LenProperties
<1>2. all \in Seq(Rune) /\ Len(all) \in Nat
    BY <1>1, RunesEquation, LenProperties
<1>3. 0 \in T
    BY <1>1, <1>2 DEF Ends
<1>4. ASSUME NEW i \in 0 .. Len(s), i \in T, i < Len(s)
      PROVE  i + DecodeWidth(s, i) \in T
    <2> DEFINE next == i + DecodeWidth(s, i)
               here == RunesFrom(s, i)
               rest == RunesFrom(s, next)
    <2>1. /\ next \in 0 .. Len(s)
          /\ Len(here) \in Nat /\ Len(rest) \in Nat /\ Len(here) = Len(rest) + 1
          /\ \A k \in 1 .. Len(rest) : rest[k] = here[k + 1]
        BY <1>4, RuneByRune
    <2>2. /\ Len(here) <= Len(all)
          /\ \A k \in 1 .. Len(here) : here[k] = all[Len(all) - Len(here) + k]
        BY <1>4 DEF Ends
    <2> HIDE DEF next, here, rest, all
    <2>3. Len(rest) <= Len(all)
        BY <1>2, <2>1, <2>2
    <2>4. ASSUME NEW k \in 1 .. Len(rest)
          PROVE  rest[k] = all[Len(all) - Len(rest) + k]
        <3>1. k + 1 \in 1 .. Len(here) /\ Len(all) - Len(here) + (k + 1) = Len(all) - Len(rest) + k
            BY <1>2, <2>1
        <3> QED
            BY <2>1, <2>2, <3>1
    <2>5. Ends(s, next)
        BY <2>3, <2>4 DEF Ends, rest, all
    <2> QED
        BY <2>1, <2>5 DEF next
<1> HIDE DEF T
<1>5. Boundaries(s) \subseteq T
    BY <1>3, <1>4, OverBoundaries
<1> QED
    BY <1>5 DEF T

\* The cursor at a boundary stands between the runes before and behind it.
LEMMA CursorStands ==
    ASSUME NEW s \in Seq(Byte), NEW d \in Boundaries(s)
    PROVE  LET all == RunesFrom(s, 0)
               left == RunesBefore(s, d)
               right == RunesFrom(s, d)
           IN  /\ Place(s, d) \in 0 .. Len(all) /\ Len(all) \in Nat
               /\ left \o right = all
               /\ Len(left) = Place(s, d)
               /\ left = SubSeq(all, 1, Place(s, d))
               /\ right = SubSeq(all, Place(s, d) + 1, Len(all))
               /\ \A k \in 1 .. Len(left) : left[k] = all[k]
<1> DEFINE all == RunesFrom(s, 0)
           right == RunesFrom(s, d)
           n == Len(all)
           p == Place(s, d)
<1>1. d \in 0 .. Len(s) /\ 0 \in 0 .. Len(s) /\ Ends(s, d)
    BY EndsAtBoundaries, LenProperties
<1>2. all \in Seq(Rune) /\ right \in Seq(Rune)
    BY <1>1, RunesEquation
<1>3. n \in Nat /\ Len(right) \in Nat /\ p = n - Len(right)
    BY <1>2, LenProperties DEF Place
<1>4. Len(right) <= n /\ \A k \in 1 .. Len(right) : right[k] = all[n - Len(right) + k]
    BY <1>1 DEF Ends
<1>5. RunesBefore(s, d) = SubSeq(all, 1, p)
    BY DEF RunesBefore, Place
<1> HIDE DEF all, right, p
<1>6. p \in 0 .. n
    BY <1>3, <1>4
<1>7. \A k \in 1 .. n : all[k] \in Rune
    BY <1>2, ElementOfSeq
<1>8. /\ SubSeq(all, 1, p) \in Seq(Rune) /\ Len(SubSeq(all, 1, p)) = p
      /\ \A k \in 1 .. p : SubSeq(all, 1, p)[k] = all[k]
    <2>1. \A k \in 1 .. p : all[k] \in Rune
        BY <1>3, <1>6, <1>7
    <2>2. /\ SubSeq(all, 1, p) \in Seq(Rune)
          /\ Len(SubSeq(all, 1, p)) = IF 1 <= p THEN p - 1 + 1 ELSE 0
          /\ \A k \in 1 .. p - 1 + 1 : SubSeq(all, 1, p)[k] = all[1 + k - 1]
        <3>1. 1 \in Int /\ p \in Int
            BY <1>6
        <3> QED
            BY <2>1, <3>1, SubSeqProperties
    <2> QED
        BY <1>6, <2>2
<1>9. right = SubSeq(all, p + 1, n)
    <2> DEFINE tail == SubSeq(all, p + 1, n)
    <2>1. \A k \in p + 1 .. n : all[k] \in Rune
        BY <1>3, <1>6, <1>7
    <2>2. /\ tail \in Seq(Rune)
          /\ Len(tail) = IF p + 1 <= n THEN n - (p + 1) + 1 ELSE 0
          /\ \A k \in 1 .. n - (p + 1) + 1 : tail[k] = all[p + 1 + k - 1]
        <3>1. p + 1 \in Int /\ n \in Int
            BY <1>3, <1>6
        <3> QED
            BY <2>1, <3>1, SubSeqProperties
    <2> HIDE DEF tail
    <2>3. Len(tail) = Len(right)
        BY <1>3, <1>6, <2>2
    <2>4. \A k \in 1 .. Len(right) : right[k] = tail[k]
        <3> SUFFICES ASSUME NEW k \in 1 .. Len(right)
                     PROVE  right[k] = tail[k]
            OBVIOUS
        <3>1. k \in 1 .. n - (p + 1) + 1 /\ p + 1 + k - 1 = n - Len(right) + k
            BY <1>3, <1>6
        <3>2. tail[k] = all[p + 1 + k - 1]
            BY <2>2, <3>1
        <3> QED
            BY <1>4, <3>1, <3>2
    <2>5. right = tail
        BY <1>2, <2>2, <2>3, <2>4, SeqEqual
    <2> QED
        BY <2>5 DEF tail
<1>10. SubSeq(all, 1, p) \o right = all
    <2>1. 1 \in 1 .. n + 1 /\ p \in 1 - 1 .. n /\ n \in p .. n
        BY <1>3, <1>6
    <2>2. SubSeq(all, 1, p) \o SubSeq(all, p + 1, n) = SubSeq(all, 1, n)
        BY <1>2, <2>1, ConcatAdjacentSubSeq
    <2> QED
        BY <1>2, <1>9, <2>2, SubSeqFull
<1> QED
    BY <1>3, <1>5, <1>6, <1>8, <1>9, <1>10 DEF all, right, p

-----------------------------------------------------------------------------
(* Each method moves the cursor. *)

\* Where the reader stands: on a boundary that is recorded, as is the start.
Stands(r) == /\ ReaderInv(r)
             /\ OnBoundaries(r)
             /\ 0 \in DOMAIN r.idx2pos

\* Of two recorded offsets the later has no fewer runes before it.
LEMMA PlaceGrows ==
    ASSUME NEW r, Stands(r), NEW i \in DOMAIN r.idx2pos, NEW j \in DOMAIN r.idx2pos, i <= j
    PROVE  Place(r.slice, i) <= Place(r.slice, j)
<1> DEFINE s == r.slice
           D == DOMAIN r.idx2pos
           rest(d) == Len(RunesFrom(s, d))
           T == {d \in 0 .. Len(s) : d \in D /\ d <= j => rest(j) <= rest(d)}
<1>1. /\ s \in Seq(Byte) /\ Len(s) \in Nat /\ D \subseteq 0 .. Len(s)
      /\ Chain(s, D)
    BY ReaderFields DEF Stands, ReaderInv, ReaderOK
<1>2. \A d \in 0 .. Len(s) : rest(d) \in Nat
    BY <1>1, RunesEquation, LenProperties
<1>3. ASSUME NEW d \in 0 .. Len(s), \A e \in 0 .. Len(s) : d < e => e \in T
      PROVE  d \in T
    <2> SUFFICES ASSUME d \in D, d <= j
                 PROVE  rest(j) <= rest(d)
        OBVIOUS
    <2>1. d \in Int /\ j \in 0 .. Len(s)
        BY <1>1
    <2>2. CASE d = j
        BY <1>2, <2>1, <2>2
    <2>3. CASE d # j
        <3> DEFINE next == d + DecodeWidth(s, d)
        <3>1. d < j /\ d < Len(s)
            BY <1>1, <2>1, <2>3
        <3>2. next \in D /\ next <= j
            BY <1>1, <3>1 DEF Chain
        <3>3. next \in 0 .. Len(s) /\ d < next /\ rest(d) = rest(next) + 1
            BY <1>1, <3>1, RuneByRune
        <3> HIDE DEF next
        <3>4. next \in T
            BY <1>3, <3>3
        <3>5. rest(j) <= rest(next)
            BY <3>2, <3>4
        <3> QED
            BY <1>2, <2>1, <3>3, <3>5
    <2> QED
        BY <2>2, <2>3
<1> HIDE DEF T
<1>4. 0 .. Len(s) \subseteq T
    BY <1>1, <1>3, FromTheEnd
<1>5. i \in T /\ 0 \in 0 .. Len(s) /\ j \in 0 .. Len(s) /\ i \in 0 .. Len(s)
    BY <1>1, <1>4
<1>6. rest(j) <= rest(i)
    BY <1>5 DEF T
<1>7. rest(i) \in Nat /\ rest(j) \in Nat /\ rest(0) \in Nat
    BY <1>2, <1>5
<1> HIDE DEF rest
<1>8. rest(0) - rest(i) <= rest(0) - rest(j)
    BY <1>6, <1>7
<1> QED
    BY <1>8 DEF Place, rest

\* The rune before an offset is the last of those before its end.
LEMMA OneRune ==
    ASSUME NEW r, Stands(r), NEW i \in DOMAIN r.idx2pos, i < Len(r.slice),
           NEW j \in Boundaries(r.slice), j = i + DecodeWidth(r.slice, i)
    PROVE  LET s == r.slice
           IN  /\ Place(s, j) = Place(s, i) + 1
               /\ RunesFrom(s, i) # << >>
               /\ Head(RunesFrom(s, i)) = RuneAt(s, i)
               /\ RunesBefore(s, j) # << >>
               /\ RunesBefore(s, j)[Place(s, j)] = RuneAt(s, i)
<1> DEFINE s == r.slice
           all == RunesFrom(s, 0)
           here == RunesFrom(s, i)
           rest == RunesFrom(s, j)
           left == RunesBefore(s, j)
           p == Place(s, i)
           q == Place(s, j)
<1>1. /\ s \in Seq(Byte) /\ Len(s) \in Nat /\ i \in 0 .. Len(s)
      /\ i \in Boundaries(s) /\ j \in Boundaries(s)
    BY ReaderFields DEF Stands, ReaderInv, ReaderOK, OnBoundaries
<1>2. /\ Len(here) \in Nat /\ Len(rest) \in Nat /\ Len(here) = Len(rest) + 1
      /\ here[1] = RuneAt(s, i)
    BY <1>1, RuneByRune
<1>3. here \in Seq(Rune)
    BY <1>1, RunesEquation
<1>4. /\ p = Len(all) - Len(here) /\ q = Len(all) - Len(rest)
    BY DEF Place
<1>5. /\ q \in 0 .. Len(all) /\ p \in 0 .. Len(all) /\ Len(all) \in Nat
      /\ Len(left) = q
      /\ \A k \in 1 .. Len(left) : left[k] = all[k]
    BY <1>1, CursorStands
<1>6. \A k \in 1 .. Len(here) : here[k] = all[Len(all) - Len(here) + k]
    BY <1>1, EndsAtBoundaries DEF Ends
<1> HIDE DEF s, all, here, rest, left, p, q
<1>7. q = p + 1
    BY <1>2, <1>4, <1>5
<1>8. here # << >> /\ Head(here) = here[1]
    BY <1>2, <1>3
<1>9. here[1] = all[q]
    <2>1. 1 \in 1 .. Len(here) /\ Len(all) - Len(here) + 1 = q
        BY <1>2, <1>4, <1>5, <1>7
    <2> QED
        BY <1>6, <2>1
<1>10. left[q] = all[q]
    <2>1. q \in 1 .. Len(left)
        BY <1>5, <1>7
    <2> QED
        BY <1>5, <2>1
<1>11. left # << >>
    <2>1. Len(left) # 0
        BY <1>5, <1>7
    <2> QED
        BY <2>1
<1> QED
    BY <1>2, <1>7, <1>8, <1>9, <1>10, <1>11 DEF s, here, left, p, q

\* Popping one width leads back over one rune.
LEMMA RetreatIsOneRune ==
    ASSUME NEW r, Stands(r), CanRetreat(r)
    PROVE  LET back == Retreat(r).index
           IN  /\ back \in DOMAIN r.idx2pos /\ back < Len(r.slice)
               /\ r.index = back + DecodeWidth(r.slice, back)
<1> DEFINE n == Len(r.starts)
           back == r.starts[n]
           D == DOMAIN r.idx2pos
           next == back + DecodeWidth(r.slice, back)
<1>1. /\ r.starts \in Seq(Nat) /\ r.starts # << >>
      /\ r.slice \in Seq(Byte) /\ r.index \in Nat /\ r.index <= Len(r.slice) /\ Len(r.slice) \in Nat
      /\ r.index \in D /\ D \subseteq 0 .. Len(r.slice)
      /\ Chain(r.slice, D) /\ Stacked(D, r.index, r.starts)
    BY ReaderFields DEF Stands, ReaderInv, ReaderOK, CanRetreat
<1>2. n \in DOMAIN r.starts /\ n \in Nat /\ DOMAIN r.starts = 1 .. n
    BY <1>1, SMT
<1>3. Retreat(r).index = back
    <2>1. Retreat(r) = Back(r, n)
        BY DEF Retreat, Back, Last, Front
    <2> QED
        BY <1>2, <2>1, BackInv DEF Stands
<1>4. back \in D /\ back < r.index
    BY <1>1, <1>2 DEF Stacked
<1>5. next \in D /\ next <= r.index
    BY <1>1, <1>4 DEF Chain
<1>6. back < next /\ back < Len(r.slice)
    <2>1. back \in Nat /\ back < Len(r.slice)
        BY <1>1, <1>4
    <2>2. DecodeWidth(r.slice, back) \in 1 .. 4
        BY <1>1, <2>1, DecodeWidthBounds
    <2> QED
        BY <2>1, <2>2
<1> HIDE DEF next, back, n
<1>7. ~ (next < r.index)
    <2> SUFFICES ASSUME next < r.index PROVE FALSE
        OBVIOUS
    <2>1. PICK k \in DOMAIN r.starts : r.starts[k] = next
        BY <1>1, <1>5 DEF Stacked
    <2>2. k = n \/ k < n
        BY <1>2
    <2>3. k < n => r.starts[k] < back
        BY <1>1, <1>2 DEF Stacked, back
    <2>4. k = n => next = back
        BY <2>1 DEF back
    <2>5. back \in Nat /\ next \in Nat
        BY <1>1, <1>4, <1>5
    <2> QED
        BY <1>6, <2>1, <2>2, <2>3, <2>4, <2>5
<1>8. r.index = next
    BY <1>1, <1>5, <1>7
<1> QED
    BY <1>3, <1>4, <1>6, <1>8 DEF next

\* Consuming a rune: the reader stands where it ends.
LEMMA ForwardStands ==
    ASSUME NEW r, Stands(r), ~ Eof(r), NEW p, EndsRune(r, p)
    PROVE  /\ Stands(Forward(r, p))
           /\ Forward(r, p).slice = r.slice
           /\ Forward(r, p).index = r.index + DecodeWidth(r.slice, r.index)
<1>1. ReaderInv(r) /\ OnBoundaries(r) /\ 0 \in DOMAIN r.idx2pos
    BY DEF Stands
<1>2. /\ ReaderInv(Forward(r, p)) /\ Forward(r, p).slice = r.slice
      /\ Forward(r, p).index = p.offset
      /\ Forward(r, p).idx2pos = Put(r.idx2pos, p.offset, p)
    BY <1>1, ForwardInv
<1>3. OnBoundaries(Forward(r, p))
    BY <1>1, ForwardOnBoundaries
<1>4. 0 \in DOMAIN Put(r.idx2pos, p.offset, p)
    BY <1>1, Zenon DEF Put
<1> QED
    BY <1>2, <1>3, <1>4 DEF Stands, EndsRune

\* Every method but next and move_next records nothing.
LEMMA KeepsStanding ==
    ASSUME NEW r, Stands(r), NEW new, ReaderInv(new), new.slice = r.slice, new.idx2pos = r.idx2pos
    PROVE  Stands(new)
BY DEF Stands, OnBoundaries

\* Next and move_next both end a rune or stay at the end of the text.
LEMMA AdvanceStands ==
    ASSUME NEW r, Stands(r), NEW new, new \in {Advance(r), AdvanceMove(r)}
    PROVE  /\ Stands(new) /\ new.slice = r.slice
           /\ Eof(r) => new = r
           /\ ~ Eof(r) => new.index = r.index + DecodeWidth(r.slice, r.index)
<1>1. ReaderInv(r)
    BY DEF Stands
<1>2. CASE Eof(r)
    <2>1. new = r
        BY <1>2 DEF Advance, AdvanceMove
    <2> QED
        BY <1>2, <2>1
<1>3. CASE ~ Eof(r)
    <2>1. EndsRune(r, PosAfterNext(r)) /\ EndsRune(r, PosAfterMove(r))
        BY <1>1, <1>3, PosAfterEndsRune
    <2>2. new = Forward(r, PosAfterNext(r)) \/ new = Forward(r, PosAfterMove(r))
        BY <1>3 DEF Advance, AdvanceMove
    <2>3. CASE new = Forward(r, PosAfterNext(r))
        BY <1>3, <2>1, <2>3, ForwardStands
    <2>4. CASE new = Forward(r, PosAfterMove(r))
        BY <1>3, <2>1, <2>4, ForwardStands
    <2> QED
        BY <2>2, <2>3, <2>4
<1> QED
    BY <1>2, <1>3

\* The reader starts and stays standing on a recorded boundary.
LEMMA StandsInit == Init => Stands(rd)
<1> SUFFICES ASSUME Init PROVE Stands(rd)
    OBVIOUS
<1>1. PICK t \in Texts : rd = NewReader(t)
    BY DEF Init
<1>2. t \in Seq(Byte) /\ Len(t) \in Nat /\ 0 \in 0 .. Len(t)
    BY <1>1, TextsAssumption, LenProperties
<1>3. rd.slice = t /\ DOMAIN rd.idx2pos = {0}
    BY <1>1 DEF NewReader
<1>4. 0 \in Boundaries(t)
    BY <1>2, BoundariesClosed DEF Boundaries
<1>5. ReaderInv(rd)
    BY InvInit DEF Inv
<1> QED
    BY <1>3, <1>4, <1>5 DEF Stands, OnBoundaries

\* What each method leaves behind: a standing reader on the same text.
LEMMA StandsNext == Stands(rd) /\ [Next]_vars => Stands(rd') /\ rd'.slice = rd.slice
<1> SUFFICES ASSUME Stands(rd), [Next]_vars
             PROVE  Stands(rd') /\ rd'.slice = rd.slice
    OBVIOUS
<1>1. ReaderInv(rd)
    BY DEF Stands
<1>2. CASE NextRune
    BY <1>2, AdvanceStands DEF NextRune
<1>3. CASE CurrRune
    <2>1. rd' = Peeked(rd)
        BY <1>3 DEF CurrRune
    <2> QED
        BY <1>1, <2>1, PeekedInv, KeepsStanding
<1>4. CASE PrevRune \/ MovePrev
    <2>1. rd' = rd \/ (CanRetreat(rd) /\ rd' = Retreat(rd))
        BY <1>4 DEF PrevRune, MovePrev
    <2>2. CASE CanRetreat(rd) /\ rd' = Retreat(rd)
        BY <1>1, <2>2, RetreatInv, KeepsStanding
    <2> QED
        BY <2>1, <2>2
<1>5. CASE MoveNext
    BY <1>5, AdvanceStands DEF MoveNext
<1>6. ASSUME NEW i \in 0 .. Len(rd.slice) + 1, Seek(i)
      PROVE  Stands(rd') /\ rd'.slice = rd.slice
    <2>1. rd' = rd \/ (SeekOk(rd, i) /\ rd' = SeekTo(rd, i))
        BY <1>6 DEF Seek
    <2>2. CASE SeekOk(rd, i) /\ rd' = SeekTo(rd, i)
        BY <1>1, <2>2, SeekToInv, KeepsStanding
    <2> QED
        BY <2>1, <2>2
<1>7. CASE UNCHANGED vars
    BY <1>7 DEF vars
<1> QED
    BY <1>2, <1>3, <1>4, <1>5, <1>6, <1>7 DEF Next

\* A sequence that lists each member of a set once is as long as the set is large.
LEMMA ListedOnce ==
    ASSUME NEW q \in Seq(Nat), NEW S,
           \A k, l \in DOMAIN q : k < l => q[k] < q[l],
           {q[k] : k \in DOMAIN q} = S
    PROVE  Len(q) = Cardinality(S)
<1> DEFINE n == Len(q)
<1>1. n \in Nat /\ DOMAIN q = 1 .. n /\ q = [k \in 1 .. n |-> q[k]]
    BY LenProperties
<1>2. \A k \in 1 .. n : q[k] \in S /\ q[k] \in Nat
    BY <1>1
<1>3. \A k, l \in 1 .. n : q[k] = q[l] => k = l
    <2> SUFFICES ASSUME NEW k \in 1 .. n, NEW l \in 1 .. n, q[k] = q[l], k # l
                 PROVE  FALSE
        OBVIOUS
    <2>1. k < l \/ l < k
        BY <1>1
    <2>2. q[k] < q[l] \/ q[l] < q[k]
        BY <1>1, <2>1
    <2> QED
        BY <1>2, <2>2
<1>4. \A x \in S : \E k \in 1 .. n : q[k] = x
    BY <1>1
<1>5. q \in [1 .. n -> S]
    BY <1>1, <1>2
<1>6. q \in Bijection(1 .. n, S)
    BY <1>3, <1>4, <1>5 DEF Bijection, Injection, Surjection, IsInjective
<1>7. IsFiniteSet(1 .. n) /\ Cardinality(1 .. n) = n
    BY <1>1, FS_Interval
<1>8. ExistsBijection(1 .. n, S)
    BY <1>6 DEF ExistsBijection
<1> QED
    BY <1>7, <1>8, FS_Bijection

\* No boundary up to the index was skipped: each of them is recorded.
LEMMA BoundariesRecorded ==
    ASSUME NEW r, Stands(r), NEW b \in Boundaries(r.slice), b < r.index
    PROVE  b \in DOMAIN r.idx2pos
<1> DEFINE s == r.slice
           D == DOMAIN r.idx2pos
           T == {i \in 0 .. Len(s) : i < r.index => i \in D}
<1>1. /\ s \in Seq(Byte) /\ Len(s) \in Nat /\ r.index \in 0 .. Len(s)
      /\ r.index \in D /\ 0 \in D /\ Chain(s, D) /\ D \subseteq 0 .. Len(s)
    BY ReaderFields DEF Stands, ReaderInv, ReaderOK
<1>2. 0 \in T
    BY <1>1
<1>3. ASSUME NEW i \in 0 .. Len(s), i \in T, i < Len(s)
      PROVE  i + DecodeWidth(s, i) \in T
    <2>1. i + DecodeWidth(s, i) \in 0 .. Len(s) /\ i < i + DecodeWidth(s, i)
        BY <1>1, <1>3, DecodeWidthBounds
    <2>2. CASE i < r.index
        <3>1. i \in D
            BY <1>3, <2>2
        <3>2. i + DecodeWidth(s, i) \in D
            BY <1>1, <2>2, <3>1 DEF Chain
        <3> QED
            BY <2>1, <3>2
    <2>3. CASE ~ (i < r.index)
        BY <1>1, <2>1, <2>3
    <2> QED
        BY <2>2, <2>3
<1> HIDE DEF T
<1>4. Boundaries(s) \subseteq T
    BY <1>1, <1>2, <1>3, OverBoundaries
<1> QED
    BY <1>4 DEF T

\* Both containers are bounded by the text: whatever mix of methods is called,
\* only boundaries of its runes have a position recorded, and the width stack
\* holds exactly one entry for each rune before the index.
THEOREM ReaderRecordsBounded == Spec => []RecordsBounded
<1>1. Stands(rd) => RecordsBounded
    <2> SUFFICES ASSUME Stands(rd) PROVE RecordsBounded
        OBVIOUS
    <2> DEFINE D == DOMAIN rd.idx2pos
               B == Boundaries(rd.slice)
               passed == {b \in B : b < rd.index}
               q == rd.starts
    <2>1. D \subseteq B
        BY DEF Stands, OnBoundaries
    <2>2. /\ \A k \in DOMAIN q : q[k] \in D /\ q[k] < rd.index
          /\ \A k, l \in DOMAIN q : k < l => q[k] < q[l]
          /\ \A i \in D : i < rd.index => \E k \in DOMAIN q : q[k] = i
        BY DEF Stands, ReaderInv, Stacked
    <2>3. \A b \in passed : b \in D
        BY BoundariesRecorded
    <2>4. {q[k] : k \in DOMAIN q} = passed
        BY <2>1, <2>2, <2>3
    <2>5. q \in Seq(Nat)
        BY ReaderFields DEF Stands, ReaderInv
    <2> HIDE DEF D, B, q, passed
    <2>6. Len(q) = Cardinality(passed)
        BY <2>2, <2>4, <2>5, ListedOnce
    <2> QED
        BY <2>1, <2>4, <2>6 DEF D, B, q, passed, RecordsBounded
<1>2. Stands(rd) /\ [Next]_vars => Stands(rd)'
    BY StandsNext
<1> QED
    BY <1>1, <1>2, StandsInit, PTL DEF Spec

\* The cursor a standing reader stands for.
LEMMA CursorView ==
    ASSUME NEW r, Stands(r)
    PROVE  LET s == r.slice
               left == RunesBefore(s, r.index)
               right == RunesFrom(s, r.index)
           IN  /\ Place(s, r.index) \in Nat /\ Len(left) = Place(s, r.index)
               /\ left \o right = RunesFrom(s, 0)
               /\ left = SubSeq(RunesFrom(s, 0), 1, Place(s, r.index))
               /\ right = SubSeq(RunesFrom(s, 0), Place(s, r.index) + 1, Len(RunesFrom(s, 0)))
               /\ Eof(r) <=> right = << >>
               /\ ~ Eof(r) => Head(right) = RuneAt(s, r.index)
               /\ CanRetreat(r) <=> left # << >>
<1> DEFINE s == r.slice
           all == RunesFrom(s, 0)
           left == RunesBefore(s, r.index)
           right == RunesFrom(s, r.index)
           p == Place(s, r.index)
           D == DOMAIN r.idx2pos
<1>1. /\ s \in Seq(Byte) /\ Len(s) \in Nat /\ r.index \in 0 .. Len(s)
      /\ r.index \in D /\ r.index \in Boundaries(s) /\ Stacked(D, r.index, r.starts)
      /\ r.starts \in Seq(Nat) /\ 0 \in D
    BY ReaderFields DEF Stands, ReaderInv, OnBoundaries
<1>2. /\ p \in 0 .. Len(all) /\ Len(all) \in Nat
      /\ left \o right = all /\ Len(left) = p
      /\ left = SubSeq(all, 1, p)
      /\ right = SubSeq(all, p + 1, Len(all))
    BY <1>1, CursorStands
<1>3. Eof(r) <=> r.index = Len(s)
    BY <1>1 DEF Eof
<1>4. ASSUME ~ Eof(r)
      PROVE  right # << >> /\ Head(right) = RuneAt(s, r.index)
    <2>1. r.index < Len(s) /\ r.index \in Boundaries(s)
        BY <1>1, <1>3, <1>4
    <2>2. r.index + DecodeWidth(s, r.index) \in Boundaries(s)
        BY <1>1, <2>1, BoundariesClosed DEF Boundaries
    <2> QED
        BY <1>1, <2>1, <2>2, OneRune
<1>5. Eof(r) <=> right = << >>
    <2>1. Eof(r) => right = << >>
        BY <1>1, <1>3, RunesEquation
    <2> QED
        BY <1>4, <2>1
<1>6. ASSUME CanRetreat(r)
      PROVE  left # << >>
    <2> DEFINE back == Retreat(r).index
    <2>1. back \in D /\ back < Len(s) /\ r.index = back + DecodeWidth(s, back)
        BY <1>6, RetreatIsOneRune
    <2> QED
        BY <1>1, <2>1, OneRune
<1>7. ASSUME ~ CanRetreat(r)
      PROVE  left = << >>
    <2>1. CASE r.index = 0
        <3>1. p = 0
            BY <1>2, <2>1 DEF Place
        <3> QED
            BY <1>2, <3>1
    <2>2. CASE r.index # 0 /\ r.starts = << >>
        <3>1. 0 < r.index
            BY <1>1, <2>2
        <3>2. PICK k \in DOMAIN r.starts : r.starts[k] = 0
            BY <1>1, <3>1 DEF Stacked
        <3> QED
            BY <2>2, <3>2
    <2> QED
        BY <1>7, <2>1, <2>2 DEF CanRetreat
<1> HIDE DEF left, right, p, all, s
<1>8. p \in Nat
    BY <1>2
<1> QED
    BY <1>2, <1>4, <1>5, <1>6, <1>7, <1>8 DEF left, right, p, all, s

\* The new cursor stands as many runes into the text as the new index.
LEMMA CursorMoves ==
    ASSUME Stands(rd), Stands(rd'), rd'.slice = rd.slice
    PROVE  Cursor!StandAt(Place(rd'.slice, rd'.index))
<1> DEFINE all == RunesFrom(rd.slice, 0)
           k == Place(rd'.slice, rd'.index)
<1>1. RunesBefore(rd.slice, rd.index) \o RunesFrom(rd.slice, rd.index) = all
    BY CursorView
<1>2. RunesBefore(rd'.slice, rd'.index) = SubSeq(all, 1, k)
    BY CursorView
<1>3. RunesFrom(rd'.slice, rd'.index) = SubSeq(all, k + 1, Len(all))
    BY CursorView
<1> HIDE DEF k, all
<1> QED
    BY <1>1, <1>2, <1>3 DEF Cursor!StandAt, k

\* A reader that stays put leaves the cursor where it is.
LEMMA CursorStays ==
    ASSUME rd'.slice = rd.slice, rd'.index = rd.index
    PROVE  /\ RunesBefore(rd.slice, rd.index)' = RunesBefore(rd.slice, rd.index)
           /\ RunesFrom(rd.slice, rd.index)' = RunesFrom(rd.slice, rd.index)
<1>1. RunesBefore(rd'.slice, rd'.index) = RunesBefore(rd.slice, rd.index)
    OBVIOUS
<1>2. RunesFrom(rd'.slice, rd'.index) = RunesFrom(rd.slice, rd.index)
    OBVIOUS
<1> QED
    BY <1>1, <1>2

\* What next and move_next do is the cursor's step.
LEMMA CursorSteps ==
    ASSUME Stands(rd), rd' \in {Advance(rd), AdvanceMove(rd)}
    PROVE  Cursor!Step
<1>1. /\ Stands(rd') /\ rd'.slice = rd.slice
      /\ Eof(rd) => rd' = rd
      /\ ~ Eof(rd) => rd'.index = rd.index + DecodeWidth(rd.slice, rd.index)
    BY AdvanceStands
<1>2. CASE Eof(rd)
    <2>1. RunesFrom(rd.slice, rd.index) = << >>
        BY <1>2, CursorView
    <2>2. /\ RunesBefore(rd.slice, rd.index)' = RunesBefore(rd.slice, rd.index)
          /\ RunesFrom(rd.slice, rd.index)' = RunesFrom(rd.slice, rd.index)
        BY <1>1, <1>2, CursorStays
    <2> QED
        BY <2>1, <2>2 DEF Cursor!Step
<1>3. CASE ~ Eof(rd)
    <2> DEFINE s == rd.slice
    <2>1. /\ rd.index \in DOMAIN rd.idx2pos /\ rd.index < Len(s)
          /\ rd'.index \in Boundaries(s)
          /\ rd'.index = rd.index + DecodeWidth(s, rd.index)
        BY <1>1, <1>3, ReaderFields DEF Stands, ReaderInv, OnBoundaries, Eof
    <2>2. Place(s, rd'.index) = Place(s, rd.index) + 1
        BY <2>1, OneRune
    <2>3. /\ Len(RunesBefore(s, rd.index)) = Place(s, rd.index)
          /\ RunesFrom(s, rd.index) # << >>
        BY <1>3, CursorView
    <2>4. Cursor!StandAt(Place(rd'.slice, rd'.index))
        BY <1>1, CursorMoves
    <2>5. Place(rd'.slice, rd'.index) = Len(RunesBefore(s, rd.index)) + 1
        BY <1>1, <2>2, <2>3
    <2>6. Cursor!StandAt(Len(RunesBefore(s, rd.index)) + 1)
        BY <2>4, <2>5
    <2> QED
        BY <2>3, <2>6 DEF Cursor!Step
<1> QED
    BY <1>2, <1>3

\* What prev and move_prev do is the cursor's step back.
LEMMA CursorStepsBack ==
    ASSUME Stands(rd), rd' = IF CanRetreat(rd) THEN Retreat(rd) ELSE rd
    PROVE  /\ Cursor!StepBack
           /\ CanRetreat(rd) =>
                /\ RunesBefore(rd.slice, rd.index) # << >>
                /\ RunesBefore(rd.slice, rd.index)[Len(RunesBefore(rd.slice, rd.index))]
                     = RuneAt(rd.slice, rd'.index)
<1> DEFINE s == rd.slice
           left == RunesBefore(s, rd.index)
<1>1. CASE ~ CanRetreat(rd)
    <2>1. left = << >>
        BY <1>1, CursorView
    <2>2. /\ RunesBefore(rd.slice, rd.index)' = RunesBefore(rd.slice, rd.index)
          /\ RunesFrom(rd.slice, rd.index)' = RunesFrom(rd.slice, rd.index)
        BY <1>1, CursorStays
    <2> QED
        BY <1>1, <2>1, <2>2 DEF Cursor!StepBack
<1>2. CASE CanRetreat(rd)
    <2> DEFINE back == rd'.index
    <2>1. rd' = Retreat(rd) /\ ReaderInv(rd)
        BY <1>2 DEF Stands
    <2>2. Stands(rd') /\ rd'.slice = s
        BY <1>2, <2>1, RetreatInv, KeepsStanding
    <2>3. back \in DOMAIN rd.idx2pos /\ back < Len(s) /\ rd.index = back + DecodeWidth(s, back)
        BY <1>2, <2>1, RetreatIsOneRune
    <2>4. rd.index \in Boundaries(s)
        BY <2>1 DEF Stands, ReaderInv, OnBoundaries
    <2>5. /\ Place(s, rd.index) = Place(s, back) + 1
          /\ left # << >> /\ left[Place(s, rd.index)] = RuneAt(s, back)
        BY <2>3, <2>4, OneRune
    <2>6. Len(left) = Place(s, rd.index)
        BY CursorView
    <2>7. Place(s, back) \in Nat
        BY <2>2, CursorView
    <2>8. Cursor!StandAt(Place(rd'.slice, rd'.index))
        BY <2>2, CursorMoves
    <2>9. Place(rd'.slice, rd'.index) = Len(left) - 1
        BY <2>2, <2>5, <2>6, <2>7
    <2>10. Cursor!StandAt(Len(left) - 1)
        BY <2>8, <2>9
    <2> QED
        BY <2>5, <2>6, <2>10 DEF Cursor!StepBack
<1> QED
    BY <1>1, <1>2

\* What peek, next and curr answer is the rune ahead of the cursor.
LEMMA CursorAhead == Stands(rd) => Peek(rd) = Cursor!Ahead
BY CursorView DEF Cursor!Ahead, Peek

\* A seek goes back over whole runes, or nowhere.
LEMMA CursorSeeks ==
    ASSUME Stands(rd), NEW i \in 0 .. Len(rd.slice) + 1, Seek(i)
    PROVE  Cursor!Seek
<1>1. ReaderInv(rd)
    BY DEF Stands
<1>2. CASE ~ SeekOk(rd, i)
    <2>1. /\ RunesBefore(rd.slice, rd.index)' = RunesBefore(rd.slice, rd.index)
          /\ RunesFrom(rd.slice, rd.index)' = RunesFrom(rd.slice, rd.index)
        BY <1>2, CursorStays DEF Seek
    <2>2. ok' = FALSE /\ got' = got
        BY <1>2 DEF Seek
    <2> QED
        BY <2>1, <2>2 DEF Cursor!Seek
<1>3. CASE SeekOk(rd, i)
    <2> DEFINE s == rd.slice
               k == Place(rd'.slice, rd'.index)
    <2>1. rd' = SeekTo(rd, i) /\ ok' = TRUE /\ got' = got
        BY <1>3 DEF Seek
    <2>2. Stands(rd') /\ rd'.slice = s /\ rd'.index = i
        BY <1>1, <1>3, <2>1, SeekToInv, KeepsStanding
    <2>3. i \in DOMAIN rd.idx2pos /\ i <= rd.index /\ rd.index \in DOMAIN rd.idx2pos
        BY <1>1, <1>3 DEF SeekOk, ReaderInv
    <2>4. Place(s, i) <= Place(s, rd.index)
        BY <2>3, PlaceGrows
    <2>5. Place(s, i) \in Nat
        BY <2>2, CursorView
    <2>6. Len(RunesBefore(s, rd.index)) = Place(s, rd.index) /\ Place(s, rd.index) \in Nat
        BY CursorView
    <2>7. k \in 0 .. Len(RunesBefore(s, rd.index))
        BY <2>2, <2>4, <2>5, <2>6
    <2>8. Cursor!StandAt(k)
        BY <2>2, CursorMoves
    <2> HIDE DEF k
    <2> QED
        BY <2>1, <2>7, <2>8 DEF Cursor!Seek
<1> QED
    BY <1>2, <1>3

\* Every method is the cursor's, or leaves the cursor alone.
LEMMA CursorNext == Stands(rd) /\ [Next]_vars => [Cursor!Next]_(Cursor!vars)
<1> SUFFICES ASSUME Stands(rd), [Next]_vars
             PROVE  Cursor!Next \/ UNCHANGED Cursor!vars
    OBVIOUS
<1>1. CASE NextRune
    <2>1. Cursor!Step
        BY <1>1, CursorSteps DEF NextRune
    <2> QED
        BY <1>1, <2>1, CursorAhead DEF NextRune, Cursor!NextRune, Cursor!Next
<1>2. CASE CurrRune
    <2>1. rd'.slice = rd.slice /\ rd'.index = rd.index
        BY <1>2, PeekedInv DEF CurrRune, Stands
    <2>2. /\ RunesBefore(rd.slice, rd.index)' = RunesBefore(rd.slice, rd.index)
          /\ RunesFrom(rd.slice, rd.index)' = RunesFrom(rd.slice, rd.index)
        BY <2>1, CursorStays
    <2> QED
        BY <1>2, <2>2, CursorAhead DEF CurrRune, Cursor!CurrRune, Cursor!Next
<1>3. CASE PrevRune
    <2>1. rd' = IF CanRetreat(rd) THEN Retreat(rd) ELSE rd
        BY <1>3 DEF PrevRune
    <2>2. Cursor!StepBack
        BY <2>1, CursorStepsBack
    <2>3. ok' = ok /\ got' = IF CanRetreat(rd) THEN RuneAt(rd.slice, rd'.index) ELSE rune_invalid
        BY <1>3 DEF PrevRune
    <2>4. got' = IF RunesBefore(rd.slice, rd.index) = << >> THEN rune_invalid
                 ELSE RunesBefore(rd.slice, rd.index)[Len(RunesBefore(rd.slice, rd.index))]
        <3>1. CASE CanRetreat(rd)
            BY <2>1, <2>3, <3>1, CursorStepsBack
        <3>2. CASE ~ CanRetreat(rd)
            BY <2>3, <3>2, CursorView
        <3> QED
            BY <3>1, <3>2
    <2> QED
        BY <2>2, <2>3, <2>4 DEF Cursor!PrevRune, Cursor!Next
<1>4. CASE MoveNext
    <2>1. Cursor!Step
        BY <1>4, CursorSteps DEF MoveNext
    <2>2. ok' = (RunesFrom(rd.slice, rd.index) # << >>) /\ got' = got
        BY <1>4, CursorView DEF MoveNext
    <2> QED
        BY <2>1, <2>2 DEF Cursor!MoveNext, Cursor!Next
<1>5. CASE MovePrev
    <2>1. Cursor!StepBack
        BY <1>5, CursorStepsBack DEF MovePrev
    <2>2. ok' = (RunesBefore(rd.slice, rd.index) # << >>) /\ got' = got
        <3>1. ok' = CanRetreat(rd) /\ got' = got
            BY <1>5 DEF MovePrev
        <3>2. CanRetreat(rd) = (RunesBefore(rd.slice, rd.index) # << >>)
            <4>1. CanRetreat(rd) <=> RunesBefore(rd.slice, rd.index) # << >>
                BY CursorView
            <4>2. CanRetreat(rd) \in BOOLEAN
                BY DEF CanRetreat
            <4> QED
                BY <4>1, <4>2, Zenon
        <3> QED
            BY <3>1, <3>2
    <2> QED
        BY <2>1, <2>2 DEF Cursor!MovePrev, Cursor!Next
<1>6. ASSUME NEW i \in 0 .. Len(rd.slice) + 1, Seek(i)
      PROVE  Cursor!Next
    BY <1>6, CursorSeeks DEF Cursor!Next
<1>7. CASE UNCHANGED vars
    <2>1. rd' = rd /\ got' = got /\ ok' = ok
        BY <1>7 DEF vars
    <2> QED
        BY <2>1, CursorStays DEF Cursor!vars
<1> QED
    BY <1>1, <1>2, <1>3, <1>4, <1>5, <1>6, <1>7 DEF Next

\* The cursor starts at the left of the whole text.
LEMMA CursorInit == Init => Cursor!Init
<1> SUFFICES ASSUME Init PROVE Cursor!Init
    OBVIOUS
<1>1. Stands(rd)
    BY StandsInit
<1>2. rd.index = 0 /\ ~ CanRetreat(rd)
    BY DEF Init, NewReader, CanRetreat
<1>3. RunesBefore(rd.slice, rd.index) = << >>
    BY <1>1, <1>2, CursorView
<1>4. RunesFrom(rd.slice, rd.index) \in Seq(Rune)
    <2>1. rd.slice \in Seq(Byte) /\ rd.index \in 0 .. Len(rd.slice)
        BY <1>1, ReaderFields DEF Stands, ReaderInv
    <2> QED
        BY <2>1, RunesEquation
<1> QED
    BY <1>3, <1>4 DEF Init, Cursor!Init

\* reader_t is a cursor over the decoded text: whatever mix of next, curr,
\* prev, move_next, move_prev and seek is called on whatever bytes, each moves
\* and answers as if the text had been decoded once from its start, so prev
\* after next is the same rune and no seek stops inside a multi-byte sequence.
THEOREM ReaderImplementsCursor == Spec => ImplementsCursor
<1>1. Init => Cursor!Init /\ Stands(rd)
    BY CursorInit, StandsInit
<1>2. Stands(rd) /\ [Next]_vars => Stands(rd)'
    BY StandsNext
<1>3. Stands(rd) /\ [Next]_vars => [Cursor!Next]_(Cursor!vars)
    BY CursorNext
<1> QED
    BY <1>1, <1>2, <1>3, PTL DEF Spec, ImplementsCursor, Cursor!Spec
=============================================================================
