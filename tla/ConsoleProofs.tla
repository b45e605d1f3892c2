--------------------------- MODULE ConsoleProofs ----------------------------
(***************************************************************************)
(* What the console helpers write, for texts of every length, every range  *)
(* and every choice of colours.                                            *)
(***************************************************************************)
EXTENDS Console, SequenceTheorems, TLAPS

\* What is written to the stream.
Item == [kind : {"char", "color", "reset"}, is : Nat]

Both == {bg_color + 10, fg_color}

\* The colours that the character at k is to have.
Wanted(k) == IF enabled /\ InRange(k) THEN Both ELSE {}

\* The first n characters are shown, once and in order.
Shows(items, n) ==
    /\ {items[k].is : k \in Characters(items)} = 0 .. n - 1
    /\ \A k, m \in Characters(items) : k < m => items[k].is < items[m].is

\* Each in its colours.
Painted(items) == \A k \in Characters(items) : InForce(items, k) = Wanted(items[k].is)

\* The types.
Typed ==
    /\ enabled \in BOOLEAN /\ returned \in BOOLEAN
    /\ length \in Nat /\ begin \in Nat /\ end \in Nat
    /\ fg_color \in Nat /\ bg_color = black
    /\ j \in 0 .. length
    /\ colored_source \in Seq(Item)

\* The inductive invariant: what the loop has written, and the colours that are
\* in force behind it.
ConsoleInv ==
    /\ Typed
    /\ returned => IF enabled THEN j = length ELSE colored_source = Text
    /\ enabled => Shows(colored_source, j)
    /\ enabled /\ begin <= end =>
         /\ Painted(colored_source)
         /\ InForce(colored_source, Len(colored_source)) =
               IF begin < j /\ j <= end THEN Both ELSE {}

-----------------------------------------------------------------------------
\* One more item.
LEMMA AppendItem ==
    ASSUME NEW s \in Seq(Item), NEW x \in Item
    PROVE  LET t == Append(s, x) IN
           /\ t \in Seq(Item) /\ Len(s) \in Nat /\ Len(t) = Len(s) + 1
           /\ t[Len(t)] = x /\ \A k \in 1 .. Len(s) : t[k] = s[k]
           /\ \A k \in 0 .. Len(s) : InForce(t, k) = InForce(s, k)
           /\ x.kind = "reset" => InForce(t, Len(t)) = {}
           /\ x.kind = "color" => InForce(t, Len(t)) = InForce(s, Len(s)) \cup {x.is}
           /\ x.kind = "char" => InForce(t, Len(t)) = InForce(s, Len(s))
           /\ x.kind = "char" => Characters(t) = Characters(s) \cup {Len(t)}
           /\ x.kind # "char" => Characters(t) = Characters(s)
           /\ Characters(s) \subseteq 1 .. Len(s)
<1> DEFINE t == Append(s, x)
           n == Len(s)
<1>1. t \in Seq(Item) /\ n \in Nat /\ Len(t) = n + 1 /\ t[n + 1] = x /\ \A k \in 1 .. n : t[k] = s[k]
    OBVIOUS
<1>2. DOMAIN t = 1 .. n + 1 /\ DOMAIN s = 1 .. n
    BY <1>1
<1> HIDE DEF t
<1>3. ASSUME NEW k \in 0 .. n
      PROVE  InForce(t, k) = InForce(s, k)
    <2>1. \A m \in 1 .. k : m \in 1 .. n /\ \A i \in m .. k : i \in 1 .. n
        BY <1>1, SMT
    <2>2. \A m \in 1 .. k : t[m] = s[m] /\ \A i \in m .. k : t[i] = s[i]
        BY <1>1, <2>1
    <2>3. {m \in 1 .. k : t[m].kind = "color" /\ \A i \in m .. k : t[i].kind # "reset"}
            = {m \in 1 .. k : s[m].kind = "color" /\ \A i \in m .. k : s[i].kind # "reset"}
        BY <2>2
    <2> QED
        BY <2>2, <2>3 DEF InForce
<1>4. ASSUME x.kind = "reset"
      PROVE  InForce(t, n + 1) = {}
    <2>1. \A m \in 1 .. n + 1 : n + 1 \in m .. n + 1
        BY <1>1, SMT
    <2> QED
        BY <1>1, <1>4, <2>1, Zenon DEF InForce
<1>5. ASSUME x.kind # "reset", NEW m \in 1 .. n
      PROVE  (\A i \in m .. n + 1 : t[i].kind # "reset") <=> (\A i \in m .. n : s[i].kind # "reset")
    <2>1. \A i \in m .. n : i \in m .. n + 1 /\ i \in 1 .. n
        BY <1>1, SMT
    <2>2. \A i \in m .. n + 1 : i = n + 1 \/ i \in m .. n
        BY <1>1, SMT
    <2> QED
        BY <1>1, <1>5, <2>1, <2>2, Zenon
<1>6. 1 .. n + 1 = (1 .. n) \cup {n + 1} /\ \A i \in n + 1 .. n + 1 : i = n + 1
    BY <1>1, SMT
<1> DEFINE Of(u, k) == {m \in 1 .. k : /\ u[m].kind = "color"
                                       /\ \A i \in m .. k : u[i].kind # "reset"}
<1>7. ASSUME x.kind = "color"
      PROVE  InForce(t, n + 1) = InForce(s, n) \cup {x.is}
    <2>1. \A m \in 1 .. n : m \in Of(t, n + 1) <=> m \in Of(s, n)
        BY <1>1, <1>5, <1>6, <1>7
    <2>2. n + 1 \in Of(t, n + 1)
        BY <1>1, <1>6, <1>7
    <2>3. Of(t, n + 1) = Of(s, n) \cup {n + 1}
        BY <1>6, <2>1, <2>2
    <2>4. \A m \in Of(s, n) : t[m].is = s[m].is
        BY <1>1
    <2> HIDE DEF Of
    <2>5. {t[m].is : m \in Of(t, n + 1)} = {s[m].is : m \in Of(s, n)} \cup {x.is}
        <3>1. \A m \in Of(t, n + 1) : m \in Of(s, n) \/ t[m].is = x.is
            BY <1>1, <2>3
        <3>2. \A y : y \in {t[m].is : m \in Of(t, n + 1)} <=> y \in {s[m].is : m \in Of(s, n)} \cup {x.is}
            BY <1>1, <2>2, <2>3, <2>4, <3>1
        <3> QED
            BY <3>2
    <2> QED
        BY <2>5 DEF InForce, Of
<1>8. ASSUME x.kind = "char"
      PROVE  InForce(t, n + 1) = InForce(s, n)
    <2>1. \A m \in 1 .. n : m \in Of(t, n + 1) <=> m \in Of(s, n)
        BY <1>1, <1>5, <1>6, <1>8
    <2>2. n + 1 \notin Of(t, n + 1)
        BY <1>1, <1>8
    <2>3. Of(t, n + 1) = Of(s, n)
        BY <1>6, <2>1, <2>2
    <2>4. \A m \in Of(s, n) : t[m].is = s[m].is
        BY <1>1
    <2> HIDE DEF Of
    <2>5. {t[m].is : m \in Of(t, n + 1)} = {s[m].is : m \in Of(s, n)}
        BY <2>3, <2>4, Zenon
    <2> QED
        BY <2>5 DEF InForce, Of
<1>9. /\ x.kind = "char" => Characters(t) = Characters(s) \cup {n + 1}
      /\ x.kind # "char" => Characters(t) = Characters(s)
      /\ Characters(s) \subseteq 1 .. n
    BY <1>1, <1>2, <1>6 DEF Characters
<1> QED
    BY <1>1, <1>3, <1>4, <1>7, <1>8, <1>9 DEF t

\* A code changes nothing of what is written.
LEMMA AppendCode ==
    ASSUME NEW s \in Seq(Item), NEW x \in Item, x.kind # "char", NEW n, Shows(s, n)
    PROVE  Shows(Append(s, x), n) /\ (Painted(s) => Painted(Append(s, x)))
<1> DEFINE t == Append(s, x)
<1>1. /\ Characters(t) = Characters(s) /\ Characters(s) \subseteq 1 .. Len(s)
      /\ \A k \in 1 .. Len(s) : t[k] = s[k]
      /\ \A k \in 0 .. Len(s) : InForce(t, k) = InForce(s, k)
    BY AppendItem
<1>2. \A k \in Characters(s) : t[k] = s[k] /\ InForce(t, k) = InForce(s, k)
    BY <1>1
<1> HIDE DEF t
<1>3. {t[k].is : k \in Characters(t)} = {s[k].is : k \in Characters(s)}
    BY <1>1, <1>2, Zenon
<1>4. Shows(t, n)
    BY <1>1, <1>2, <1>3 DEF Shows
<1>5. Painted(s) => Painted(t)
    BY <1>1, <1>2 DEF Painted
<1> QED
    BY <1>4, <1>5 DEF t

\* The next character.
LEMMA AppendCharacter ==
    ASSUME NEW s \in Seq(Item), NEW n \in Nat, Shows(s, n)
    PROVE  /\ Character(n) \in Item /\ Character(n).kind = "char"
           /\ Shows(Append(s, Character(n)), n + 1)
           /\ Painted(s) /\ InForce(s, Len(s)) = Wanted(n) => Painted(Append(s, Character(n)))
<1> DEFINE x == Character(n)
           t == Append(s, x)
<1>1. x \in Item /\ x.kind = "char" /\ x.is = n
    BY DEF Character, Item
<1> HIDE DEF x
<1>2. /\ Characters(t) = Characters(s) \cup {Len(t)} /\ Characters(s) \subseteq 1 .. Len(s)
      /\ t[Len(t)] = x /\ Len(t) = Len(s) + 1 /\ Len(s) \in Nat
      /\ \A k \in 1 .. Len(s) : t[k] = s[k]
      /\ \A k \in 0 .. Len(s) : InForce(t, k) = InForce(s, k)
      /\ InForce(t, Len(t)) = InForce(s, Len(s))
    BY <1>1, AppendItem
<1> HIDE DEF t
<1>3. \A k \in Characters(s) : t[k] = s[k] /\ InForce(t, k) = InForce(s, k) /\ k < Len(t)
    BY <1>2, SMT
<1>4. \A k \in Characters(s) : s[k].is \in 0 .. n - 1
    BY Zenon DEF Shows
<1>5. {t[k].is : k \in Characters(t)} = 0 .. (n + 1) - 1
    <2>1. {t[k].is : k \in Characters(t)} = {s[k].is : k \in Characters(s)} \cup {n}
        <3>1. t[Len(t)].is = n /\ Len(t) \in Characters(t)
            BY <1>1, <1>2
        <3>2. \A k \in Characters(t) : k \in Characters(s) \/ k = Len(t)
            BY <1>2
        <3>3. \A k \in Characters(s) : k \in Characters(t) /\ t[k].is = s[k].is
            BY <1>2, <1>3
        <3>4. \A y : y \in {t[k].is : k \in Characters(t)} <=> y \in {s[k].is : k \in Characters(s)} \cup {n}
            BY <3>1, <3>2, <3>3
        <3> QED
            BY <3>4
    <2>2. {s[k].is : k \in Characters(s)} = 0 .. n - 1
        BY DEF Shows
    <2>3. (0 .. n - 1) \cup {n} = 0 .. (n + 1) - 1
        BY SMT
    <2> QED
        BY <2>1, <2>2, <2>3
<1>6. ASSUME NEW k \in Characters(t), NEW m \in Characters(t), k < m
      PROVE  t[k].is < t[m].is
    <2>1. CASE k \in Characters(s) /\ m \in Characters(s)
        BY <1>3, <1>6, <2>1 DEF Shows
    <2>2. CASE k \in Characters(s) /\ m = Len(t)
        <3>1. t[k].is \in 0 .. n - 1 /\ t[m].is = n
            BY <1>1, <1>2, <1>3, <1>4, <2>2
        <3> QED
            BY <3>1, SMT
    <2>3. CASE k = Len(t)
        BY <1>2, <1>3, <1>6, <2>3, SMT
    <2> QED
        BY <1>2, <2>1, <2>2, <2>3
<1>7. Shows(t, n + 1)
    BY <1>5, <1>6, Zenon DEF Shows
<1>8. Painted(s) /\ InForce(s, Len(s)) = Wanted(n) => Painted(t)
    BY <1>1, <1>2, <1>3 DEF Painted
<1> QED
    BY <1>1, <1>7, <1>8 DEF t, x

\* The codes.
LEMMA Codes ==
    ASSUME Typed
    PROVE  /\ color_code(make_bg_color(bg_color)) \in Item
           /\ color_code(make_bg_color(bg_color)).kind = "color"
           /\ color_code(make_bg_color(bg_color)).is = bg_color + 10
           /\ color_code(fg_color) \in Item
           /\ color_code(fg_color).kind = "color" /\ color_code(fg_color).is = fg_color
           /\ color_code_reset \in Item /\ color_code_reset.kind = "reset"
           /\ ColorsOn \in Seq(Item)
<1>1. make_bg_color(bg_color) = bg_color + 10 /\ bg_color + 10 \in Nat
    BY SMT DEF Typed, make_bg_color, black
<1>2. fg_color \in Nat
    BY DEF Typed
<1>3. /\ \A c \in Nat : color_code(c) \in Item /\ color_code(c).kind = "color" /\ color_code(c).is = c
      /\ color_code_reset \in Item /\ color_code_reset.kind = "reset"
    BY DEF color_code, color_code_reset, Item
<1>4. color_code(make_bg_color(bg_color)) \in Item /\ color_code(fg_color) \in Item
    BY <1>1, <1>2, <1>3
<1>5. ColorsOn \in Seq(Item)
    BY <1>4 DEF ColorsOn
<1> QED
    BY <1>1, <1>2, <1>3, <1>5

\* What is written at once is written item by item.
LEMMA OneByOne ==
    ASSUME NEW s \in Seq(Item), NEW a \in Item, NEW b \in Item, NEW x \in Item, NEW y \in Item
    PROVE  /\ s \o <<x>> = Append(s, x)
           /\ s \o <<x, y>> = Append(Append(s, x), y)
           /\ s \o (<<a, b>> \o <<x>>) = Append(Append(Append(s, a), b), x)
           /\ s \o (<<a, b>> \o <<x, y>>) = Append(Append(Append(Append(s, a), b), x), y)
<1>1. \A u, v \in Seq(Item) : \A z \in Item : u \o Append(v, z) = Append(u \o v, z)
    <2> SUFFICES ASSUME NEW u \in Seq(Item), NEW v \in Seq(Item), NEW z \in Item
                 PROVE  u \o Append(v, z) = Append(u \o v, z)
        OBVIOUS
    <2> DEFINE p == u \o Append(v, z)
               q == Append(u \o v, z)
    <2>1. p \in Seq(Item) /\ q \in Seq(Item) /\ Len(p) = Len(q)
        BY SMT
    <2>2. \A i \in 1 .. Len(p) : p[i] = q[i]
        BY SMT
    <2> QED
        BY <2>1, <2>2, SeqEqual
<1>2. \A u \in Seq(Item) : u \o << >> = u
    BY ConcatEmptySeq
<1>3. /\ <<x>> = Append(<< >>, x) /\ <<x, y>> = Append(<<x>>, y)
      /\ <<a>> = Append(<< >>, a) /\ <<a, b>> = Append(<<a>>, b)
    BY SMT
<1>4. /\ << >> \in Seq(Item) /\ <<x>> \in Seq(Item) /\ <<a>> \in Seq(Item)
      /\ <<a, b>> \in Seq(Item) /\ <<a, b>> \o <<x>> \in Seq(Item)
    BY SMT
<1> DEFINE ab == <<a, b>>
           abx == ab \o <<x>>
<1>5. s \o <<x>> = Append(s, x) /\ s \o <<a>> = Append(s, a) /\ ab \o <<x>> = Append(ab, x)
    <2>1. \A u \in Seq(Item), z \in Item : u \o Append(<< >>, z) = Append(u \o << >>, z)
        BY <1>1, <1>4
    <2>2. \A z \in Item : Append(<< >>, z) = <<z>>
        OBVIOUS
    <2>3. \A u \in Seq(Item), z \in Item : u \o <<z>> = Append(u, z)
        BY <1>2, <2>1, <2>2
    <2> QED
        BY <1>4, <2>3
<1>6. s \o <<x, y>> = Append(Append(s, x), y) /\ s \o ab = Append(Append(s, a), b)
    <2>1. s \o Append(<<x>>, y) = Append(s \o <<x>>, y) /\ s \o Append(<<a>>, b) = Append(s \o <<a>>, b)
        BY <1>1, <1>4
    <2>2. Append(<<x>>, y) = <<x, y>> /\ Append(<<a>>, b) = ab
        BY <1>3
    <2> QED
        BY <1>5, <2>1, <2>2
<1>7. ab \o <<x, y>> = Append(abx, y)
    <2>1. ab \o Append(<<x>>, y) = Append(abx, y)
        BY <1>1, <1>4
    <2> QED
        BY <1>3, <2>1
<1>8. s \o abx = Append(Append(Append(s, a), b), x)
    <2>1. s \o Append(ab, x) = Append(s \o ab, x)
        BY <1>1, <1>4
    <2> QED
        BY <1>5, <1>6, <2>1
<1>9. s \o (ab \o <<x, y>>) = Append(Append(Append(Append(s, a), b), x), y)
    <2>1. s \o Append(abx, y) = Append(s \o abx, y)
        BY <1>1, <1>4
    <2> QED
        BY <1>7, <1>8, <2>1
<1> QED
    BY <1>5, <1>6, <1>8, <1>9

-----------------------------------------------------------------------------
\* What an iteration of the loop must write.
LEMMA WriteKeeps ==
    ASSUME ConsoleInv, NEW items, Write(items),
           colored_source \o items \in Seq(Item),
           Shows(colored_source \o items, j + 1),
           begin <= end =>
              /\ Painted(colored_source \o items)
              /\ InForce(colored_source \o items, Len(colored_source \o items)) =
                    IF begin < j + 1 /\ j + 1 <= end THEN Both ELSE {}
    PROVE  ConsoleInv'
<1> DEFINE t == colored_source \o items
<1>1. /\ enabled /\ ~returned /\ j < length
      /\ colored_source' = t /\ j' = j + 1 /\ returned' = returned
      /\ enabled' = enabled /\ length' = length /\ begin' = begin /\ end' = end
      /\ fg_color' = fg_color /\ bg_color' = bg_color
    BY DEF Write, args
<1>2. Typed'
    BY <1>1, SMT DEF Typed, ConsoleInv
<1> HIDE DEF t
<1>3. /\ \A k : Wanted(k)' = Wanted(k)
      /\ \A k : InForce(colored_source, k)' = InForce(t, k)
      /\ Characters(colored_source)' = Characters(t)
      /\ Both' = Both
    <2>1. Both' = Both
        BY <1>1 DEF Both
    <2>2. \A k : InRange(k)' = InRange(k)
        BY <1>1 DEF InRange
    <2>3. \A k : Wanted(k)' = Wanted(k)
        BY <1>1, <2>1, <2>2 DEF Wanted
    <2> QED
        BY <1>1, <2>1, <2>3 DEF InForce, Characters
<1>4. Shows(colored_source, j)'
    BY <1>1, <1>3 DEF t, Shows
<1>5. begin <= end => Painted(colored_source)'
    <2> SUFFICES ASSUME begin <= end, NEW k \in Characters(t)
                 PROVE  InForce(t, k) = Wanted(t[k].is)
        BY <1>1, <1>3 DEF Painted
    <2> QED
        BY DEF t, Painted
<1>6. begin <= end =>
        InForce(colored_source, Len(colored_source))' = IF begin < j' /\ j' <= end THEN Both' ELSE {}
    <2>1. InForce(colored_source, Len(colored_source))' = InForce(t, Len(t))
        BY <1>1 DEF InForce
    <2> QED
        BY <1>1, <1>3, <2>1 DEF t
<1> QED
    BY <1>1, <1>2, <1>4, <1>5, <1>6 DEF ConsoleInv

\* The state in which it writes.
LEMMA AtWrite ==
    ASSUME ConsoleInv, enabled
    PROVE  /\ colored_source \in Seq(Item) /\ j \in Nat /\ begin \in Nat /\ end \in Nat
           /\ Shows(colored_source, j) /\ Character(j) \in Item
           /\ begin <= end =>
                /\ Painted(colored_source)
                /\ InForce(colored_source, Len(colored_source)) =
                      IF begin < j /\ j <= end THEN Both ELSE {}
<1>1. j \in Nat
    BY SMT DEF ConsoleInv, Typed
<1> QED
    BY <1>1 DEF ConsoleInv, Typed, Character, Item

\* The colours are switched on.
LEMMA SwitchOn ==
    ASSUME ConsoleInv, enabled, ~(begin < j /\ j <= end)
    PROVE  LET t == Append(Append(colored_source, color_code(make_bg_color(bg_color))),
                           color_code(fg_color))
           IN  /\ t \in Seq(Item) /\ Shows(t, j)
               /\ begin <= end => Painted(t) /\ InForce(t, Len(t)) = Both
<1> DEFINE s == colored_source
           a == color_code(make_bg_color(bg_color))
           b == color_code(fg_color)
           u == Append(s, a)
           t == Append(u, b)
<1>1. /\ a \in Item /\ a.kind = "color" /\ a.is = bg_color + 10
      /\ b \in Item /\ b.kind = "color" /\ b.is = fg_color
    BY Codes DEF ConsoleInv
<1>2. /\ s \in Seq(Item) /\ Shows(s, j)
      /\ begin <= end => Painted(s) /\ InForce(s, Len(s)) = {}
    BY AtWrite
<1> HIDE DEF a, b, s
<1>3. /\ u \in Seq(Item) /\ Shows(u, j)
      /\ begin <= end => Painted(u) /\ InForce(u, Len(u)) = {bg_color + 10}
    <2>1. u \in Seq(Item) /\ InForce(u, Len(u)) = InForce(s, Len(s)) \cup {bg_color + 10}
        BY <1>1, <1>2, AppendItem
    <2>2. Shows(u, j) /\ (Painted(s) => Painted(u))
        BY <1>1, <1>2, AppendCode
    <2> QED
        BY <1>2, <2>1, <2>2
<1> HIDE DEF u
<1>4. /\ t \in Seq(Item) /\ Shows(t, j)
      /\ begin <= end => Painted(t) /\ InForce(t, Len(t)) = {bg_color + 10} \cup {fg_color}
    <2>1. t \in Seq(Item) /\ InForce(t, Len(t)) = InForce(u, Len(u)) \cup {fg_color}
        BY <1>1, <1>3, AppendItem
    <2>2. Shows(t, j) /\ (Painted(u) => Painted(t))
        BY <1>1, <1>3, AppendCode
    <2> QED
        BY <1>3, <2>1, <2>2
<1>5. Both = {bg_color + 10} \cup {fg_color}
    BY DEF Both
<1> QED
    BY <1>4, <1>5 DEF t, u, a, b, s

\* colorizer.cc:20-23: a range of one character.
LEMMA ColorOneKeeps == ConsoleInv /\ ColorOne => ConsoleInv'
<1> SUFFICES ASSUME ConsoleInv, ColorOne
             PROVE  ConsoleInv'
    OBVIOUS
<1> DEFINE x == Character(j)
           y == color_code_reset
           t == Append(Append(colored_source, color_code(make_bg_color(bg_color))), color_code(fg_color))
           u == Append(t, x)
           v == Append(u, y)
           items == ColorsOn \o <<x, y>>
<1>1. /\ begin = end /\ j = begin /\ enabled /\ Write(items)
      /\ j \in Nat /\ begin \in Nat /\ end \in Nat
    BY AtWrite DEF ColorOne, Write
<1>2. /\ t \in Seq(Item) /\ Shows(t, j) /\ Painted(t) /\ InForce(t, Len(t)) = Both
    <2>1. ~(begin < j /\ j <= end) /\ begin <= end
        BY <1>1, SMT
    <2> QED
        BY <1>1, <2>1, SwitchOn
<1>3. Wanted(j) = Both
    BY <1>1 DEF Wanted, InRange
<1>4. y \in Item /\ y.kind = "reset" /\ x \in Item
    BY <1>1, Codes, AtWrite DEF ConsoleInv
<1>5. v = colored_source \o items
    BY <1>1, <1>4, Codes, AtWrite, OneByOne DEF ConsoleInv, ColorsOn
<1> HIDE DEF t, y, items
<1>6. u \in Seq(Item) /\ Shows(u, j + 1) /\ Painted(u)
    BY <1>1, <1>2, <1>3, <1>4, AppendItem, AppendCharacter
<1> HIDE DEF u
<1>7. v \in Seq(Item) /\ Shows(v, j + 1) /\ Painted(v) /\ InForce(v, Len(v)) = {}
    BY <1>4, <1>6, AppendItem, AppendCode
<1>8. ~(begin < j + 1 /\ j + 1 <= end)
    BY <1>1, SMT
<1> HIDE DEF v
<1> QED
    BY <1>1, <1>5, <1>7, <1>8, WriteKeeps

\* colorizer.cc:25-26: the range begins.
LEMMA ColorStartKeeps == ConsoleInv /\ ColorStart => ConsoleInv'
<1> SUFFICES ASSUME ConsoleInv, ColorStart
             PROVE  ConsoleInv'
    OBVIOUS
<1> DEFINE x == Character(j)
           t == Append(Append(colored_source, color_code(make_bg_color(bg_color))), color_code(fg_color))
           u == Append(t, x)
           items == ColorsOn \o <<x>>
<1>1. /\ begin # end /\ j = begin /\ enabled /\ Write(items)
      /\ j \in Nat /\ begin \in Nat /\ end \in Nat
    BY AtWrite DEF ColorStart, Write
<1>2. /\ t \in Seq(Item) /\ Shows(t, j)
      /\ begin <= end => Painted(t) /\ InForce(t, Len(t)) = Both
    <2>1. ~(begin < j /\ j <= end)
        BY <1>1, SMT
    <2> QED
        BY <1>1, <2>1, SwitchOn
<1>3. begin <= end => Wanted(j) = Both /\ begin < j + 1 /\ j + 1 <= end
    BY <1>1, SMT DEF Wanted, InRange
<1>4. x \in Item /\ x.kind = "char"
    BY <1>1, AtWrite DEF Character
<1>5. u = colored_source \o items
    BY <1>1, <1>4, Codes, AtWrite, OneByOne DEF ConsoleInv, ColorsOn
<1> HIDE DEF t, items
<1>6. u \in Seq(Item) /\ Shows(u, j + 1) /\ (begin <= end => Painted(u))
    BY <1>1, <1>2, <1>3, <1>4, AppendItem, AppendCharacter
<1>7. begin <= end => InForce(u, Len(u)) = Both
    BY <1>2, <1>4, AppendItem
<1> HIDE DEF u
<1> QED
    BY <1>1, <1>3, <1>5, <1>6, <1>7, WriteKeeps

\* colorizer.cc:27-30: it ends.
LEMMA ColorEndKeeps == ConsoleInv /\ ColorEnd => ConsoleInv'
<1> SUFFICES ASSUME ConsoleInv, ColorEnd
             PROVE  ConsoleInv'
    OBVIOUS
<1> DEFINE x == Character(j)
           y == color_code_reset
           t == Append(colored_source, y)
           u == Append(t, x)
           items == <<y, x>>
<1>1. /\ begin # end /\ j = end /\ enabled /\ Write(items)
      /\ j \in Nat /\ begin \in Nat /\ end \in Nat
    BY AtWrite DEF ColorEnd, Write
<1>2. /\ y \in Item /\ y.kind = "reset" /\ x \in Item /\ x.kind = "char"
    BY <1>1, Codes, AtWrite DEF ConsoleInv, Character
<1>3. u = colored_source \o items
    BY <1>1, <1>2, AtWrite, OneByOne
<1> HIDE DEF y, items
<1>4. /\ t \in Seq(Item) /\ Shows(t, j) /\ InForce(t, Len(t)) = {}
      /\ begin <= end => Painted(t)
    BY <1>1, <1>2, AtWrite, AppendItem, AppendCode
<1>5. begin <= end => Wanted(j) = {}
    BY <1>1, SMT DEF Wanted, InRange
<1> HIDE DEF t
<1>6. /\ u \in Seq(Item) /\ Shows(u, j + 1) /\ (begin <= end => Painted(u))
      /\ InForce(u, Len(u)) = {}
    BY <1>1, <1>2, <1>4, <1>5, AppendItem, AppendCharacter
<1>7. ~(begin < j + 1 /\ j + 1 <= end)
    BY <1>1, SMT
<1> HIDE DEF u
<1> QED
    BY <1>1, <1>3, <1>6, <1>7, WriteKeeps

\* colorizer.cc:30: any other character.
LEMMA PlainKeeps == ConsoleInv /\ Plain => ConsoleInv'
<1> SUFFICES ASSUME ConsoleInv, Plain
             PROVE  ConsoleInv'
    OBVIOUS
<1> DEFINE x == Character(j)
           s == colored_source
           u == Append(s, x)
           items == <<x>>
<1>1. /\ begin # j /\ end # j /\ enabled /\ Write(items)
      /\ j \in Nat /\ begin \in Nat /\ end \in Nat
    BY AtWrite DEF Plain, Write
<1>2. x \in Item /\ x.kind = "char"
    BY <1>1, AtWrite DEF Character
<1>3. u = s \o items
    BY <1>1, <1>2, AtWrite, OneByOne
<1>4. begin <= end => Wanted(j) = IF begin < j /\ j <= end THEN Both ELSE {}
    BY <1>1, SMT DEF Wanted, InRange
<1>5. begin <= end => (begin < j /\ j <= end <=> begin < j + 1 /\ j + 1 <= end)
    BY <1>1, SMT
<1>6. /\ s \in Seq(Item) /\ Shows(s, j)
      /\ begin <= end => Painted(s) /\ InForce(s, Len(s)) = IF begin < j /\ j <= end THEN Both ELSE {}
    BY <1>1, AtWrite
<1> HIDE DEF s, items
<1>7. u \in Seq(Item) /\ Shows(u, j + 1) /\ (begin <= end => Painted(u))
    BY <1>1, <1>2, <1>4, <1>6, AppendItem, AppendCharacter
<1>8. begin <= end => InForce(u, Len(u)) = IF begin < j + 1 /\ j + 1 <= end THEN Both ELSE {}
    BY <1>2, <1>5, <1>6, AppendItem
<1> HIDE DEF u
<1> QED
    BY <1>1, <1>3, <1>7, <1>8, WriteKeeps DEF s

-----------------------------------------------------------------------------
\* A text without colours.
LEMMA TextFacts ==
    ASSUME Typed
    PROVE  /\ Text \in Seq(Item) /\ Len(Text) = length /\ Shows(Text, length)
           /\ \A k \in 0 .. length : InForce(Text, k) = {}
           /\ Characters(Text) = 1 .. length
<1>1. length \in Nat
    BY DEF Typed
<1>2. \A k \in 1 .. length : Character(k - 1) \in Item /\ Character(k - 1).kind = "char" /\ Character(k - 1).is = k - 1
    <2> SUFFICES ASSUME NEW k \in 1 .. length
                 PROVE  Character(k - 1) \in Item /\ Character(k - 1).kind = "char" /\ Character(k - 1).is = k - 1
        OBVIOUS
    <2>1. k - 1 \in Nat
        BY <1>1, SMT
    <2> QED
        BY <2>1 DEF Character, Item
<1>3. Text \in Seq(Item) /\ Len(Text) = length /\ DOMAIN Text = 1 .. length
    BY <1>1, <1>2 DEF Text
<1>4. \A k \in 1 .. length : Text[k].kind = "char" /\ Text[k].is = k - 1
    BY <1>2 DEF Text
<1> DEFINE t == Text
<1> HIDE DEF t
<1>5. Characters(t) = 1 .. length
    BY <1>3, <1>4 DEF Characters, t
<1>6. ASSUME NEW k \in 0 .. length
      PROVE  InForce(t, k) = {}
    <2>1. \A m \in 1 .. k : m \in 1 .. length
        BY <1>1, SMT
    <2>2. \A m \in 1 .. k : t[m].kind # "color"
        BY <1>4, <2>1 DEF t
    <2> QED
        BY <2>2, Zenon DEF InForce
<1>7. {t[k].is : k \in Characters(t)} = 0 .. length - 1
    <2>1. \A k \in 1 .. length : k - 1 \in 0 .. length - 1
        BY <1>1, SMT
    <2>2. \A y \in 0 .. length - 1 : y + 1 \in 1 .. length /\ y = (y + 1) - 1
        BY <1>1, SMT
    <2>3. \A k \in 1 .. length : t[k].is = k - 1
        BY <1>4 DEF t
    <2>4. \A y : y \in {t[k].is : k \in Characters(t)} => y \in 0 .. length - 1
        BY <1>5, <2>1, <2>3
    <2>5. \A y \in 0 .. length - 1 : y \in {t[k].is : k \in Characters(t)}
        <3> SUFFICES ASSUME NEW y \in 0 .. length - 1
                     PROVE  y \in {t[k].is : k \in Characters(t)}
            OBVIOUS
        <3>1. y + 1 \in Characters(t) /\ t[y + 1].is = y
            BY <1>5, <2>2, <2>3
        <3> QED
            BY <3>1
    <2> QED
        BY <2>4, <2>5
<1>8. \A k, m \in 1 .. length : k < m => t[k].is < t[m].is
    BY <1>1, <1>4, SMT DEF t
<1> QED
    BY <1>3, <1>5, <1>6, <1>7, <1>8 DEF Shows, t

\* What is said of the stream depends on nothing else.
LEMMA SameStream ==
    ASSUME UNCHANGED <<args, j, colored_source>>
    PROVE  /\ Shows(colored_source, j)' = Shows(colored_source, j)
           /\ Painted(colored_source)' = Painted(colored_source)
           /\ InForce(colored_source, Len(colored_source))' = InForce(colored_source, Len(colored_source))
           /\ Both' = Both
<1>1. /\ enabled' = enabled /\ length' = length /\ begin' = begin /\ end' = end
      /\ fg_color' = fg_color /\ bg_color' = bg_color /\ j' = j
      /\ colored_source' = colored_source
    BY DEF args
<1> QED
    BY <1>1 DEF Shows, Painted, InForce, Characters, Wanted, InRange, Both

\* colorizer.cc:17, 33: the call returns.
LEMMA ReturnKeeps == ConsoleInv /\ Return => ConsoleInv'
<1> SUFFICES ASSUME ConsoleInv, Return
             PROVE  ConsoleInv'
    OBVIOUS
<1>1. /\ ~returned /\ (enabled => j = length) /\ returned' = TRUE
      /\ colored_source' = IF enabled THEN colored_source ELSE Text
      /\ enabled' = enabled /\ length' = length /\ begin' = begin /\ end' = end
      /\ fg_color' = fg_color /\ bg_color' = bg_color /\ j' = j
    BY DEF Return, args
<1>2. Typed /\ Text \in Seq(Item)
    BY TextFacts DEF ConsoleInv
<1>3. Typed'
    BY <1>1, <1>2 DEF Typed
<1>4. Text' = Text
    BY <1>1 DEF Text
<1>5. CASE enabled
    <2>1. colored_source' = colored_source
        BY <1>1, <1>5
    <2>2. /\ Shows(colored_source, j)' = Shows(colored_source, j)
          /\ Painted(colored_source)' = Painted(colored_source)
          /\ InForce(colored_source, Len(colored_source))' = InForce(colored_source, Len(colored_source))
          /\ Both' = Both
        BY <1>1, <2>1, SameStream DEF args
    <2> QED
        BY <1>1, <1>3, <1>5, <2>2 DEF ConsoleInv
<1>6. CASE ~enabled
    BY <1>1, <1>3, <1>4, <1>6 DEF ConsoleInv
<1> QED
    BY <1>5, <1>6

\* A step that changes nothing.
LEMMA ConsoleStutterKeeps == ConsoleInv /\ UNCHANGED vars => ConsoleInv'
<1> SUFFICES ASSUME ConsoleInv, UNCHANGED vars
             PROVE  ConsoleInv'
    OBVIOUS
<1>1. /\ enabled' = enabled /\ length' = length /\ begin' = begin /\ end' = end
      /\ fg_color' = fg_color /\ bg_color' = bg_color /\ j' = j
      /\ colored_source' = colored_source /\ returned' = returned
    BY DEF vars, args
<1>2. Typed' = Typed /\ Text' = Text /\ Both' = Both
    BY <1>1 DEF Typed, Text, Both
<1>3. /\ Shows(colored_source, j)' = Shows(colored_source, j)
      /\ Painted(colored_source)' = Painted(colored_source)
      /\ InForce(colored_source, Len(colored_source))' = InForce(colored_source, Len(colored_source))
    BY SameStream DEF vars
<1> QED
    BY <1>1, <1>2, <1>3 DEF ConsoleInv

\* Nothing is written when the loop begins.
LEMMA ConsoleInit == Init => ConsoleInv
<1> SUFFICES ASSUME Init
             PROVE  ConsoleInv
    OBVIOUS
<1>1. /\ enabled \in BOOLEAN /\ returned = FALSE /\ bg_color = black
      /\ j = 0 /\ colored_source = << >>
    BY DEF Init
<1>2. length \in Nat /\ begin \in Nat /\ end \in Nat /\ fg_color \in Nat
    BY MaxLengthAssumption, ColorsAssumption, SMT DEF Init
<1>3. << >> \in Seq(Item) /\ Len(<< >>) = 0 /\ 0 \in 0 .. length
    BY <1>2, SMT
<1>4. Typed
    BY <1>1, <1>2, <1>3 DEF Typed
<1>5. Characters(<< >>) = {}
    BY SMT DEF Characters
<1>6. Shows(<< >>, 0)
    <2>1. 0 .. 0 - 1 = {}
        BY SMT
    <2> QED
        BY <1>5, <2>1 DEF Shows
<1>7. Painted(<< >>)
    BY <1>5 DEF Painted
<1>8. InForce(<< >>, 0) = {}
    <2>1. 1 .. 0 = {}
        BY SMT
    <2> QED
        BY <2>1 DEF InForce
<1>9. ~(begin < 0)
    BY <1>2, SMT
<1> QED
    BY <1>1, <1>3, <1>4, <1>6, <1>7, <1>8, <1>9 DEF ConsoleInv

\* The inductive invariant holds throughout.
THEOREM ConsoleInvariant == Spec => []ConsoleInv
<1>1. ConsoleInv /\ [Next]_vars => ConsoleInv'
    BY ColorOneKeeps, ColorStartKeeps, ColorEndKeeps, PlainKeeps, ReturnKeeps, ConsoleStutterKeeps, Zenon
       DEF Next
<1> QED
    BY <1>1, ConsoleInit, PTL DEF Spec

-----------------------------------------------------------------------------
\* colorizer.cc:15-34: colorize_range shows every character once and in order,
\* and colours exactly those of a range given in order - of a text of any
\* length, and whatever the colours are.
THEOREM ConsoleColorsRange == Spec => []ColorsRange
<1>1. ConsoleInv => ColorsRange
    <2> SUFFICES ASSUME ConsoleInv, returned
                 PROVE  /\ ShowsText(colored_source)
                        /\ begin <= end =>
                             \A k \in Characters(colored_source) :
                                InForce(colored_source, k) =
                                   IF enabled /\ InRange(colored_source[k].is) THEN {bg_color + 10, fg_color}
                                   ELSE {}
        BY DEF ColorsRange
    <2>1. Shows(colored_source, length)
        BY TextFacts DEF ConsoleInv
    <2>2. begin <= end => \A k \in Characters(colored_source) : InForce(colored_source, k) = Wanted(colored_source[k].is)
        <3>1. CASE enabled
            BY <3>1 DEF ConsoleInv, Painted
        <3>2. CASE ~enabled
            <4>1. colored_source = Text /\ Characters(Text) = 1 .. length /\ length \in Nat
                BY <3>2, TextFacts DEF ConsoleInv, Typed
            <4>2. \A k \in 1 .. length : k \in 0 .. length
                BY <4>1, SMT
            <4>3. \A k \in 1 .. length : InForce(Text, k) = {}
                BY <4>2, TextFacts DEF ConsoleInv
            <4> QED
                BY <3>2, <4>1, <4>3 DEF Wanted
        <3> QED
            BY <3>1, <3>2
    <2>3. ShowsText(colored_source)
        BY <2>1 DEF Shows, ShowsText
    <2> QED
        BY <2>2, <2>3, Zenon DEF Wanted, Both
<1> QED
    BY <1>1, ConsoleInvariant, PTL

\* colorizer.cc:12, 27-28: behind a coloured text, and behind a coloured range
\* that ends before the text does, the terminal has no colours left.
THEOREM ConsoleLeavesDefault == Spec => []LeavesDefault
<1>1. ConsoleInv => LeavesDefault
    <2> SUFFICES ASSUME ConsoleInv
                 PROVE  LeavesDefault
        OBVIOUS
    <2>1. /\ Text \in Seq(Item) /\ length \in Nat /\ InForce(Text, Len(Text)) = {}
        <3>1. length \in Nat /\ length \in 0 .. length
            BY SMT DEF ConsoleInv, Typed
        <3> QED
            BY <3>1, TextFacts DEF ConsoleInv
    <2>2. InForce(colorize, Len(colorize)) = {}
        <3>1. CASE enabled
            <4> DEFINE s == ColorsOn \o Text
            <4>1. s \in Seq(Item) /\ color_code_reset \in Item /\ color_code_reset.kind = "reset"
                BY <2>1, Codes DEF ConsoleInv
            <4>2. s \o <<color_code_reset>> = Append(s, color_code_reset)
                BY <4>1, OneByOne
            <4>3. InForce(Append(s, color_code_reset), Len(Append(s, color_code_reset))) = {}
                BY <4>1, AppendItem
            <4> QED
                BY <3>1, <4>2, <4>3 DEF colorize
        <3>2. CASE ~enabled
            BY <2>1, <3>2 DEF colorize
        <3> QED
            BY <3>1, <3>2
    <2>3. ASSUME returned, begin <= end, end < length
          PROVE  InForce(colored_source, Len(colored_source)) = {}
        <3>1. CASE enabled
            <4>1. j = length /\ ~(length <= end)
                BY <2>3, <3>1, SMT DEF ConsoleInv, Typed
            <4> QED
                BY <2>3, <3>1, <4>1 DEF ConsoleInv
        <3>2. CASE ~enabled
            BY <2>1, <2>3, <3>2 DEF ConsoleInv
        <3> QED
            BY <3>1, <3>2
    <2> QED
        BY <2>2, <2>3 DEF LeavesDefault
<1> QED
    BY <1>1, ConsoleInvariant, PTL

-----------------------------------------------------------------------------
\* hex_formatter.cc: a dump of any buffer holds every byte once and in order,
\* in rows of sixteen of which only the last is padded, and its character beside it.
THEOREM DumpsAnyBuffer == \A buf \in Seq(Nat) : Dumps(buf)
<1> SUFFICES ASSUME NEW buf \in Seq(Nat)
             PROVE  Dumps(buf)
    OBVIOUS
<1> DEFINE L == Len(buf)
           R == (L + 15) \div 16
           rows == dump_to_string(buf)
           left(r) == IF L - (r - 1) * 16 < 16 THEN L - (r - 1) * 16 ELSE 16
<1>1. L \in Nat /\ \A k \in 1 .. L : buf[k] \in Nat
    OBVIOUS
<1> HIDE DEF L
<1>2. R \in Nat /\ L <= 16 * R /\ 16 * R < L + 16
    BY <1>1, SMT
<1> HIDE DEF R
<1>3. /\ DOMAIN rows = 1 .. R
      /\ \A r \in 1 .. R :
           /\ rows[r].at = (r - 1) * 16
           /\ rows[r].hex = [c \in 1 .. 16 |-> IF (r - 1) * 16 + c <= L THEN buf[(r - 1) * 16 + c] ELSE Blank]
    BY DEF dump_to_string, L, R
<1> DEFINE shown(b) == IF isprint(b) THEN b ELSE 46
<1>4. \A r \in 1 .. R : rows[r].chars = [c \in 1 .. left(r) |-> shown(buf[(r - 1) * 16 + c])]
    BY <1>3 DEF dump_to_string, L, R
<1>5. Len(rows) = R
    BY <1>2, <1>3 DEF dump_to_string
<1> HIDE DEF rows, shown
<1>6. ASSUME NEW n \in 1 .. 16 * R
      PROVE  rows[((n - 1) \div 16) + 1].hex[((n - 1) % 16) + 1] = IF n <= L THEN buf[n] ELSE Blank
    <2> DEFINE r == ((n - 1) \div 16) + 1
               c == ((n - 1) % 16) + 1
    <2>1. r \in 1 .. R /\ c \in 1 .. 16 /\ (r - 1) * 16 + c = n
        BY <1>2, SMT
    <2> HIDE DEF r, c
    <2>2. rows[r].hex[c] = IF (r - 1) * 16 + c <= L THEN buf[(r - 1) * 16 + c] ELSE Blank
        BY <1>3, <2>1
    <2> QED
        BY <2>1, <2>2 DEF r, c
<1>7. ASSUME NEW r \in 1 .. R
      PROVE  /\ rows[r].at = 16 * (r - 1) /\ DOMAIN rows[r].hex = 1 .. 16
             /\ rows[r].chars = [c \in {c \in 1 .. 16 : rows[r].hex[c] # Blank} |->
                                   IF isprint(rows[r].hex[c]) THEN rows[r].hex[c] ELSE 46]
    <2>1. (r - 1) * 16 = 16 * (r - 1) /\ left(r) \in 1 .. 16
        BY <1>1, <1>2, SMT
    <2>2. ASSUME NEW c \in 1 .. 16
          PROVE  /\ c \in 1 .. left(r) <=> rows[r].hex[c] # Blank
                 /\ c \in 1 .. left(r) => rows[r].hex[c] = buf[(r - 1) * 16 + c]
        <3>1. (r - 1) * 16 + c \in 1 .. 16 * R
            BY <1>2, SMT
        <3>2. (r - 1) * 16 + c <= L => buf[(r - 1) * 16 + c] # Blank
            BY <1>1, <1>2, <3>1, SMT DEF Blank
        <3>3. c \in 1 .. left(r) <=> (r - 1) * 16 + c <= L
            BY <1>1, <1>2, SMT
        <3> QED
            BY <1>3, <3>2, <3>3
    <2>3. \A c \in 1 .. left(r) : c \in 1 .. 16
        BY <2>1, SMT
    <2>4. \A c : c \in 1 .. left(r) <=> c \in {d \in 1 .. 16 : rows[r].hex[d] # Blank}
        BY <2>2, <2>3
    <2>5. 1 .. left(r) = {d \in 1 .. 16 : rows[r].hex[d] # Blank}
        BY <2>4
    <2>6. \A c \in 1 .. left(r) : rows[r].hex[c] = buf[(r - 1) * 16 + c]
        BY <2>2, <2>3
    <2>7. rows[r].chars = [c \in 1 .. left(r) |-> shown(buf[(r - 1) * 16 + c])]
        BY <1>4
    <2>8. DOMAIN rows[r].hex = 1 .. 16
        BY <1>3
    <2>9. rows[r].at = 16 * (r - 1)
        BY <1>3, <2>1
    <2> HIDE DEF left
    <2>10. rows[r].chars = [c \in 1 .. left(r) |-> shown(rows[r].hex[c])]
        BY <2>6, <2>7
    <2>11. rows[r].chars = [c \in {d \in 1 .. 16 : rows[r].hex[d] # Blank} |-> shown(rows[r].hex[c])]
        BY <2>5, <2>10
    <2> QED
        BY <2>8, <2>9, <2>11 DEF shown
<1> QED
    BY <1>2, <1>3, <1>5, <1>6, <1>7 DEF Dumps, rows, L

\* The buffers of the run are among them.
THEOREM ConsoleDumpsEveryByte == Spec => []DumpsEveryByte
<1>1. ConsoleInv => DumpsEveryByte
    <2> SUFFICES ASSUME ConsoleInv
                 PROVE  Dumps([k \in 1 .. length |-> (k * 37) % 256])
        BY DEF DumpsEveryByte
    <2>1. length \in Nat
        BY DEF ConsoleInv, Typed
    <2>2. \A k \in 1 .. length : (k * 37) % 256 \in Nat
        BY <2>1, SMT
    <2>3. [k \in 1 .. length |-> (k * 37) % 256] \in Seq(Nat)
        BY <2>1, <2>2
    <2> QED
        BY <2>3, DumpsAnyBuffer
<1> QED
    BY <1>1, ConsoleInvariant, PTL
=============================================================================
