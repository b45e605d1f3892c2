----------------------------- MODULE MapProofs ------------------------------
(***************************************************************************)
(* What becomes of an initializer list, for every list: the map has a      *)
(* value for each key that is listed, the one it is listed with first.     *)
(***************************************************************************)
EXTENDS StaticMaps, Keywords, TLAPS

\* The keys of the first n entries of a list.
Keys(list, n) == {list[k][1] : k \in 1 .. n}

\* The k-th entry is the first with its key.
First(list, k) == \A i \in 1 .. (k - 1) : list[i][1] # list[k][1]

\* The first n entries give no key two values.
OneValue(list, n) ==
    \A i, k \in 1 .. n : list[i][1] = list[k][1] => list[i][2] = list[k][2]

\* The map that a list stands for.
TableOf(list) ==
    [key \in Keys(list, Len(list)) |->
       list[CHOOSE i \in 1 .. Len(list) : First(list, i) /\ list[i][1] = key][2]]

\* The inductive invariant: the keys are those inserted so far, and each has the
\* value of the first entry it is listed in.
MapInv ==
    /\ name \in DOMAIN Lists
    /\ next \in 1 .. Len(Lists[name]) + 1
    /\ built = [key \in DOMAIN built |-> built[key]]
    /\ DOMAIN built = Keys(Lists[name], next - 1)
    /\ \A key \in DOMAIN built :
         \E i \in 1 .. (next - 1) :
            First(Lists[name], i) /\ Entry(i)[1] = key /\ built[key] = Entry(i)[2]

-----------------------------------------------------------------------------
\* One more entry.
LEMMA InsertKeeps == MapInv /\ Insert => MapInv'
<1> SUFFICES ASSUME MapInv, Insert
             PROVE  MapInv'
    OBVIOUS
<1> DEFINE list == Lists[name]
           n == next
           key == list[n][1]
           value == list[n][2]
<1>1. /\ name' = name /\ next' = n + 1 /\ Lists[name]' = list
      /\ Len(list) \in Nat /\ n \in 1 .. Len(list) /\ n \in Nat
    BY ListsAssumption, SMT DEF MapInv, Insert, Complete
<1>2. name \in DOMAIN Lists
    BY DEF MapInv
<1>3. built' = Put(built, key, value)
    BY DEF Insert, Entry
<1>4. /\ built = [k \in DOMAIN built |-> built[k]]
      /\ DOMAIN built = Keys(list, n - 1)
      /\ \A k \in DOMAIN built :
           \E i \in 1 .. n - 1 : First(list, i) /\ list[i][1] = k /\ built[k] = list[i][2]
    BY DEF MapInv, Entry
<1> HIDE DEF list, n
<1>5. /\ next' \in 1 .. Len(list) + 1 /\ next' - 1 = n
      /\ 1 .. n = (1 .. n - 1) \cup {n} /\ \A i \in 1 .. n - 1 : i \in 1 .. n
    BY <1>1, SMT
<1>6. Keys(list, n) = Keys(list, n - 1) \cup {key}
    BY <1>5 DEF Keys
<1>7. /\ DOMAIN built' = DOMAIN built \cup {key}
      /\ \A k \in DOMAIN built : built'[k] = built[k]
      /\ key \notin DOMAIN built => built'[key] = value
      /\ built' = [k \in DOMAIN built' |-> built'[k]]
    BY <1>3 DEF Put
<1>8. n \in 1 .. n /\ (key \notin DOMAIN built => First(list, n))
    BY <1>1, <1>4 DEF First, Keys
<1>9. \A k \in DOMAIN built' :
        \E i \in 1 .. n : First(list, i) /\ list[i][1] = k /\ built'[k] = list[i][2]
    BY <1>4, <1>5, <1>7, <1>8
<1>10. DOMAIN built' = Keys(list, n)
    BY <1>4, <1>6, <1>7
<1> QED
    BY <1>1, <1>2, <1>5, <1>7, <1>9, <1>10 DEF MapInv, Entry, list, n

\* The empty map.
LEMMA MapInit == Init => MapInv
<1> SUFFICES ASSUME Init
             PROVE  MapInv
    OBVIOUS
<1>1. name \in DOMAIN Lists /\ next = 1 /\ built = << >> /\ Len(Lists[name]) \in Nat
    BY ListsAssumption DEF Init
<1>2. 1 \in 1 .. Len(Lists[name]) + 1 /\ 1 .. 1 - 1 = {}
    BY <1>1, SMT
<1>3. DOMAIN << >> = {} /\ << >> = [key \in DOMAIN << >> |-> << >>[key]]
    OBVIOUS
<1>4. Keys(Lists[name], 1 - 1) = {}
    BY <1>2 DEF Keys
<1> QED
    BY <1>1, <1>2, <1>3, <1>4 DEF MapInv

\* The inductive invariant holds throughout.
THEOREM MapInvariant == Spec => []MapInv
<1>1. MapInv /\ [Insert]_vars => MapInv'
    <2>1. MapInv /\ UNCHANGED vars => MapInv'
        BY DEF MapInv, vars, Keys, First, Entry
    <2> QED
        BY <2>1, InsertKeeps
<1> QED
    BY <1>1, MapInit, PTL DEF Spec

-----------------------------------------------------------------------------
\* Entries are lost exactly where a list gives one key two values.
LEMMA KeptIsOneValue == MapInv => (EntriesKept <=> OneValue(Lists[name], next - 1))
<1> SUFFICES ASSUME MapInv
             PROVE  EntriesKept <=> OneValue(Lists[name], next - 1)
    OBVIOUS
<1> DEFINE list == Lists[name]
           N == 1 .. next - 1
<1>1. /\ DOMAIN built = {list[k][1] : k \in N}
      /\ \A key \in DOMAIN built : \E i \in N : list[i][1] = key /\ built[key] = list[i][2]
    BY DEF MapInv, Keys, Entry
<1>2. EntriesKept <=> \A k \in N : list[k][1] \in DOMAIN built /\ built[list[k][1]] = list[k][2]
    BY DEF EntriesKept, Entry
<1>3. OneValue(list, next - 1) <=> \A i, k \in N : list[i][1] = list[k][1] => list[i][2] = list[k][2]
    BY DEF OneValue
<1> HIDE DEF list, N
<1>4. \A k \in N : list[k][1] \in DOMAIN built
    BY <1>1
<1>5. ASSUME \A k \in N : built[list[k][1]] = list[k][2]
      PROVE  \A i, k \in N : list[i][1] = list[k][1] => list[i][2] = list[k][2]
    <2> SUFFICES ASSUME NEW i \in N, NEW k \in N, list[i][1] = list[k][1]
                 PROVE  list[i][2] = list[k][2]
        OBVIOUS
    <2>1. built[list[i][1]] = list[i][2] /\ built[list[k][1]] = list[k][2]
        BY <1>5
    <2> QED
        BY <2>1
<1>6. ASSUME \A i, k \in N : list[i][1] = list[k][1] => list[i][2] = list[k][2],
             NEW k \in N
      PROVE  built[list[k][1]] = list[k][2]
    <2>1. PICK i \in N : list[i][1] = list[k][1] /\ built[list[k][1]] = list[i][2]
        BY <1>1, <1>4
    <2> QED
        BY <1>6, <2>1
<1> QED
    BY <1>2, <1>3, <1>4, <1>5, <1>6 DEF list

\* An initializer list loses an entry as soon as it has one whose key was listed
\* before with another value, and only then.
THEOREM MapsLoseRepeatedKeys == Spec => [](EntriesKept <=> OneValue(Lists[name], next - 1))
BY MapInvariant, KeptIsOneValue, PTL

\* Of lists that give no key two values every map keeps all entries, at each
\* step of its construction.
THEOREM MapsKeepEntries ==
    ASSUME \A t \in DOMAIN Lists : OneValue(Lists[t], Len(Lists[t]))
    PROVE  Spec => []EntriesKept
<1>1. MapInv => EntriesKept
    <2> SUFFICES ASSUME MapInv
                 PROVE  OneValue(Lists[name], next - 1)
        BY KeptIsOneValue
    <2>1. OneValue(Lists[name], Len(Lists[name])) /\ Len(Lists[name]) \in Nat
        BY ListsAssumption DEF MapInv
    <2>2. \A i \in 1 .. next - 1 : i \in 1 .. Len(Lists[name])
        BY <2>1, SMT DEF MapInv
    <2> QED
        BY <2>1, <2>2 DEF OneValue
<1> QED
    BY <1>1, MapInvariant, PTL

\* When main() begins each table is the map that its list stands for.
THEOREM MapsAreTheirLists == Spec => [](Complete => built = TableOf(Lists[name]))
<1>1. MapInv => (Complete => built = TableOf(Lists[name]))
    <2> SUFFICES ASSUME MapInv, Complete
                 PROVE  built = TableOf(Lists[name])
        OBVIOUS
    <2> DEFINE list == Lists[name]
               n == Len(list)
               Of(key, i) == First(list, i) /\ list[i][1] = key
    <2>1. n \in Nat /\ next - 1 = n
        BY ListsAssumption, SMT DEF MapInv, Complete
    <2>2. /\ built = [key \in DOMAIN built |-> built[key]] /\ DOMAIN built = Keys(list, n)
          /\ \A key \in DOMAIN built : \E i \in 1 .. n : Of(key, i) /\ built[key] = list[i][2]
        BY <2>1 DEF MapInv, Entry
    <2>3. ASSUME NEW key, NEW i \in 1 .. n, NEW k \in 1 .. n, Of(key, i), Of(key, k)
          PROVE  i = k
        <3>1. i \in 1 .. k - 1 \/ k \in 1 .. i - 1 \/ i = k
            BY <2>1, SMT
        <3> QED
            BY <2>3, <3>1 DEF First
    <2>4. ASSUME NEW key \in Keys(list, n)
          PROVE  built[key] = list[CHOOSE i \in 1 .. n : Of(key, i)][2]
        <3>1. PICK i \in 1 .. n : Of(key, i) /\ built[key] = list[i][2]
            BY <2>2
        <3> DEFINE c == CHOOSE k \in 1 .. n : Of(key, k)
        <3> HIDE DEF Of
        <3>2. c \in 1 .. n /\ Of(key, c)
            BY <3>1
        <3>3. c = i
            BY <2>3, <3>1, <3>2
        <3> QED
            BY <3>1, <3>3
    <2>5. TableOf(list) = [key \in Keys(list, n) |-> list[CHOOSE i \in 1 .. n : Of(key, i)][2]]
        BY DEF TableOf
    <2> HIDE DEF Of, list, n
    <2>6. built = [key \in Keys(list, n) |-> built[key]]
        BY <2>2
    <2> QED
        BY <2>4, <2>5, <2>6 DEF list
<1> QED
    BY <1>1, MapInvariant, PTL

\* Where no key has two values, that is also the map that Keywords looks words
\* up in: any entry with the key will do.
THEOREM MapsAreMapOf ==
    ASSUME \A t \in DOMAIN Lists : OneValue(Lists[t], Len(Lists[t]))
    PROVE  Spec => [](Complete => built = MapOf(Lists[name]))
<1>1. ASSUME MapInv, Complete
      PROVE  TableOf(Lists[name]) = MapOf(Lists[name])
    <2> DEFINE list == Lists[name]
               n == Len(list)
               first(key) == CHOOSE i \in 1 .. n : First(list, i) /\ list[i][1] = key
               any(key) == CHOOSE e \in ToSet(list) : e[1] = key
    <2>1. /\ n \in Nat /\ DOMAIN list = 1 .. n /\ OneValue(list, n)
          /\ ToSet(list) = {list[i] : i \in 1 .. n}
        BY <1>1, ListsAssumption DEF MapInv, ToSet
    <2>2. {e[1] : e \in ToSet(list)} = Keys(list, n)
        BY <2>1 DEF Keys
    <2>3. /\ TableOf(list) = [key \in Keys(list, n) |-> list[first(key)][2]]
          /\ MapOf(list) = [key \in Keys(list, n) |-> any(key)[2]]
        BY <2>2 DEF TableOf, MapOf
    <2>4. ASSUME NEW key \in Keys(list, n)
          PROVE  list[first(key)][2] = any(key)[2]
        <3>1. next - 1 = n
            BY <1>1, <2>1, SMT DEF MapInv, Complete
        <3>2. \E i \in 1 .. n : First(list, i) /\ list[i][1] = key
            BY <1>1, <3>1 DEF MapInv, Entry
        <3>3. first(key) \in 1 .. n /\ list[first(key)][1] = key
            BY <3>2
        <3>4. any(key) \in ToSet(list) /\ any(key)[1] = key
            BY <2>2, <2>4
        <3> HIDE DEF first, any
        <3>5. PICK k \in 1 .. n : any(key) = list[k]
            BY <2>1, <3>4
        <3>6. list[first(key)][2] = list[k][2]
            BY <2>1, <3>3, <3>4, <3>5 DEF OneValue
        <3> QED
            BY <3>5, <3>6
    <2> HIDE DEF list, n, first, any
    <2> QED
        BY <2>3, <2>4 DEF list
<1>2. MapInv /\ (Complete => built = TableOf(Lists[name])) => (Complete => built = MapOf(Lists[name]))
    BY <1>1
<1> QED
    BY <1>2, MapInvariant, MapsAreTheirLists, PTL
=============================================================================
