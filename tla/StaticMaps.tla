----------------------------- MODULE StaticMaps -----------------------------
(***************************************************************************)
(* The static tables of the program are std::unordered_maps made from      *)
(* initializer lists before main() runs: the entries are inserted in the   *)
(* order they are listed, and an entry whose key is already there is       *)
(* dropped without a word.                                                 *)
(***************************************************************************)
EXTENDS Integers, Sequences

CONSTANT Lists  \* for the name of each table, its entries <<key, value>>

ASSUME ListsAssumption ==
   \A t \in DOMAIN Lists : Len(Lists[t]) \in Nat /\ DOMAIN Lists[t] = 1..Len(Lists[t])

VARIABLES
   name,     \* the table being built
   next,     \* the number of the entry to insert next
   built     \* the map so far

vars == <<name, next, built>>

Entry(k) == Lists[name][k]
Complete == next > Len(Lists[name])

Init == name \in DOMAIN Lists /\ next = 1 /\ built = <<>>

\* A map with one entry more.  A key that is there keeps its value.
Put(map, key, value) ==
   [k \in DOMAIN map \cup {key} |-> IF k \in DOMAIN map THEN map[k] ELSE value]

Insert ==
   /\ ~Complete
   /\ built' = Put(built, Entry(next)[1], Entry(next)[2])
   /\ next' = next + 1
   /\ UNCHANGED name

Spec == Init /\ [][Insert]_vars

-----------------------------------------------------------------------------
\* Every entry listed so far is in the map with the value it was listed with:
\* no key is written twice in a list of hundreds.
EntriesKept ==
   \A k \in 1..(next - 1) :
      Entry(k)[1] \in DOMAIN built /\ built[Entry(k)[1]] = Entry(k)[2]
=============================================================================
