--------------------------- MODULE ErrorMessages ---------------------------
(***************************************************************************)
(* How the two tables of error messages are listed.  Of a message the      *)
(* model keeps what a caller must get right: how many arguments its format *)
(* takes (a `*' for a width or precision takes one too) and the positions  *)
(* of the arguments that are redacted in logs.                             *)
(***************************************************************************)
EXTENDS Integers, Sequences, FiniteSets, SequencesExt, TLC

\* Codes that follow one another in a listing, in ascending order.
LOCAL Ascending(codes) == [k \in 1..Cardinality(codes) |-> Min(codes) + k - 1]

NoneRedacted == [code \in {} |-> {}]

\* The entries <<code, message>> of a part of a listing: the codes as
\* intervals in listing order, one argument count for each, and the redacted
\* positions of the codes that have any.
Messages(intervals, args, redacted) ==
   LET codes == FlattenSeq([i \in DOMAIN intervals |-> Ascending(intervals[i])])
   IN  [k \in DOMAIN codes |->
          <<codes[k],
            [args |-> args[k],
             redacted |-> IF codes[k] \in DOMAIN redacted THEN redacted[codes[k]]
                                                          ELSE {}]>>]
=============================================================================
