------------------------------- MODULE SqlMode -------------------------------
(***************************************************************************)
(* parser/mysql/const.hh: the SQL mode, a 64-bit word of flags, as the set *)
(* of the numbers of the bits that are set in it.                          *)
(***************************************************************************)
EXTENDS Naturals

\* enum : uint64_t; the bit of each flag, 1ul << n.
Mode ==
    [RealAsFloat            |-> 0,
     PipesAsConcat          |-> 2,    ANSIQuotes             |-> 3,
     IgnoreSpace            |-> 4,    NotUsed                |-> 5,
     OnlyFullGroupBy        |-> 6,    NoUnsignedSubtraction  |-> 7,
     NoDirInCreate          |-> 8,    PostgreSQL             |-> 9,
     Oracle                 |-> 10,   MsSQL                  |-> 11,
     Db2                    |-> 12,   Maxdb                  |-> 13,
     NoKeyOptions           |-> 14,   NoTableOptions         |-> 15,
     NoFieldOptions         |-> 16,   MySQL323               |-> 17,
     MySQL40                |-> 18,   ANSI                   |-> 19,
     NoAutoValueOnZero      |-> 20,   NoBackslashEscapes     |-> 21,
     StrictTransTables      |-> 22,   StrictAllTables        |-> 23,
     NoZeroInDate           |-> 24,   NoZeroDate             |-> 25,
     InvalidDates           |-> 26,   ErrorForDivisionByZero |-> 27,
     Traditional            |-> 28,   NoAutoCreateUser       |-> 29,
     HighNotPrecedence      |-> 30,   NoEngineSubstitution   |-> 31,
     PadCharToFullLength    |-> 32,   AllowInvalidDates      |-> 33]

ModeNone == {}

SQLMode == SUBSET (0 .. 63)

HasNoZeroDateMode(mode)            == Mode.NoZeroDate \in mode
HasNoZeroInDateMode(mode)          == Mode.NoZeroInDate \in mode
HasErrorForDivisionByZeroMode(mode) == Mode.ErrorForDivisionByZero \in mode
HasOnlyFullGroupBy(mode)           == Mode.OnlyFullGroupBy \in mode
HasPipesAsConcatMode(mode)         == Mode.PipesAsConcat \in mode
HasNoUnsignedSubtractionMode(mode) == Mode.NoUnsignedSubtraction \in mode
HasHighNotPrecedenceMode(mode)     == Mode.HighNotPrecedence \in mode
HasANSIQuotesMode(mode)            == Mode.ANSIQuotes \in mode
HasRealAsFloatMode(mode)           == Mode.RealAsFloat \in mode
HasPadCharToFullLengthMode(mode)   == Mode.PadCharToFullLength \in mode
HasIgnoreSpaceMode(mode)           == Mode.IgnoreSpace \in mode
HasNoAutoCreateUserMode(mode)      == Mode.NoAutoCreateUser \in mode
HasAllowInvalidDatesMode(mode)     == Mode.AllowInvalidDates \in mode

\* STRICT_TRANS_TABLES or STRICT_ALL_TABLES.
HasStrictMode(mode) == Mode.StrictTransTables \in mode \/ Mode.StrictAllTables \in mode

\* A variant of HasNoBackslashEscapesMode: the flag next to the right one.
HasNoBackslashEscapesMode_NextBit(mode) == Mode.StrictTransTables \in mode

HasNoBackslashEscapesMode(mode) == Mode.NoBackslashEscapes \in mode
=============================================================================
