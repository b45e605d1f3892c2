------------------------------ MODULE MCTables ------------------------------
(***************************************************************************)
(* The static tables together: the keyword tables of the parser and the    *)
(* two tables of error messages, each built from its list, and what the    *)
(* tables must agree on.                                                   *)
(***************************************************************************)
EXTENDS StaticMaps, Keywords

server == INSTANCE ErrcodeTable
parser == INSTANCE MysqlErrorTable

AllLists ==
   [tokenMap |-> tokenMapEntries, btFuncTokenMap |-> btFuncEntries,
    windowFuncTokenMap |-> windowFuncEntries, hintTokenMap |-> hintEntries,
    aliases |-> aliasEntries,
    errcode |-> server!MySQLErrName, mysql |-> parser!MySQLErrName]

WhenBuilt(table, holds) == name = table /\ Complete => holds

Values(f) == {f[x] : x \in DOMAIN f}

-----------------------------------------------------------------------------
\* A token tells the table its word was found in, and is neither an operator
\* nor a literal: the enumeration is filled by hand, block after block, and a
\* parser that meets tok_hintMerge must not take it for tok_merge.
TokenTellsTable ==
   LET blocks == <<keywordTokens, tokens_builtins, tokens_windows, tokens_hints,
                   tokens_operators, tokens_literals, {tok_identifier, tok_hintComment}>>
   IN  /\ \A i, j \in DOMAIN blocks : i # j => blocks[i] \intersect blocks[j] = {}
       /\ WhenBuilt("tokenMap", Values(built) = keywordTokens /\ hintedTokens \subseteq Values(built))
       /\ WhenBuilt("btFuncTokenMap", Values(built) = tokens_builtins)
       /\ WhenBuilt("windowFuncTokenMap", Values(built) = tokens_windows)
       /\ WhenBuilt("hintTokenMap", Values(built) = tokens_hints)

\* misc.cc:823 "aliases are strings directly map to another string and use the
\* same token": wherever tables know an alias they give both words one token.
AliasesShareToken ==
   WhenBuilt("aliases",
      \A a \in DOMAIN built :
         /\ tokenMap[a] = tokenMap[built[a]]
         /\ {a, built[a]} \intersect DOMAIN btFuncTokenMap # {} =>
               btFuncTokenMap[a] = btFuncTokenMap[built[a]])

\* getTokenStr answers with any word of a token, in the order of a hash table.
\* For the name of a built-in function, whichever word it is names the same
\* function.
SynonymsInterchangeable ==
   WhenBuilt("btFuncTokenMap",
      \A w \in DOMAIN built \intersect DOMAIN tokenMap :
         \A s \in getTokenStr(tokenMap[w]) :
            s \in DOMAIN built /\ built[s] = built[w])

\* Every code of the enumerations has a message, and no message is listed
\* under a code that is not enumerated.
EveryCodeHasMessage ==
   /\ WhenBuilt("errcode", DOMAIN built = server!MYSQL_ERROR)
   /\ WhenBuilt("mysql", DOMAIN built = parser!MYSQL_ERROR)

\* The positions a message redacts are positions of arguments it has.
RedactsArguments ==
   name \in {"errcode", "mysql"} /\ Complete =>
      \A c \in DOMAIN built : built[c].redacted \subseteq 0..(built[c].args - 1)

\* The parser's table and the server's take the same number of arguments for
\* the codes both list: what is raised with one is formatted with either.
TablesAgree ==
   WhenBuilt("mysql",
      \A k \in DOMAIN server!MySQLErrName :
         LET e == server!MySQLErrName[k]
         IN  e[1] \in DOMAIN built => built[e[1]].args = e[2].args)
=============================================================================
