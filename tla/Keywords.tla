------------------------------ MODULE Keywords ------------------------------
(***************************************************************************)
(* The token enumeration (token.hh) and the tables from words to tokens    *)
(* (misc.cc).  The enumeration follows the tables: a block of enumerators  *)
(* is an interval, and the k-th word of a block has its k-th token.  A     *)
(* word that shares the token of another one is listed as its synonym.     *)
(***************************************************************************)
EXTENDS Integers, Sequences, FiniteSets, SequencesExt

tokens_operators == 1111..1124
tok_identifier == 1355
tok_hintComment == 1840
tokens_literals == 1880..1889

\* tokenMap, in blocks of initial letters.  IF follows IDENTIFIED in the table,
\* tok_identifier is between them in the enumeration.
tokens_A_to_B == 1125..1179
words_A_to_B ==
   <<"ACCOUNT", "ACTION", "ADD", "ADDDATE", "ADMIN", "ADVISE", "AFTER", "AGAINST", "AGO",
     "ALGORITHM", "ALL", "ALTER", "ALWAYS", "ANALYZE", "AND", "ANY", "APPROX_COUNT_DISTINCT",
     "APPROX_PERCENTILE", "AS", "ASC", "ASCII", "ATTRIBUTES", "AUTO_ID_CACHE", "AUTO_INCREMENT",
     "AUTO_RANDOM", "AUTO_RANDOM_BASE", "AVG_ROW_LENGTH", "AVG", "BACKEND", "BACKUP", "BACKUPS",
     "BEGIN", "BETWEEN", "BERNOULLI", "BIGINT", "BINARY", "BINDING", "BINDINGS", "BINLOG",
     "BIT_AND", "BIT_OR", "BIT_XOR", "BIT", "BLOB", "BLOCK", "BOOL", "BOOLEAN", "BOTH", "BOUND",
     "BRIEF", "BTREE", "BUCKETS", "BUILTINS", "BY", "BYTE">>

tokens_C_to_D == 1180..1284
words_C_to_D ==
   <<"CACHE", "CALL", "CANCEL", "CAPTURE", "CARDINALITY", "CASCADE", "CASCADED", "CASE", "CAST",
     "CAUSAL", "CHAIN", "CHANGE", "CHAR", "CHARACTER", "CHARSET", "CHECK", "CHECKPOINT",
     "CHECKSUM", "CIPHER", "CLEANUP", "CLIENT", "CLIENT_ERRORS_SUMMARY", "CLUSTERED",
     "CMSKETCH", "COALESCE", "COLLATE", "COLLATION", "COLUMN_FORMAT", "COLUMN_STATS_USAGE",
     "COLUMN", "COLUMNS", "COMMENT", "COMMIT", "COMMITTED", "COMPACT", "COMPRESSED",
     "COMPRESSION", "CONCURRENCY", "CONFIG", "CONNECTION", "CONSISTENCY", "CONSISTENT",
     "CONSTRAINT", "CONSTRAINTS", "CONTEXT", "CONVERT", "COPY", "CORRELATION", "CPU", "CREATE",
     "CROSS", "CSV_BACKSLASH_ESCAPE", "CSV_DELIMITER", "CSV_HEADER", "CSV_NOT_NULL", "CSV_NULL",
     "CSV_SEPARATOR", "CSV_TRIM_LAST_SEPARATORS", "CURRENT_DATE", "CURRENT_ROLE",
     "CURRENT_TIME", "CURRENT_TIMESTAMP", "CURRENT_USER", "CURRENT", "CURTIME", "CYCLE", "DATA",
     "DATABASE", "DATABASES", "DATE_ADD", "DATE_SUB", "DATE", "DATETIME", "DAY_HOUR",
     "DAY_MICROSECOND", "DAY_MINUTE", "DAY_SECOND", "DAY", "DDL", "DEALLOCATE", "DECIMAL",
     "DEFAULT", "DEFINER", "DELAY_KEY_WRITE", "DELAYED", "DELETE", "DEPENDENCY", "DEPTH",
     "DESC", "DESCRIBE", "DIRECTORY", "DISABLE", "DISCARD", "DISK", "DISTINCT", "DIV", "DO",
     "DOT", "DOUBLE", "DRAINER", "DROP", "DUAL", "DUMP", "DUPLICATE", "DYNAMIC">>

tokens_E_to_IDENTIFIED == 1285..1354
words_E_to_IDENTIFIED ==
   <<"ELSE", "ENABLE", "ENCLOSED", "ENCRYPTION", "END", "ENFORCED", "ENGINE", "ENGINES", "ENUM",
     "ERROR", "ERRORS", "ESCAPE", "ESCAPED", "EVENT", "EVENTS", "EVOLVE", "EXACT", "EXCEPT",
     "EXCHANGE", "EXCLUSIVE", "EXECUTE", "EXISTS", "EXPANSION", "EXPIRE", "EXPLAIN",
     "EXPR_PUSHDOWN_BLACKLIST", "EXTENDED", "EXTRACT", "FALSE", "FAULTS", "FETCH", "FIELDS",
     "FILE", "FIRST", "FIXED", "FLASHBACK", "FLOAT", "FLUSH", "FOLLOWER", "FOLLOWERS",
     "FOLLOWER_CONSTRAINTS", "FOLLOWING", "FOR", "FORCE", "FOREIGN", "FORMAT", "FROM", "FULL",
     "FULLTEXT", "FUNCTION", "GENERAL", "GENERATED", "GET_FORMAT", "GLOBAL", "GRANT", "GRANTS",
     "GROUP_CONCAT", "GROUP", "HASH", "HAVING", "HELP", "HIGH_PRIORITY", "HISTORY", "HISTOGRAM",
     "HOSTS", "HOUR_MICROSECOND", "HOUR_MINUTE", "HOUR_SECOND", "HOUR", "IDENTIFIED">>

tokens_IF_to_L == 1356..1430
words_IF_to_L ==
   <<"IF", "IGNORE", "IMPORT", "IMPORTS", "IN", "INCREMENT", "INCREMENTAL", "INDEX", "INDEXES",
     "INFILE", "INNER", "INPLACE", "INSERT_METHOD", "INSERT", "INSTANCE", "INSTANT", "INT",
     "INT1", "INT2", "INT3", "INT4", "INT8", "INTEGER", "INTERNAL", "INTERSECT", "INTERVAL",
     "INTO", "INVISIBLE", "INVOKER", "IO", "IPC", "IS", "ISOLATION", "ISSUER", "JOB", "JOBS",
     "JOIN", "JSON_ARRAYAGG", "JSON_OBJECTAGG", "JSON", "KEY_BLOCK_SIZE", "KEY", "KEYS", "KILL",
     "LABELS", "LANGUAGE", "LAST_BACKUP", "LAST", "LASTVAL", "LEADER", "LEADER_CONSTRAINTS",
     "LEADING", "LEARNER", "LEARNER_CONSTRAINTS", "LEARNERS", "LEFT", "LESS", "LEVEL", "LIKE",
     "LIMIT", "LINEAR", "LINES", "LIST", "LOAD", "LOCAL", "LOCALTIME", "LOCALTIMESTAMP",
     "LOCATION", "LOCK", "LOCKED", "LOGS", "LONG", "LONGBLOB", "LONGTEXT", "LOW_PRIORITY">>

tokens_M_to_O == 1431..1502
words_M_to_O ==
   <<"MASTER", "MATCH", "MAX_CONNECTIONS_PER_HOUR", "MAX_IDXNUM", "MAX_MINUTES",
     "MAX_QUERIES_PER_HOUR", "MAX_ROWS", "MAX_UPDATES_PER_HOUR", "MAX_USER_CONNECTIONS", "MAX",
     "MAXVALUE", "MB", "MEDIUMBLOB", "MEDIUMINT", "MEDIUMTEXT", "MEMORY", "MERGE",
     "MICROSECOND", "MIN_ROWS", "MIN", "MINUTE_MICROSECOND", "MINUTE_SECOND", "MINUTE",
     "MINVALUE", "MOD", "MODE", "MODIFY", "MONTH", "NAMES", "NATIONAL", "NATURAL", "NCHAR",
     "NEVER", "NEXT_ROW_ID", "NEXT", "NEXTVAL", "NO_WRITE_TO_BINLOG", "NO", "NOCACHE",
     "NOCYCLE", "NODE_ID", "NODE_STATE", "NODEGROUP", "NOMAXVALUE", "NOMINVALUE",
     "NONCLUSTERED", "NONE", "NOT", "NOW", "NOWAIT", "NULL", "NULLS", "NUMERIC", "NVARCHAR",
     "OF", "OFF", "OFFSET", "ON_DUPLICATE", "ON", "ONLINE", "ONLY", "OPEN",
     "OPT_RULE_BLACKLIST", "OPTIMISTIC", "OPTIMIZE", "OPTION", "OPTIONAL", "OPTIONALLY", "OR",
     "ORDER", "OUTER", "OUTFILE">>

tokens_P_to_R == 1503..1588
words_P_to_R ==
   <<"PACK_KEYS", "PAGE", "PARSER", "PARTIAL", "PARTITION", "PARTITIONING", "PARTITIONS",
     "PASSWORD", "PERCENT", "PER_DB", "PER_TABLE", "PESSIMISTIC", "PLACEMENT", "PLAN",
     "PLUGINS", "POLICY", "POSITION", "PRE_SPLIT_REGIONS", "PRECEDING", "PREDICATE",
     "PRECISION", "PREPARE", "PRESERVE", "PRIMARY", "PRIMARY_REGION", "PRIVILEGES", "PROCEDURE",
     "PROCESS", "PROCESSLIST", "PROFILE", "PROFILES", "PROXY", "PUMP", "PURGE", "QUARTER",
     "QUERIES", "QUERY", "QUICK", "RANGE", "RATE_LIMIT", "READ", "REAL", "REBUILD", "RECENT",
     "RECOVER", "RECURSIVE", "REDUNDANT", "REFERENCES", "REGEXP", "REGION", "REGIONS",
     "RELEASE", "RELOAD", "REMOVE", "RENAME", "REORGANIZE", "REPAIR", "REPEAT", "REPEATABLE",
     "REPLACE", "REPLAYER", "REPLICA", "REPLICAS", "REPLICATION", "REQUIRE", "REQUIRED",
     "RESET", "RESPECT", "RESTART", "RESTORE", "RESTORES", "RESTRICT", "REVERSE", "REVOKE",
     "RIGHT", "RLIKE", "ROLE", "ROLLBACK", "ROUTINE", "ROW_COUNT", "ROW_FORMAT", "ROW", "ROWS",
     "RTREE", "RESUME", "RUNNING">>

tokens_S == 1589..1676
words_S ==
   <<"S3", "SAMPLES", "SAMPLERATE", "SAN", "SCHEDULE", "SECOND_MICROSECOND", "SECOND",
     "SECONDARY_ENGINE", "SECONDARY_LOAD", "SECONDARY_UNLOAD", "SECURITY", "SELECT",
     "SEND_CREDENTIALS_TO_TIKV", "SEPARATOR", "SEQUENCE", "SERIAL", "SERIALIZABLE", "SESSION",
     "SET", "SETVAL", "SHARD_ROW_ID_BITS", "SHARE", "SHARED", "SHOW", "SHUTDOWN", "SIGNED",
     "SIMPLE", "SKIP", "SKIP_SCHEMA_FILES", "SLAVE", "SLOW", "SMALLINT", "SNAPSHOT", "SOME",
     "SOURCE", "SPATIAL", "SPLIT", "SQL_BIG_RESULT", "SQL_BUFFER_RESULT", "SQL_CACHE",
     "SQL_CALC_FOUND_ROWS", "SQL_NO_CACHE", "SQL_SMALL_RESULT", "SQL_TSI_DAY", "SQL_TSI_HOUR",
     "SQL_TSI_MINUTE", "SQL_TSI_MONTH", "SQL_TSI_QUARTER", "SQL_TSI_SECOND", "SQL_TSI_WEEK",
     "SQL_TSI_YEAR", "SQL", "SSL", "STALENESS", "START", "STARTING", "STATISTICS",
     "STATS_AUTO_RECALC", "STATS_BUCKETS", "STATS_EXTENDED", "STATS_HEALTHY",
     "STATS_HISTOGRAMS", "STATS_TOPN", "STATS_META", "STATS_PERSISTENT", "STATS_SAMPLE_PAGES",
     "STATS", "STATUS", "STDDEV_POP", "STDDEV_SAMP", "STOP", "STORAGE", "STORED",
     "STRAIGHT_JOIN", "STRICT", "STRICT_FORMAT", "STRONG", "SUBDATE", "SUBJECT", "SUBPARTITION",
     "SUBPARTITIONS", "SUBSTRING", "SUM", "SUPER", "SWAPS", "SWITCHES", "SYSTEM",
     "SYSTEM_TIME">>

tokens_T_to_Z == 1677..1770
words_T_to_Z ==
   <<"TABLE_CHECKSUM", "TABLE", "TABLES", "TABLESAMPLE", "TABLESPACE", "TELEMETRY",
     "TELEMETRY_ID", "TEMPORARY", "TEMPTABLE", "TERMINATED", "TEXT", "THAN", "THEN", "TIDB",
     "TIFLASH", "TIKV_IMPORTER", "TIME", "TIMESTAMP", "TIMESTAMPADD", "TIMESTAMPDIFF",
     "TINYBLOB", "TINYINT", "TINYTEXT", "TLS", "TO", "TOKUDB_DEFAULT", "TOKUDB_FAST",
     "TOKUDB_LZMA", "TOKUDB_QUICKLZ", "TOKUDB_SMALL", "TOKUDB_SNAPPY", "TOKUDB_UNCOMPRESSED",
     "TOKUDB_ZLIB", "TOP", "TOPN", "TRACE", "TRADITIONAL", "TRAILING", "TRANSACTION", "TRIGGER",
     "TRIGGERS", "TRIM", "TRUE", "TRUNCATE", "TYPE", "UNBOUNDED", "UNCOMMITTED", "UNDEFINED",
     "UNICODE", "UNION", "UNIQUE", "UNKNOWN", "UNLOCK", "UNSIGNED", "UPDATE", "USAGE", "USE",
     "USER", "USING", "UTC_DATE", "UTC_TIME", "UTC_TIMESTAMP", "VALIDATION", "VALUE", "VALUES",
     "VAR_POP", "VAR_SAMP", "VARBINARY", "VARCHAR", "VARCHARACTER", "VARIABLES", "VARYING",
     "VERBOSE", "VOTER", "VOTER_CONSTRAINTS", "VOTERS", "VIEW", "VIRTUAL", "VISIBLE",
     "WARNINGS", "WEEK", "WEIGHT_STRING", "WHEN", "WHERE", "WIDTH", "WITH", "WITHOUT", "WRITE",
     "X509", "XOR", "YEAR_MONTH", "YEAR", "ZEROFILL", "WAIT">>

synonyms ==
   <<<<"SCHEMA", "DATABASE">>, <<"SCHEMAS", "DATABASES">>, <<"DEC", "DECIMAL">>,
     <<"DISTINCTROW", "DISTINCT">>, <<"STD", "STDDEV_POP">>, <<"STDDEV", "STDDEV_POP">>,
     <<"SUBSTR", "SUBSTRING">>, <<"VARIANCE", "VAR_POP">>>>

tokens_builtins == 1771..1799
words_builtins ==
   <<"ADDDATE", "BIT_AND", "BIT_OR", "BIT_XOR", "CAST", "COUNT", "APPROX_COUNT_DISTINCT",
     "APPROX_PERCENTILE", "CURDATE", "CURTIME", "DATE_ADD", "DATE_SUB", "EXTRACT",
     "GROUP_CONCAT", "MAX", "MID", "MIN", "NOW", "POSITION", "SESSION_USER", "STD",
     "STDDEV_SAMP", "SUBDATE", "SUM", "SYSDATE", "TRANSLATE", "TRIM", "VARIANCE", "VAR_SAMP">>

\* A variant of synonyms_builtins: the variance is a standard deviation.
synonyms_builtins_Crossed ==
   <<<<"SUBSTR", "MID">>, <<"SUBSTRING", "MID">>, <<"SYSTEM_USER", "SESSION_USER">>,
     <<"STDDEV", "STD">>, <<"STDDEV_POP", "STD">>, <<"VAR_POP", "STD">>>>

synonyms_builtins ==
   <<<<"SUBSTR", "MID">>, <<"SUBSTRING", "MID">>, <<"SYSTEM_USER", "SESSION_USER">>,
     <<"STDDEV", "STD">>, <<"STDDEV_POP", "STD">>, <<"VAR_POP", "VARIANCE">>>>

\* A variant of tokens_windows: the block starts one too low.
tokens_windows_OneLow == 1799..1812

tokens_windows == 1800..1813
words_windows ==
   <<"CUME_DIST", "DENSE_RANK", "FIRST_VALUE", "GROUPS", "LAG", "LAST_VALUE", "LEAD",
     "NTH_VALUE", "NTILE", "OVER", "PERCENT_RANK", "RANK", "ROW_NUMBER", "WINDOW">>

tokens_hints == (1814..1839) \union (1841..1879)
words_hints ==
   <<"JOIN_FIXED_ORDER", "JOIN_ORDER", "JOIN_PREFIX", "JOIN_SUFFIX", "BKA", "NO_BKA", "BNL",
     "NO_BNL", "HASH_JOIN", "NO_HASH_JOIN", "MERGE", "NO_MERGE", "INDEX_MERGE",
     "NO_INDEX_MERGE", "MRR", "NO_MRR", "NO_ICP", "NO_RANGE_OPTIMIZATION", "SKIP_SCAN",
     "NO_SKIP_SCAN", "SEMIJOIN", "NO_SEMIJOIN", "MAX_EXECUTION_TIME", "SET_VAR",
     "RESOURCE_GROUP", "QB_NAME", "AGG_TO_COP", "LIMIT_TO_COP", "IGNORE_PLAN_CACHE", "HASH_AGG",
     "IGNORE_INDEX", "INL_HASH_JOIN", "INL_JOIN", "INL_MERGE_JOIN", "MEMORY_QUOTA",
     "NO_SWAP_JOIN_INPUTS", "QUERY_TYPE", "READ_CONSISTENT_REPLICA", "READ_FROM_STORAGE",
     "BROADCAST_JOIN", "BROADCAST_JOIN_LOCAL", "MERGE_JOIN", "STREAM_AGG", "SWAP_JOIN_INPUTS",
     "USE_INDEX_MERGE", "USE_INDEX", "USE_PLAN_CACHE", "USE_TOJA", "TIME_RANGE", "USE_CASCADES",
     "NTH_PLAN", "FORCE_INDEX", "OLAP", "OLTP", "TIKV", "TIFLASH", "PARTITION", "FALSE", "TRUE",
     "MB", "GB", "DUPSWEEDOUT", "FIRSTMATCH", "LOOSESCAN", "MATERIALIZATION">>

\* A variant of synonyms_hints: MERGE, a hint of its own, is listed again.
synonyms_hints_Repeated ==
   <<<<"TIDB_HJ", "HASH_JOIN">>, <<"TIDB_INLJ", "INL_JOIN">>, <<"MERGE", "MERGE_JOIN">>>>

synonyms_hints ==
   <<<<"TIDB_HJ", "HASH_JOIN">>, <<"TIDB_INLJ", "INL_JOIN">>, <<"TIDB_SMJ", "MERGE_JOIN">>>>

-----------------------------------------------------------------------------
\* The entries <<word, token>> of a block, and those of the words that share
\* the token of a word of it.
Entries(tokens, words) ==
   [k \in DOMAIN words |->
      <<words[k], CHOOSE t \in tokens : Cardinality({u \in tokens : u < t}) = k - 1>>]

WithSynonyms(entries, syn) ==
   entries \o [k \in DOMAIN syn |->
                 <<syn[k][1], (CHOOSE e \in ToSet(entries) : e[1] = syn[k][2])[2]>>]

\* The map an initializer list of distinct keys makes.
MapOf(entries) ==
   [key \in {e[1] : e \in ToSet(entries)} |-> (CHOOSE e \in ToSet(entries) : e[1] = key)[2]]

tokenMapEntries == WithSynonyms(
   Entries(tokens_A_to_B, words_A_to_B) \o
   Entries(tokens_C_to_D, words_C_to_D) \o
   Entries(tokens_E_to_IDENTIFIED, words_E_to_IDENTIFIED) \o
   Entries(tokens_IF_to_L, words_IF_to_L) \o
   Entries(tokens_M_to_O, words_M_to_O) \o
   Entries(tokens_P_to_R, words_P_to_R) \o
   Entries(tokens_S, words_S) \o
   Entries(tokens_T_to_Z, words_T_to_Z),
   synonyms)

btFuncEntries == WithSynonyms(Entries(tokens_builtins, words_builtins), synonyms_builtins)

windowFuncEntries == Entries(tokens_windows, words_windows)

hintEntries == WithSynonyms(Entries(tokens_hints, words_hints), synonyms_hints)

\* A variant of aliasEntries: one schema for many databases.
aliasEntries_Plural ==
   <<<<"SCHEMA", "DATABASES">>, <<"SCHEMAS", "DATABASES">>, <<"DEC", "DECIMAL">>,
     <<"SUBSTR", "SUBSTRING">>>>

aliasEntries ==
   <<<<"SCHEMA", "DATABASE">>, <<"SCHEMAS", "DATABASES">>, <<"DEC", "DECIMAL">>,
     <<"SUBSTR", "SUBSTRING">>>>

tokenMap == MapOf(tokenMapEntries)
btFuncTokenMap == MapOf(btFuncEntries)
windowFuncTokenMap == MapOf(windowFuncEntries)
hintTokenMap == MapOf(hintEntries)
aliases == MapOf(aliasEntries)

hintedTokens ==
   {tokenMap[w] : w \in {"SELECT", "INSERT", "REPLACE", "UPDATE", "DELETE", "CREATE", "PARTITION"}}

keywordTokens ==
   tokens_A_to_B \union
   tokens_C_to_D \union
   tokens_E_to_IDENTIFIED \union
   tokens_IF_to_L \union
   tokens_M_to_O \union
   tokens_P_to_R \union
   tokens_S \union
   tokens_T_to_Z

isInTokenMap(target) == target \in DOMAIN tokenMap

\* The strings getTokenStr may return: it walks a hash map, in an order of its
\* own, to the first word of the token.
getTokenStr(tok) ==
   LET found == {w \in DOMAIN tokenMap : tokenMap[w] = tok}
   IN  IF found = {} THEN {""} ELSE found
=============================================================================
