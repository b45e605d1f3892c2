SPECIFICATION Spec
CONSTANT
   Lists <- AllLists
INVARIANTS
   EntriesKept
   TokenTellsTable
   AliasesShareToken
   SynonymsInterchangeable
   EveryCodeHasMessage
   RedactsArguments
   TablesAgree
CHECK_DEADLOCK FALSE
