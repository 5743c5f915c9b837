CONSTANTS
  Names = {1, 2, 3, 4}
  NoName = nobody
  HashValues = {4, 8}
  Hashes <- MCHashes
  FuncSize = 5
  BlockSize = 1
  MaxScopes = 2
  MaxEntries = 4
SPECIFICATION FairSpec
INVARIANTS TypeOK TablesOK
PROPERTIES ImplementsScopes CallsEnd
