CONSTANTS
  Libs = {host, a, b, c}
  Host = host
  NoName = null
  HashValues = {0, 3, 4, 8}
  Hashes <- MCHashes
  CacheSize = 5
SPECIFICATION Spec
INVARIANTS TypeOK TablesOK
PROPERTIES ImplementsLibraries
