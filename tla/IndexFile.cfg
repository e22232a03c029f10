SPECIFICATION Spec
CONSTANTS
  NodeSize = 1
  Reserved = 1
  MinimumSize = 0
  MaxFileSize = 30
  Names <- MCNames
  TableSize = 2
  Hash <- MCHash
  TableBytes = 1
  AnchorBytes = 1
  RootBytes = 1
  EntryBytes <- MCEntryBytes
  TreeBytes <- MCTreeBytes
INVARIANTS
  TypeOK
  FileSound
  BlocksOwned
  NamesAsAdded
  ReaderFinds
