CONSTANTS
  FileLists <- MCFileLists
  PAGE_SIZE = 4096
  FILE_ENTRY_SIZE = 64
  BOOTFS_MAX_SIZE = 33554432
  None = None

SPECIFICATION Spec

INVARIANT TypeOK
INVARIANT EntriesLocateData
PROPERTY ImplementsBootfsSpec
