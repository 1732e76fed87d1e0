CONSTANTS
  Trees <- MCTrees
  BLOCK_SIZE = 4096
  BLOCKS_PER_ENTRY <- MCBlocksPerEntry
  NUM_HEADER_BLOCKS = 6
  DISK_BLOCKS <- MCDiskBlocks
  NoBlock = 65535
  None = None
SPECIFICATION Spec
INVARIANTS
  ImageIsDiskSized
