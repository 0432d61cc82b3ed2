CONSTANTS
  PAGING_TOTAL_ENTRIES_PER_TABLE = 5
  PAGING_PAGE_SIZE = 4
  TOYOS_HEAP_ADDRESS = 28
  Total = 16
  ElfFileSize = 3
  TOYOS_MAX_PROCESSES = 2
  TOYOS_MAX_PROGRAM_ALLOCATIONS = 2
  TOYOS_PROGRAM_VIRTUAL_ADDRESS = 16
  TOYOS_PROGRAM_VIRTUAL_STACK_ADDRESS_END = 8
  TOYOS_USER_PROGRAM_STACK_SIZE = 4
  ProcessSize = 4
  TaskSize = 3
  DirectorySize = 4
  ArgumentSize = 5
  PointerSize = 1
  InfoSize = 1
  TOYOS_MAX_PATH = 3
  Size = {1, 5}
  File <- MCFile
  Shell <- program
  NoProcess = NoProcess
  MaxArguments = 1
  MaxLost = 1
SPECIFICATION Spec
INVARIANTS HeldIsAllocated WritablePagesOwned OwnMemoryMapped
 
