SPECIFICATION Spec
CONSTANTS TOYOS_SECTOR_SIZE = 2
          DirectoryItemSize = 1
          TOYOS_MAX_FILE_DESCRIPTORS = 3
          TOYOS_MAX_PATH = 8
          Private = {1, 2}
          Images <- MCImages
          Paths <- MCPaths
          Sizes = {1, 3, 5}
          Offsets = {0, 1, 2, 3}
          MaxPos = 5
INVARIANTS SlotsOwnDescriptors OpenFindsTheFile ReadsAreExact  WritesInPlace 
CHECK_DEADLOCK FALSE
