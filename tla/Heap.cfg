SPECIFICATION Spec
CONSTANTS Total = 6
          BlockSize = 4
          WordSize = 64
          Size = {1, 4, 5, 8, 9, 13}
INVARIANTS TableMatchesHeld ScanFindsFirstFit AsLargeAsAsked
PROPERTY ImplementsAllocator
