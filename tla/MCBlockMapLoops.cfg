CONSTANTS NBlocks = 3
          EntryMod = 8
          Nibbles = 2
          Fillings <- MCFillings
SPECIFICATION Spec
INVARIANTS TypeOK WalkIsChain FreeIsAllOrNothing AllocateIsFirstFit AllocatedChainWalks
           PackedSoFar ForeignBitsKept
PROPERTIES EveryCallReturns
