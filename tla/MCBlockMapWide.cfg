CONSTANTS NBlocks = 5
          EntryMod = 6
          Nibbles = 2
          Fillings <- MCZeros
SPECIFICATION Spec
INVARIANTS BlocksAreLinked
