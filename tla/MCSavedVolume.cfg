CONSTANTS NBlocks = 1
          EntryMod = 4
          SectorLen = 10
          FixedLen = 3
          DirLen = 2
          MaxFileName = 2
          MaxVolumeName = 3
          BlkSiz = 2
          Zero = 0
          FnumMod = 65536
          CountMod = 65536
          FnumBound = 4
          Times = {1}
          Codes = {"c1"}
          BootBlocks = {"zeroed"}
          ZeroBoot = "zeroed"
          FileNames <- MCSavedNames
          VolumeNames <- MCSavedVolNames
          FoldOf <- MCFoldOf
          NameLen <- MCNameLen
          Forbidden <- MCForbidden
          Byte <- MCByte
          Contents <- MCOneContents
SPECIFICATION SavedSpec
INVARIANTS CleanDirectoryIsCurrent ImageStaysClean NumbersOnDiskDiffer
PROPERTIES ImplementsDurableStore SaveKeepsEverything UntouchedSaveKeepsBytes
VIEW SavedView
