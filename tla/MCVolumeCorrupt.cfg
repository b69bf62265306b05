CONSTANTS NBlocks = 3
          EntryMod = 6
          SectorLen = 10
          FixedLen = 3
          DirLen = 1
          MaxFileName = 2
          MaxVolumeName = 3
          BlkSiz = 2
          Zero = 0
          FnumMod = 65536
          CountMod = 65536
          FnumBound = 4
          Times = {1}
          Codes = {"c1"}
          BootBlocks = {"zeroed"}
          ZeroBoot = "zeroed"
          FileNames <- MCTwoNames
          VolumeNames <- MCVolumeNames
          FoldOf <- MCFoldOf
          NameLen <- MCNameLen
          Forbidden <- MCForbidden
          Byte <- MCByte
          Contents <- MCTwoContents
SPECIFICATION AnySpec
PROPERTIES WritesReadBack OneFileDisturbed
VIEW CallIsWriteOnly
