CONSTANTS NBlocks = 3
          EntryMod = 6
          SectorLen = 10
          FixedLen = 3
          DirLen = 1
          MaxFileName = 2
          MaxVolumeName = 3
          BlkSiz = 2
          Zero = 0
          FnumMod = 65536
          CountMod = 65536
          FnumBound = 3
          Times = {1}
          Codes = {"c1"}
          BootBlocks = {"zeroed"}
          ZeroBoot = "zeroed"
          FileNames <- MCNames
          VolumeNames <- MCVolumeNames
          FoldOf <- MCFoldOf
          NameLen <- MCNameLen
          Forbidden <- MCForbidden
          Byte <- MCByte
          Contents <- MCVaried
SPECIFICATION CleanSpec
INVARIANTS TypeOK NamesDistinct CheckIsClean TailsAreZero
PROPERTIES FailureChangesNothing FnumNeverReissued LockedFileKept ImplementsFileStore
VIEW CallIsWriteOnly
