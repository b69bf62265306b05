CONSTANTS SectorLen = 12
          FixedLen = 3
          DirLen = 2
          MaxEntries = 2
          Names <- MCNames
          NameLen <- MCNameLen
SPECIFICATION Spec
INVARIANTS SaveAlwaysFits SaveThenOpen
PROPERTIES ShorterNameFits
