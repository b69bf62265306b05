CONSTANTS Half = 8
          MaxNameLen = 3
          Skip = 1
          Words <- MCWords
          Bodies <- MCBodies
          RawBodies <- MCRawBodies
          Sizes <- MCSizes
          Names <- MCPadded
SPECIFICATION Spec
INVARIANTS UntouchedBytesKept
CHECK_DEADLOCK FALSE
