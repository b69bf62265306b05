CONSTANTS Half = 8
          MaxNameLen = 3
          Skip = 1
          Words <- MCWords
          Bodies <- MCBodies
          RawBodies <- MCRawBodies
          Sizes <- MCSizes
          Names <- MCNames
SPECIFICATION Spec
INVARIANTS NothingLeftOut DamageDetected UntouchedBytesKept
PROPERTIES SaveReopens
CHECK_DEADLOCK FALSE
VIEW WantWhenRead
