CONSTANTS WordMod = 65536
          Sizes <- MCSizes
SPECIFICATION DatedSpec
INVARIANTS LayoutSound NothingStranded FormattedOpens NearlyAllBlocks DatesAreGregorian
PROPERTIES FormatReturns
