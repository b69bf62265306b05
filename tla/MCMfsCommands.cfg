CONSTANTS Commands = {c1, c2, c3}
          Jobs = {"add", "rm", "mv", "bootblocks", "look", "mkfs", "mkfs force", "inplace"}
          Containers = {"raw", "dc42"}
SYMMETRY Interchangeable
SPECIFICATION Spec
INVARIANTS NoUpdateLost OnlyCutSavesBreak
PROPERTIES OpenedIsWhole
CHECK_DEADLOCK FALSE
