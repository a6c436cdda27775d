\* A truthful server, its noise and repetitions, its faults and its end.
SPECIFICATION FairSpec
CONSTANTS
  c1 = c1 c2 = c2 c3 = c3 Start = Start End = End
  Cursors <- MCCursors Catalogues <- MCCatalogues
  MaxScanPages = 3 MaxScanLines = 4 PipeSize = 1 MaxNoise = 1
INVARIANTS WholeInventory ErrorNamesItsCause
PROPERTIES ScanEnds AnsweringServerEndsIt
CHECK_DEADLOCK FALSE
