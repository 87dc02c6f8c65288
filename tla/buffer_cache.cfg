SPECIFICATION FairSpec
CONSTANTS
  NBUF = 3
  Proc = {p1, p2}
  super = super
  indirect = indirect
  bitmap = bitmap
  block = block
  Sector = {super, indirect, bitmap, block}
  Nested <- MCNested
  Written = {bitmap}
  MaxWrites = 1
  NoProc = NoProc
  NoSector = NoSector
  NoBuf = 0
  NoRequest = NoRequest
  ReadErrors = FALSE
INVARIANT CacheSound
PROPERTIES ImplementsStore RequestEnds
