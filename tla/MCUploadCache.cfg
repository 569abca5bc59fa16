CONSTANTS
  NoFile = NoFile
  Putters = {p1, p2, p3}
  Readers = {r1}
  Inodes = {i1, i2, i3, i4}
SPECIFICATION CacheFairSpec
INVARIANTS TornOnlyWhileWritten
PROPERTIES EventuallyWhole
