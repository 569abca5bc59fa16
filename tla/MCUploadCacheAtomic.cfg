CONSTANTS
  NoFile = NoFile
  Putters = {p1, p2}
  Readers = {r1}
  Inodes = {i1, i2, i3}
SPECIFICATION CacheSpec
INVARIANTS AtomicPublish
