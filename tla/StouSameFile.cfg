INIT MCInit
NEXT MCNext
CONSTANTS
  Sessions = {s1, s2}
  Bases = {f}
  MaxSuffix = 2
  NoName = NoName
  Inodes = {i1, i2, i3}
  NoInode = NoInode
  MaxChunks = 1
  MaxLen = 1
  Commands = {"STOU"}
SYMMETRY Symmetry
INVARIANTS
  StouFilesDiffer
