SPECIFICATION FairSpec
CONSTANTS
  Names = {a, b, h}
  Hidden = {h}
  Attrs = {file, folder}
  Absent = Absent
  Batch = 2
  MaxChanges = 2
  Faults = {"getdents", "stat"}
INVARIANTS
  TypeOK
  SurvivorsListed
  LinesAreTrue
PROPERTIES
  ListingAdvances
  ListingEnds
