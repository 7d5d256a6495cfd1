SPECIFICATION Spec
CONSTANTS
  a = a
  b = b
  root = root
  type = type
  Ids <- MCIds
  Root = root
  TypeNode = type
  NsOf <- MCNsOf
  Names = {"x", "y"}
  MaxRefs = 10
  Absent = Absent
INVARIANTS
  TypeOK
  ReferencesArePaired
  PathsAreFound
