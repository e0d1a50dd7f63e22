SPECIFICATION EntrySpec
CONSTANTS
  p1 = p1
  p2 = p2
  Paths = {p1, p2}
  Objects <- MixedObjects
  MaxVersions = 2
SYMMETRY PathSymmetry
INVARIANTS EntryTypeOK OneSnapshot ThrowingAnswersWereTrue
PROPERTIES StableUntilRefresh FullNeverAsserts
