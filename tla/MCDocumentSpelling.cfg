SPECIFICATION Spec
CONSTANTS
  None = None
  Null = Null
  True = True
  False = False
  x = x
  y = y
  t = t
  u = u
  Values = {x, y, t, u, True, False}
  MaximumValues = 3
  Spellings = {"ext", "EXT"}
  FoldName <- MCFoldName
  Definitions <- MCDefinitions
  SentDocuments <- MCSentDocuments
  SentPatches <- MCSentPatches
  Selections <- MCSelections
INVARIANT
  StoredIsCanonical
