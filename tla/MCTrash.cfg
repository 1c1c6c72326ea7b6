SPECIFICATION Spec
CONSTANTS
  a1 = a1  a2 = a2
  t1 = t1  t2 = t2  t3 = t3
  n1 = n1  n2 = n2
  k1 = k1
  h = h  i = i
  None = None
  Albums = {a1, a2}
  Tracks = {t1, t2, t3}
  AlbumOf <- MCAlbumOf
  Husks = {h}
  Images = {i}
  Names = {n1, n2}
  Keys = {k1}
  KeyOf <- MCKeyOf
  Faults = TRUE
  MaxOps = 3
  MaxOutside = 1
SYMMETRY Alike
INVARIANTS RecordIsOfEntry DroppedIsInTrash AnswerIsTrue
PROPERTIES OnlyEmptyDestroys
CHECK_DEADLOCK FALSE
