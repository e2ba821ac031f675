SPECIFICATION MCSpec
CONSTANTS
  Addrs = {a1, a2, a3, a4}
  Null = Null
  UlongRange = 16
  Hints = {0, 4, 7}
  Sizes = {0, 1, 3, 5, 17}
  PtrSize = 2
  ItemSize = 3
  MaxItems = 2
  MaxPieces = 4
  Objects = {o1, o2, o3}
  Things = {x1, x2, x3}
  Nothing = Nothing
  Byte = 16
  Inputs <- MCInputs
SYMMETRY Symmetry
INVARIANTS NoLeakNoDangling NoBadFree PiecesApart OneTree OwnedOnce WireRoundTrip OrderAgrees
PROPERTIES ImplementsTrees LostOnlyByAssignment
\* The process may die in memset(NULL, ...), no piece is created once MaxPieces
\* is reached, and in the end every thing has been used.
CHECK_DEADLOCK FALSE
