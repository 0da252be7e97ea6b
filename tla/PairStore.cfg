SPECIFICATION Spec
CONSTANTS
  Phones = {p1, p2}
  Volumes = {hdd, stick}
  NumRoots = 2
  None = None
  MaxPairings = 2
  MaxMoves = 2
  MaxCuts = 1
SYMMETRY Symmetry
INVARIANT OwnRecord
INVARIANT SavedIsLoaded
INVARIANT RefusedStaysGone
