\* One aircraft in the air and on the ground of the northern half.
CONSTANTS
  p1 = p1
  Planes = {p1}
  EvenZones = 5  OddZones = 4  EvenWidth = 16  OddWidth = 20
  Route <- North
  NLBounds = {14}
  PairLimit = 2
  ShortGap = 5
  Creep = 1
  Rate = 8
  Jump = 2
  SeenLimit = 5
  NoPlane = NoPlane
  NoCode = NoCode
  Nothing = Nothing
SPECIFICATION Spec
INVARIANTS TypeOK DecodedIsTabled
PROPERTIES AcceptedIsTrue OneFrameSuffices
