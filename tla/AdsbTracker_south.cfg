\* The same aircraft south of the equator.
CONSTANTS
  p1 = p1
  Planes = {p1}
  EvenZones = 5  OddZones = 4  EvenWidth = 16  OddWidth = 20
  Route <- South
  NLBounds = {14}
  PairLimit = 2
  ShortGap = 5
  Creep = 1
  Rate = 8
  Jump = 2
  SeenLimit = 5
  NoPlane = NoPlane
  NoCode = NoCode
  Nothing = Nothing
SPECIFICATION Spec
PROPERTIES OneFrameSuffices
