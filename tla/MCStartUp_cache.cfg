SPECIFICATION Spec
CONSTANTS
  a = a
  b = b
  c = c
  old = old
  moved = moved
  new = new
  unknown = unknown
  files = files
  all = all
  NumPatterns = 5
  Pattern <- MCPattern
  Offset <- MCOffset
  Points = {a, b, c}
  PointOf <- MCPointOf
  Variation <- MCVariation
  Games = {old, moved, new, unknown}
  Image <- MCImage
  MinSize = 3
  Configs = {files, all}
  Enabled <- MCEnabled
  Required <- MCRequired
  Slots = 8
  MaxStops = 2
INVARIANTS TypeOK RealCode CacheNeverDecides
PROPERTY SearchedOnce
