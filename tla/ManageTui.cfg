CONSTANTS
  q1 = q1
  d1 = d1
  d2 = d2
  q2 = q2
  Name = {1, 2}
  Slug = {11, 12}
  Site = {d1, d2}
  slugify <- MCSlugify
  Request = {q1}
  MaxServices = 2
  Command = {1, 2}
  Query = {5}
  Matches <- MCMatches
  MaxKeys = 5
  MaxFaults = 1
SPECIFICATION Spec
SYMMETRY Sites
INVARIANTS
  TypeOK
  ServicesAreProbed
  NoLateDuplicate
  CursorInBounds
PROPERTIES
  ConfigAsAsked
CHECK_DEADLOCK FALSE
