CONSTANTS
  s1 = s1
  s2 = s2
  k1 = k1
  k2 = k2
  r1 = r1
  j1 = j1
  o1 = o1
  o2 = o2
  Service = {s1, s2}
  Slug = {k1, k2}
  Published <- MCPublished
  Request = {r1}
  Job = {j1}
  Operator = {o1, o2}
  MaxWrites = 2
  MaxFaults = 1
SPECIFICATION FairSpec
INVARIANTS
  TypeOK
  OldEntriesDropped
PROPERTIES
  CacheBecomesCurrent
CHECK_DEADLOCK FALSE
