SPECIFICATION FairSpec

CONSTANTS
  Slots = {s1, s2}
  Values = {k1, k2}
  NoKey = NoKey
  Passphrases = {p1, p2}
  Requests = {r1, r2, r3}
  Target <- SetSetDelete
  Body <- SetSetDeleteBodies
  Rotates = FALSE
  ReadFaults = TRUE
  WriteFaults = TRUE
  r1 = r1
  r2 = r2
  r3 = r3
  s1 = s1
  s2 = s2
  k1 = k1
  k2 = k2

PROPERTIES
  IsMap
  
  Answered

CHECK_DEADLOCK FALSE
