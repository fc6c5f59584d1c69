SPECIFICATION Spec
CONSTANTS
  c1 = c1
  c2 = c2
  c3 = c3
  b1 = b1
  b2 = b2
  d1 = d1
  d2 = d2
  dirA = dirA
  dirB = dirB
  Callers = {c1, c2, c3}
  Bytes = {b1, b2}
  Digests = {d1, d2}
  Dirs = {dirA, dirB}
  digest_of <- MCDigestOf
  FanOut <- MCFanOut
  MayPut <- MCSharedPut
  Faults = {}
  Absent = Absent
  Torn = Torn
INVARIANT GetIsVerbatim
