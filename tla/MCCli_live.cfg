SPECIFICATION LiveSpec
CONSTANTS
  u1 = u1
  u2 = u2
  ams = ams
  fra = fra
  l1 = l1
  l2 = l2
  Users = {u1, u2}
  Codes = {ams, fra}
  Regions = {}
  Class <- Classes
  Lists = {l1, l2}
  NoRelays = NoRelays
  None = None
  Feed <- OneRevision
  Commands <- Short
  Pinned = 1
  Backends = 2
  Hazards = {"kill"}
INVARIANTS ConfirmedInstalled
PROPERTIES CommandEnds
