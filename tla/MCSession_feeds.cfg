SPECIFICATION Spec
CONSTANTS
  ams = ams
  fra = fra
  xyz = xyz
  eu = eu
  l1 = l1
  l2 = l2
  None = None
  NoRelays = NoRelays
  Codes = {ams, fra, xyz}
  Regions = {eu}
  Commands = {{eu}, {ams, xyz}}
  Class <- Classes
  Lists = {l1, l2}
INVARIANTS TypeOK PlanIsTheChange
PROPERTIES AllowIsExclusive EditsStayBlockable
