SPECIFICATION Spec
CONSTANTS
  a1 = a1
  a2 = a2
  ams = ams
  fra = fra
  sma = sma
  Empty = Empty
  None = None
  Procs = {a1, a2}
  Specs = {ams, fra}
  Listed <- AsListed
  Hazards = {"absent"}
INVARIANTS DeletedMeansNoTable
