SPECIFICATION Spec
CONSTANTS
  a1 = a1
  a2 = a2
  ams = ams
  fra = fra
  sma = sma
  Empty = Empty
  None = None
  Procs = {a1, a2}
  Specs = {ams, fra, sma, Empty}
  Listed <- AsListed
  Hazards = {"write", "nft", "list", "kill", "reboot"}
SYMMETRY Symmetry
INVARIANTS Reconciled AppliedMeansLive DeletedMeansGone RefusedPutsBack
PROPERTIES Implements
