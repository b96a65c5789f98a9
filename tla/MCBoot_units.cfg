SPECIFICATION Spec
CONSTANTS
  ams = ams
  l1 = l1
  l2 = l2
  Codes = {ams}
  Regions = {}
  Class <- Classes
  Lists = {l1, l2}
  NoRelays = NoRelays
  None = None
  Foreign = Foreign
  Link = Link
  Feed <- Moving
  Settings = {ams}
  Strays = {None, {}}
  Hazards = {"offline", "kill"}
INVARIANTS TypeOK
PROPERTIES UnitInstallsSnapshot RefreshKeepsBlocklist RefreshMovesForward
