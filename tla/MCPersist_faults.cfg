SPECIFICATION LiveSpec
CONSTANTS
  s1 = s1
  s2 = s2
  s3 = s3
  None = None
  Foreign = Foreign
  Link = Link
  Snaps = {s1, s2, s3}
  Strange <- Cluttered
  Revision <- Revisions
  Hazards = {"rename", "unlink", "write", "detect", "systemctl", "undetermined", "undo", "kill", "absent", "misread"}
INVARIANTS TypeOK RefusedRestores PersistedBoots UnpersistedGone NothingLost EnabledBoots
PROPERTIES OperationEnds ReplacesWhole
