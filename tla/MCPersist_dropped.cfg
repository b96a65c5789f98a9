SPECIFICATION Spec
CONSTANTS
  s1 = s1
  s2 = s2
  s3 = s3
  None = None
  Foreign = Foreign
  Link = Link
  Snaps = {s1, s2, s3}
  Strange <- Alone
  Revision <- Revisions
  Hazards = {"kill"}
PROPERTIES DropsAfterWrites
