\* The PF is reset while two VFs create and close domains, or die.
SPECIFICATION FairSpec
CONSTANTS
  VFs = {v1, v2}
  Nobody = Nobody
  None = None
  QuiesceRounds = 1
INVARIANTS
  TypeOK
  BothSidesAgree
  QuietAtFlr
PROPERTIES
  NoNoticeTimesOut
  NobodyWaitsForever
CHECK_DEADLOCK FALSE
