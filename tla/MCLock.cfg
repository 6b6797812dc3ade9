SPECIFICATION FairSpec
CONSTANTS
  Tasks = {"frame", "host"}
  Jobs <- MCJobs
  Framer = "frame"
  Free = Free
  Lids = {0, 1}
  Values <- MCValues
  Default <- MCDefault
  InitPush = {1}
  Missing = 1
INVARIANTS
  CheckTellsTruth
  HolderNeverWaits
PROPERTIES
  LockedIsWriteBack
  EveryCallReturns
  OwedIsDelivered
