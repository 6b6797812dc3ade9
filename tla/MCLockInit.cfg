SPECIFICATION Spec
CONSTANTS
  Tasks = {"frame", "host"}
  Jobs <- MCJobs
  Framer = "frame"
  Free = Free
  Lids = {0, 1}
  Values <- MCInitValues
  Default <- MCDefault
  InitPush = {1}
  Missing = 0
PROPERTY
  StalePushIsOwed
