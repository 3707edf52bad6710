SPECIFICATION FairSpec
CONSTANTS
  o1 = o1
  o2 = o2
  o3 = o3
  o4 = o4
  r1 = r1
  r2 = r2
  NoOp = NoOp
  Ops = {o1, o2, o3}
  Rows = {r1, r2}
  Row <- MCRow
  Packages = {o1, o2}
  Unhandled = {o3}
  Cap = 2
  Slots = {1, 2, 3}
  MaxDrops = 2
  MaxCrashes = 1
  Faults = {}
PROPERTY QueueDrains
CHECK_DEADLOCK FALSE
