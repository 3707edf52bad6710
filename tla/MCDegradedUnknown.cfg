SPECIFICATION Spec
CONSTANTS
  o1 = o1
  o2 = o2
  o3 = o3
  o4 = o4
  r1 = r1
  r2 = r2
  NoOp = NoOp
  Ops = {o1, o2}
  Rows = {r1, r2}
  Row <- MCRow
  Packages = {o1}
  Unhandled = {o2}
  Cap = 3
  Slots = {1, 2}
  MaxDrops = 0
  MaxCrashes = 0
  Faults = {}
INVARIANT BufferedIsReplayed
CHECK_DEADLOCK FALSE
