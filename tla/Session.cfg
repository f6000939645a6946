SPECIFICATION Spec
CONSTANTS
  None = None
  Outputs = {o1, o2}
  FirstOutputs = {{o1}, {o1, o2}}
  Patient = FALSE
  MaxUnderWay = 2
INVARIANTS TypeOK NoProtocolError UnlockFollowsLocked LockedAgrees
PROPERTIES SizedIsDrawn LossIsNoticed
