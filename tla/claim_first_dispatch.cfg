SPECIFICATION Spec
CONSTANTS
  None = None
  Outputs = {o1, o2}
  FirstOutputs = {{o1}}
  Patient = TRUE
  MaxUnderWay = 2
PROPERTY LockIsAnswered
