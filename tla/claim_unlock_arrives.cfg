SPECIFICATION Spec
CONSTANTS
  None = None
  Outputs = {o1, o2}
  FirstOutputs = {{o1}}
  Patient = FALSE
  MaxUnderWay = 2
PROPERTY UnlockArrives
