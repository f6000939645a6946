\* One to three outputs when connect() returns; the others may be plugged in later.
SPECIFICATION Spec
CONSTANTS
  None = None
  o1 = o1
  o2 = o2
  o3 = o3
  o4 = o4
  Fds = {0, 1}
  Outputs = {o1, o2, o3, o4}
  FirstOutputs <- OneToThree
INVARIANTS TypeOK HearsOwnFrame BackgroundsAlign DescriptorsAccounted
PROPERTY CaptureEnds
