SPECIFICATION Spec
CONSTANTS
  None = None
  Ascii = {97}
  Wide = {}
  Fds = {0, 1}
  Surfaces = 2
  Sizes = {s1, s2}
  MaxLen = 1
INVARIANTS TypeOK DescriptorsAccounted ShownIsCurrent
PROPERTY DrawnUnlessFailed
