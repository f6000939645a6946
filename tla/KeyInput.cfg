\* Ticks of half a second, texts up to two characters, one output plugged in
\* before or after connect() beside another.
SPECIFICATION Spec
CONSTANTS
  None = None
  Ascii = {97}
  Wide = {233}
  Texts <- KeyTexts
  Samples <- DecodedSamples
  TicksPerSecond = 2
  Infos <- RepeatInfos
  DpmsTimeout = 3
  Outputs = {o1, o2}
  Keymaps = {m1, m2}
  MaxLen = 2
INVARIANTS BriskTypingIsExact DisplaysFollowFlag OffOnlyWhenIdle MapsAccounted DecodeInvertsEncode
PROPERTY IdleTurnsOff
