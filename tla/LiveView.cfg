CONSTANTS
  NChannels = 2
  MaxLevel = 8
  Samples = {0, 8}
  Thresholds <- SmallThresholds
  NPairs = 5
  HistBox = {1}
  WaveBox = {2}
  TimecodeBox = {3}
  MenuBox = {1,2,4}
  CropPix = {2,4}
  EdgePix = {4,5}
  BrightPix = {1,4}
  Toggles = {"crop","edge","hist"}
  MaxEvents = 4
  Word = 4096
  Short = 16
  Width = 16
  Height = 6
  HistWidth = 4
  HistHeight = 5
  Levels = 16
  Undefined = Undefined
  Resets = {"ALC1","SIG1"}
  Users <- SomeUsers
SPECIFICATION LiveSpec
INVARIANTS LevelsOrdered NotedIsWanted OverlaysYield PictureIsRight
PROPERTIES NoInventedPeak FallsSilent SoundSettles ScreenRecovers
CHECK_DEADLOCK FALSE
