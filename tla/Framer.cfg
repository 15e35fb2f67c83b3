SPECIFICATION FramerSpec
CONSTANTS
  MaxLine = 2  MaxChunk = 3  MaxStream = 10
INVARIANTS
  FramesSurviveChunking
CHECK_DEADLOCK FALSE
