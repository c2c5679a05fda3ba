CONSTANTS
  Half = 5
  MsipBit = 2
  MaxOps = 3
  TimerData = {0, 1, 4}
SPECIFICATION TopSpec
INVARIANT TopTypeOK LoadsInOrder RequestsFollowProgram RaisedQuietly
CHECK_DEADLOCK FALSE
