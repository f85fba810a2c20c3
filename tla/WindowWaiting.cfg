SPECIFICATION WaitingSpec
CONSTANTS
  Outputs = {o1}
  NoWindow = NoWindow
  MaxWindows = 4
  MaxCapacity = 2
PROPERTY LongestWaitingFirst
