CONSTANTS
  Modules = {"qdc507_voice", "driver"}
  Protected = {"qdc507_voice"}
  Polls = 1
  MaxFaults = 2
  MaxEvents = 2
  MaxCrashes = 1
  MaxCancels = 1
SPECIFICATION FairSpec
INVARIANTS NoStrayHelper
PROPERTIES StopLeavesNothing StartMeansRunning OperationEnds
