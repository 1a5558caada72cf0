SPECIFICATION Spec
CONSTANTS
  EventKinds = {"message", "apply"}
  MaxEvents = 2
  PageLimit = 1
  FrameEvents = 1
  ThreadPages = 2
  MaxNotify = 1
  MaxFaults = 2
  LinkFaults = {"cut", "close", "crash"}
  StoreFaults = {"state", "snapshot", "mark", "page"}
  ServerFaults = {"threads"}
INVARIANT NoSkippedMessage
 
