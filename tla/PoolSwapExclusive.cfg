CONSTANTS
  urgent = urgent
  first = first
  second = second
  late = late
  Calls <- ThreeCalls
  ReqPriority <- ThreePriorities
  Cancellable <- NoCall
  Configurations <- SwappedSettings
  MaxConfigures = 2
SPECIFICATION Spec
INVARIANT ExclusiveInstances
CHECK_DEADLOCK FALSE
