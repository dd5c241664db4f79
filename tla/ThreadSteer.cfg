CONSTANTS
  N = 3
  Fronts = 2
  Deliveries = {"queue", "steer"}
  Controls = {"close", "cancel"}
  NativeExits = FALSE
  NativeRejects = FALSE
  AnswersLate = TRUE
  ControllerStops = FALSE
SPECIFICATION Spec
INVARIANTS QueuedIsUndelivered NativeIsAccounted NativeHasCustody DispatchedIsOpen
PROPERTIES OpensInOrder
CHECK_DEADLOCK FALSE
