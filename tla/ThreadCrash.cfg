CONSTANTS
  N = 2
  Fronts = 1
  Deliveries = {"queue", "steer"}
  Controls = {"close"}
  NativeExits = TRUE
  NativeRejects = TRUE
  AnswersLate = TRUE
  ControllerStops = TRUE
SPECIFICATION Spec
INVARIANTS  CompleteWasLanded
PROPERTIES GivenBackIsUnseen RetiredIsUnseen
CHECK_DEADLOCK FALSE
