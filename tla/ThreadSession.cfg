CONSTANTS
  N = 2
  Fronts = 1
  Deliveries = {"queue", "hardSteer"}
  Controls = {"cancel"}
  NativeExits = TRUE
  NativeRejects = TRUE
  AnswersLate = FALSE
  ControllerStops = TRUE
SPECIFICATION Spec
INVARIANTS LandsOnce
PROPERTIES KeepsDelivery
CHECK_DEADLOCK FALSE
