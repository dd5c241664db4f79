CONSTANTS
  N = 2
  Fronts = 2
  Deliveries = {"queue", "hardSteer"}
  Controls = {"cancel", "close"}
  NativeExits = FALSE
  NativeRejects = TRUE
  AnswersLate = TRUE
  ControllerStops = FALSE
SPECIFICATION FairSpec
PROPERTIES EveryInputSettles
CHECK_DEADLOCK FALSE
