SPECIFICATION Spec
CONSTANTS
  Present = {2, 3}
  Geometry <- MCGeometry
  MAX_SECTORS = 100
  Frames = {6, 9}
  CMD_MAX_ATTEMPTS = 2
  Lbas = {0, 1}
  Values = {"a", "b"}
  Probe = "probe"
  MaxErrors = 3
  MaxRequests = 3
PROPERTIES AnswerIsTrue SectorsChangeByRequest
CHECK_DEADLOCK FALSE
