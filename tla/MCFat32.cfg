SPECIFICATION Spec
CONSTANTS
  Names = {"e", "f", "g", "n"}
  Volume <- MCVolume
  FirstFat <- MCFirstFat
  FirstData <- MCFirstData
  LastCluster = 6
  MaxCluster = 7
  NumFats = 2
  BytesPerCluster = 2
  Locations = {TRUE, FALSE}
  DeleteOpenFiles = TRUE
  Handles = {1}
  Texts <- MCTexts
  Offsets = {0}
  MaxLen = 6
  MaxFaults = 1
  MaxOps = 3
INVARIANTS ChainsAreSound SizeIsCovered
PROPERTIES OthersUntouched ReadBack
