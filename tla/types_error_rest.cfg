SPECIFICATION Spec
CONSTANTS
  ByteSize = 4
  Versions <- MCVersions
  FrameBytes = 7
  EnumValues = {0, 3}
  RestOfError = {0, 1}
  BeyondRights = FALSE
  MaxInFlight = 2
INVARIANT ReturnArrives
