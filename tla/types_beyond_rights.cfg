SPECIFICATION Spec
CONSTANTS
  ByteSize = 4
  Versions <- MCVersions
  FrameBytes = 7
  EnumValues = {0, 3}
  RestOfError = {0}
  BeyondRights = TRUE
  MaxInFlight = 2
PROPERTY WriterKeepsValue
