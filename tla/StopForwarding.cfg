SPECIFICATION Spec
CONSTANTS
  MaxStarts = 3
  Handle = {1, 2, 3}
  Port = {25565, 25566}
  Patient = TRUE
PROPERTIES StopIsQuick
