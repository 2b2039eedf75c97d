SPECIFICATION Spec
CONSTANTS
  Launches <- AllLaunches
  Chunk = 2
INVARIANTS Relocated
PROPERTIES LaunchEnds
CHECK_DEADLOCK FALSE
