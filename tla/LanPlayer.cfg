SPECIFICATION Spec
CONSTANT MaxLaunches = 2
INVARIANTS TypeOK LaunchesTracked
PROPERTIES LaunchEnds GoesAway
CHECK_DEADLOCK FALSE
