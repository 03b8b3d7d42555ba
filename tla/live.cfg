CONSTANTS
    MaxTurns = 2
    MaxControls = 1
    MaxFailures = 1
SPECIFICATION Spec
INVARIANT
    SilencedStaysSilent
PROPERTIES
    
    SessionEnds
CHECK_DEADLOCK FALSE
