SPECIFICATION Spec
CONSTANTS
    Calls <- MCCalls
    NameLength <- MCNameLength
    Errors <- MCErrors
    MaxLength = 1
    Room = 1
    MaxPresses = 1
    MaxDeaths = 0
PROPERTIES
    ControlCHalts
