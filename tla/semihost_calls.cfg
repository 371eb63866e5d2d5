SPECIFICATION Spec
CONSTANTS
    Calls <- MCCalls
    NameLength <- MCNameLength
    Errors <- MCErrors
    MaxLength = 1
    Room = 1
    MaxPresses = 2
    MaxDeaths = 1
INVARIANTS
    RequestMeansCall
    RunsUnpaused
PROPERTIES
    ServesCalls
    HaltsWhenAsked
    CallsReturn
