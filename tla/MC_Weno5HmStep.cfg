CONSTANTS
    Values <- MCValues
    Penalties <- MCPenalties

SPECIFICATION Spec

INVARIANT StepWithinRange
