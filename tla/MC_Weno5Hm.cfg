CONSTANTS
    Values <- MCValues
    Penalties <- MCPenalties

SPECIFICATION Spec

INVARIANT TypeOK
INVARIANT ConstantFieldExact
INVARIANT CandidatesExact
INVARIANT IndicatorsExact
INVARIANT OptimalBlendFifthOrder
INVARIANT MirrorSymmetry
