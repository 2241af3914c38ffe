CONSTANTS
    Inputs <- MCInputs
    WideStrings <- MCWideStrings
    Garbage <- MCGarbage
    NumberBits = 4
SPECIFICATION Spec
INVARIANTS TokensSpelled ErrorsReal PositionsRight WideExact
