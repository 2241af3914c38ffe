CONSTANT Modes <- MCModes
SPECIFICATION Spec
INVARIANTS NoneDiscarded
