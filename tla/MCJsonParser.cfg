CONSTANT Modes <- MCModes
SPECIFICATION Spec
INVARIANTS StacksAgree BuildsDocument FilterExact AcceptsGrammar
