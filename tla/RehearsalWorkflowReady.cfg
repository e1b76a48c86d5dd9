SPECIFICATION Spec
CONSTANTS
    MaxRounds = 2
INVARIANTS ReadyOnlyWhenCompleted
