SPECIFICATION Spec
CONSTANTS
    a = a
    b = b
    c = c
    Tasks <- MCTasks
    ISR = ISR
    MAX_NEST = 2
SYMMETRY TaskSymmetry
INVARIANTS Masked LevelIsDepth
