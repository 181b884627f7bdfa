CONSTANTS
    v1 = v1
    v2 = v2
    v3 = v3
    v4 = v4
    v5 = v5
    Value <- MCValue
SPECIFICATION Spec
INVARIANTS Consistent
