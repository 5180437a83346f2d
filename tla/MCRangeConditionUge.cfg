SPECIFICATION Spec
CONSTANTS
    Moduli <- MCModuli
    Supported <- MCSupported
CHECK_DEADLOCK FALSE
INVARIANTS GreaterThanIsEquivalent
