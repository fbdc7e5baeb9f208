CONSTANTS
    a = a
    b = b
    c = c
    d = d
    None = None
    Names = {1, 2, 3, 4}
    Invoices = {a, b, c, d}
    Target <- MCTarget
    MaxFails = 1
    MaxUser = 1
    Systems = {"posix", "windows"}
SPECIFICATION Spec
INVARIANTS
    FailureUndoneAlways
CHECK_DEADLOCK FALSE
