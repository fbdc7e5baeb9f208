CONSTANTS
    v1 = v1
    v2 = v2
    Vouchers <- MCVouchers
    LegacyStatuses = {"import_failed"}
    MaxChanges = 1
    Allowed = {}
SPECIFICATION Spec
INVARIANTS
    BatchesTrue
    Settleable
PROPERTIES
    KeepsPromise
SYMMETRY Symmetry
CHECK_DEADLOCK FALSE
