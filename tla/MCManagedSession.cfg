SPECIFICATION Spec
CONSTANTS
    Blocks = {a, b, k}
    Keepers = {k}
    Earlier = Earlier
INVARIANTS
    NothingLeftBehind
