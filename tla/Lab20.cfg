SPECIFICATION Spec
CONSTANTS
    Paths = {p1, p2}
    Inputs <- MCInputs
    Bytes = {"a", "b", "0", "q"}
    kBlockSize = 3
    Missing = Missing
    Nothing = Nothing
    Nul = "0"
    Quit = "q"
SYMMETRY PathSymmetry
INVARIANTS
    ReadBackIsOwn
    ExitStatusTells
