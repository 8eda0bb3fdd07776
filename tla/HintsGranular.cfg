CONSTANTS
    Data <- MCData
    HintPaths <- MCHintPaths
    None = None
    Ages = {1, 2}
    Scopes = {"PRIVATE"}
SPECIFICATION Spec
INVARIANT
    Granular
