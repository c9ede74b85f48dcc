CONSTANTS
    IdLen <- MCIdLen
    Inputs <- MCStrings

SPECIFICATION Spec

INVARIANT FromHexNeverPanics
