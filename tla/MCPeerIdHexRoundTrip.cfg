CONSTANTS
    IdLen <- MCIdLen
    Inputs <- MCIds

SPECIFICATION Spec

INVARIANT RoundTrip TransportCodecs
