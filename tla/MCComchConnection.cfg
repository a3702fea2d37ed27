CONSTANT NEndpoints <- MCNEndpoints
SPECIFICATION MCSpec
INVARIANT ConnTypeOK
INVARIANT NoFatal
INVARIANT EndpointPairing
INVARIANT PathsPaired
PROPERTY EstablishReturns
PROPERTY PeerCompletes
