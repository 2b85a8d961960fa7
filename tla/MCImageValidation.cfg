\* Two digests, manifests of up to two layers, blobs of two buffers, and
\* reads that do not fail.
CONSTANTS
    d1 = d1
    d2 = d2
    none = none
    Digests = {d1, d2}
    NoService = none
    MaxLayers = 2
    ChunksPerBlob = 2
    ReadMayFail = FALSE
SPECIFICATION Spec
INVARIANT PreparedImageIntact
PROPERTY IntactImageAccepted
\* validateUnpackedImage returns, and the model stops there.
CHECK_DEADLOCK FALSE
