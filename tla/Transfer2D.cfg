SPECIFICATION Spec
CONSTANTS
    Word = 32
    Bpp = 4
    Images <- SomeImages
    Transfers <- SomeTransfers
    Iovecs <- SomeIovecs
    BufSizes = {0, 15, 32}
    ScanoutStrides = {4, 8, 12}
INVARIANTS
    CopiedRight
    CopiedAll
    RefusedRightly
PROPERTY Terminates
