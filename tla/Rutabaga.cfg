SPECIFICATION Spec
CONSTANTS
    ResIds = {r1}
    CtxIds = {c1, c2}
    FenceIds = {f1}
    Builds <- AllBuilds
    BlobCmds <- GuestAndHost
    Capsets = {"virgl2", "cross-domain"}
    MaxHandles = 2
    MaxVecs = 2
SYMMETRY Symmetry
INVARIANTS
    TypeOK
    RendererAgrees
    MappedCanBeUnmapped
    ExportedExclusive
    IovecsHaveOneOwner
PROPERTY RestoredAlike
CHECK_DEADLOCK FALSE
