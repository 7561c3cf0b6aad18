SPECIFICATION Spec
CONSTANTS
    Contexts = {c1, c2}
    Infos <- SomeInfos
    Hosts <- SomeHosts
    Word = 512
    PageSize = 16
    Tile = 8
    GbmPad <- SomePads
    MaxDim = 4
    MaxItems = 2
SYMMETRY Symmetry
INVARIANTS
    PlanesFit
    PromiseKept
    MemoryTypeRight
    CapsHonoured
