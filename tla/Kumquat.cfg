SPECIFICATION Spec
CONSTANTS
    Clients = {c1, c2}
    Requests = {"Query", "CtxCreate", "Create3d", "CreateBlob", "Detach", "Attach", "Transfer", "Submit", "SubmitInFences", "SubmitFence", "SubmitShare", "SubmitShareRing", "Save", "Restore"}
    MaxReqs = 2
    MaxIds = 4
    MaxBoots = 2
INVARIANTS
    TypeOK PendingOwed BackingMapped TablesAgree  ConnectionKept
PROPERTY FencesImplemented
CHECK_DEADLOCK FALSE
SYMMETRY Symmetry
