SPECIFICATION Spec
CONSTANTS
    None = None
    Clients = {c1, c2, c3}
    Pages = {p1, p2}
    MaxRedirectCount = 1
PROPERTY
    ImplementsAtomicTools
