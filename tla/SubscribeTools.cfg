SPECIFICATION Spec
CONSTANTS
    Handlers = {h1, h2, h3}
    Depth = 3
    None = None
INVARIANTS
    ReachesAll
    OnceIsOver
