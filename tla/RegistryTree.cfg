\* Nested regions of two sessions at two priorities, with a lookup cache.
SPECIFICATION Spec
CONSTANTS
    Region <- Nested
    Priority = {1, 2}
    sa = sa
    sb = sb
    Session = {sa, sb}
    Object <- Objects
    CacheSize = 2
    MaxRegs = 3
    Nil = Nil
SYMMETRY SessionSymmetry
INVARIANTS TreeTypeOK TreeSound CacheSound LookupsServe
PROPERTIES ImplementsRegistry
CHECK_DEADLOCK FALSE
