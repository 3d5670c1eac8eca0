SPECIFICATION Spec
INVARIANTS
    ItemOpensItsList
