SPECIFICATION Spec
INVARIANTS
    TypeOK
    CursorShowsStored
PROPERTIES
    ChangesByChoice
