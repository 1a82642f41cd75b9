\* Two hosts with different WASI parameters and three calls; two paths, whose
\* directories are removed and created again; guests that match the tables of
\* an engine, lack an import, an export, or declare one with another type.
CONSTANTS
    HostIds = {"h1", "h2"}
    Contexts = {c1, c2, c3}
    Paths = {"a", "b"}
    MaxDirs = 3
    Guests <- MCGuests
    preopened_dirs <- MCPreopened
    map_dirs <- MCMapped
SYMMETRY ContextSymmetry
SPECIFICATION Spec
INVARIANTS
    TypeOK
    RightDirectories
    SameDirectories
    LinkedByGuestAlone
    Wasm3Ready
    TrapsOnlyOnForeignImports
\* All calls are made and no directory is left to create.
CHECK_DEADLOCK FALSE
