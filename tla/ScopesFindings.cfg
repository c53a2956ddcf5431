CONSTANTS
    Scoped = {"t1", "t2"}
    Names = {"src", "lib", "a.rs"}
    RustFiles = {"a.rs"}
    Patterns <- SomePatterns
    MaxDepth = 3
    MaxRows = 3
SPECIFICATION ScopeSpec
INVARIANTS
    NothingMissed
