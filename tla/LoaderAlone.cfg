CONSTANTS
    Threads = {t1}
    Names = {"app", "lib", "core", "plug", "late", "gap"}
    Images = {"app", "lib", "core", "plug", "fork", "late", "gap", "alien", "torn", "stub", "twin"}
    Symbols <- MCSymbols
    None = None
    OnShelf = {"app", "lib", "core", "late", "gap"}
    Shelf <- MCShelf
    ImportName <- MCImportName
    Embedded <- MCEmbedded
    DependsOn <- MCDependsOn
    Needs <- MCNeeds
    Compatible <- MCCompatible
    Untrusted = {"alien"}
    Malformed = {"torn"}
    Defines <- MCDefines
    Defective <- MCDefective
    RefersTo <- MCRefersTo
    Initializers <- MCInitializers
    Finalizers <- MCFinalizers
    Fallible = {"lib", "core"}
    Asks <- MCAsks
    MaxDepth = 4
    MaxObjects = 5
    MaxCalls = 3
SPECIFICATION Spec
CHECK_DEADLOCK FALSE
INVARIANTS
    FailureReported
    ShutdownOnlyReady
    NoOrphans
    ReferencesLive
PROPERTIES
    InitAfterDependencies
    ImplementsRegistry
