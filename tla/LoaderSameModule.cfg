CONSTANTS
    Threads = {t1, t2}
    Names = {"lib", "core", "plug"}
    Images = {"lib", "core", "plug", "fork"}
    Symbols <- MCSymbols
    None = None
    OnShelf = {"lib", "core"}
    Shelf <- MCShelf
    ImportName <- MCImportName
    Embedded <- MCEmbedded
    DependsOn <- MCDependsOn
    Needs <- MCNeeds
    Compatible <- MCCompatible
    Untrusted = {}
    Malformed = {}
    Defines <- MCDefines
    Defective <- MCDefective
    RefersTo <- MCRefersTo
    Initializers <- MCInitializers
    Finalizers <- MCFinalizers
    Fallible = {"core"}
    Asks <- MCAsks
    MaxDepth = 4
    MaxObjects = 6
    MaxCalls = 2
SPECIFICATION Spec
CHECK_DEADLOCK FALSE
INVARIANT
    ResultRegistered
