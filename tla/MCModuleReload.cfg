SPECIFICATION Spec
CONSTANTS
    Modules <- MCModules
    Imports <- MCImports
    Core = "core"
    HookModules <- MCHookModules
    FirstOrder <- MCFirstOrder
    ServerList <- MCServerList
    MaxVersion = 3
INVARIANTS TypeOK OrderedIsFresh
