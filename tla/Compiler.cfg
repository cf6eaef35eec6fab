CONSTANTS
    Width = 3
    Predefined <- PredefinedValues
    Builtins <- PrintBuiltin
    MaxAggregateDepth = 2
    MaxImportDepth = 3
    MaxNesting = 8
    MachineFuel = 300
    LanguageFuel = 300
    Entry = "game"
    EntryFile = "game"
    MaxDepth = 3
    Graphs <- StructGraphs
    UseGraphs <- ConstantGraphs
    ImportGraphs <- FileGraphs
    Loading <- LoadModules
    Checking <- Check
    Emitting <- EmitProgram
    Meant <- Meaning
SPECIFICATION Spec
INVARIANTS
    CodeMeansProgram FoldingAgrees DeclarationsResolve LoaderAcceptsExactly
    NamesStayHome ParseInverts SearchesAreExact
CHECK_DEADLOCK FALSE
