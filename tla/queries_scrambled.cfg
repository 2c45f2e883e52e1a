SPECIFICATION Spec
CONSTANTS
    StoredTypes <- SomeTypes
    PyValues <- SomePyValues
    SomeQueries <- MCSomeQueries
    SomeNames <- MCSomeNames
    SomeTags <- MCSomeTags
    SomeTerms <- MCSomeTerms
    SomeAges <- MCSomeAges
    Bounds <- MCBounds
    dalname <- MCdalname
    Contents <- MCContents
    Filtered <- MCFiltered
    Sets <- MCSets
    Subselects <- MCSubselects
    Joins <- MCJoins
    FieldLists <- MCFieldLists
    SelectedColumns <- MCSelectedColumns
    ReferencedBy <- MCReferencedBy
    Descriptions <- MCDescriptions
    GivenColumns <- MCGivenColumns
    DictQueries <- MCDictQueries
    Dicts <- MCDicts
    GivenFields <- MCGivenFields
    GivenKeys <- MCGivenKeys
    RowLists <- MCRowLists
    Passes <- MCPasses
    Files <- MCFiles
    SomeTexts <- MCTexts
    Data <- MCData
    RefersTo <- MCRefersTo
    SearchedTable = "thing"
    Searches <- MCSearches
    MAX_LIMIT = 3
    DefaultLimit = 2
    Changes <- MCChanges
    Unreadable <- MCUnreadable
    FieldOrder <- MCFieldOrder
    NumberOf <- MCNumberOf
    PatternLists <- MCPatternLists
    PathsFor <- MCPathsFor
    Vars <- MCVars
    AutoTables = {"thing", "rel", "color"}
    SomeDefinitions <- MCDefinitions
    Aliases = {"b", "x"}
    MaxDefinitions = 4
    DbUids = {"u", "v"}
    Attempts <- MCAttempts
    Uris = {1, 2}
    MaxInstances = 3
    Shapes <- MCShapes
    TablesOf <- MCTablesOf
    KeysOf <- MCKeysOf
    WrittenOf <- MCWrittenOf
    Demands <- MCDemands
    TagTexts <- MCTagTexts
    TagTables <- MCTagTables
    TagRecords = {1, 2}
    FileNames <- MCFileNames
    UploadNames <- MCUploadNames
    UploadFields <- MCUploadFields
    Paths = {"", "other"}
    Modes = {"rb", "wb", "ab"}
    Rows1 <- MCRows1
    Disks <- MCDisks
    MaxClosed = 3
    Users = {"x", "y"}
    Bytes = {10}
    MaxLength = 2
INVARIANT ParametersInOrder
CHECK_DEADLOCK FALSE
