SPECIFICATION Spec
CONSTANTS
    Lists <- SomeLists
    Texts <- SomeTexts
    Mails <- SomeMails
    Passwords <- SomePasswords
    Typed <- SomeTyped
    Needs <- SomeNeeds
    Crypts <- SomeCrypts
    MaxLen = 4
    Years <- SomeYears
    Moments <- Hours
    YearLen = 6
    Zones <- AllZones
    Urls <- LegalUrls
    UrlModes <- LegalModes
    Base = 4
    Addresses <- SomeAddresses
    IpRanges <- SomeRanges
    Localhost <- Loopback
    Private <- PrivateRanges
    Automatic <- AutomaticRange
    FileNames <- SomeNames
    Headers <- SomeHeaders
    SizesOfImages <- SomeSizes
    NumberText <- Digits
    FieldTypes <- AllFieldTypes
    Values <- SomeValues
    TableRows <- SomeRows
    Referenced <- SomeIds
    Wrapped <- SomeWrapped
INVARIANTS CleanedSettles ShownIsReadBack PasswordsTell AcceptedAsAsked
CHECK_DEADLOCK FALSE
