CONSTANTS
    Accounts = {a1, a2, a3}
    Existing = {a1, a2}
    Amounts = {1, 2}
    BlocksLimit = 2
    MaxElements = 2
    MaxHead = 2
    MaxQueue = 3
    Symbols <- MC_Symbols
    CoreSymbol = "CORE"
    WebSymbol = "WEB"
    QueryStrings <- MC_QueryStrings
    DigitStrings <- MC_DigitStrings
    ParsedId <- MC_ParsedId
    Malformed = Malformed
    UniqueIds = {u1, u2}
    MaxAssets = 3
    Error = Error
    Null = Null
    Frequencies = {5}
    CycleAmounts = {1}
    Undefined = Undefined
SPECIFICATION Spec
INVARIANT BatchLookupNeverFails
