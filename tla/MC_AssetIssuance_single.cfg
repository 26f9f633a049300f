\* One operation per transaction: the cap on supply and idempotent issuance.
CONSTANTS
    Accounts = {"alice", "bob"}
    Assets = {"core", "web", "cyc"}
    CoreAsset = "core"
    MarketIssued = {}
    DualAuth = {"web"}
    Authenticator <- MC_Authenticator
    Committee = "committee"
    Issuer <- MC_Issuer
    MaxSupply <- MC_MaxSupply
    WebassetIssuer = "alice"
    DascoinAsset = "dasc"
    CycleAsset = "cyc"
    AccountKind <- MC_AccountKind
    Unauthorized = {}
    UniqueIds = {"u1", "u2"}
    RequestIds = {"r1", "r2"}
    RequestAsset <- MC_RequestAsset
    WebAsset = "web"
    MintingDeprecated = TRUE
    Amounts = {1}
    ReservedAmounts = {0, 1}
    OpChoices <- MC_OpChoices
    GenesisCore = 1
    MaxOps = 1
SPECIFICATION Spec
INVARIANTS
    SupplyWithinMax
    IdempotentIssuance
