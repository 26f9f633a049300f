CONSTANTS
    Accounts = {committee, issuer}
    Committee = committee
    WebassetIssuer = issuer
    Symbols = {"CORE", "WEB", "BIT", "WEB.X"}
    CoreSymbol = "CORE"
    PrefixOf <- MC_PrefixOf
    NoPrefix = "none"
    Precisions = {4, 5}
    BeforeHF409 = FALSE
    MaxAssets = 3
SPECIFICATION Spec

    
PROPERTIES
    ImplementsDirectory
