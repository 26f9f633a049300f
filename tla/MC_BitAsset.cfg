\* Median recomputation, settlement fund sufficiency, supply conservation and
\* force-settlement cancellation over every order of the bitasset operations.
CONSTANTS
    Holders = {"h1", "h2"}
    Publishers = {"p1", "p2", "p3"}
    WitnessAuths = {"p3"}
    CommitteeAuths = {"p1"}
    Prices = {1, 2}
    SettlePrices <- MC_SettlePrices
    InitBalance <- MC_InitBalance
    IsPredictionMarket = FALSE
    InitPermissions <- PermNames
    PermissionChoices <- MC_PermissionChoices
    FlagChoices <- MC_FlagChoices
    MinFeedChoices = {1, 2}
    ProducerChoices <- MC_ProducerChoices
    MaxFeedPublishers = 2
    Amounts = {1}
    MaxOrders = 2
SPECIFICATION Spec
INVARIANTS
    TypeOK
    MedianOfCurrentFeeds
    SettlementFundCovers
    SupplyConserved
    NoOrdersWhileSettleDisabled
PROPERTIES
    ImplementsSettlement
