CONSTANTS
    Accounts = {issuer, other}
    WebassetIssuer = issuer
    Tokens = {btc, tok}
    BtcAsset = btc
    WebAsset = web
    Prices = {1, 2}
    NoPrice = NoPrice
    MaxTime = 2
SPECIFICATION Spec
INVARIANT OnePricePerMarket
PROPERTIES
    ImplementsFeed
