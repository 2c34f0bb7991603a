\* Two subscriptions, two concurrent publishes.
SPECIFICATION FairSpec
CONSTANTS
    star = star
    spot = spot
    tickers = tickers
    trade = trade
    btc = btc
    BTC = BTC
    Nobody = Nobody
    Owners = {o1, o2}
    Calls = {p1, p2}
    Events <- MCEvents
    Filters <- MCFilters
    Wildcards <- MCWildcards
    Upper <- MCUpper
INVARIANT TokenNamesOwnRecord
INVARIANT NoDeliveryAfterUnsubscribe
INVARIANT CompleteFanout
PROPERTY PublishReturns
