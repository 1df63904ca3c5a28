\* Redis with two quotes and a trade, batches of at most two tickers.
CONSTANTS
    Kinds <- MCKinds
    Tickers <- MCTickers
    Keys <- MCKeys
    Ordered <- MCOrdered
    Expires = TRUE
    Newest <- MCNewest
    Requests <- MCRequests
    MaxBatch = 2
    MaxLimit = 2
    StoredAs = "blob"
SPECIFICATION Spec
INVARIANT TypeOK
PROPERTIES BatchOneCut SinglesMonotonic
