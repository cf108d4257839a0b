SPECIFICATION FetchFairSpec
CONSTANTS
    l1 = l1
    l2 = l2
    s1 = s1
    d1 = d1
    Loaders <- MCLoaders
    Hashes <- MCSlices
    Providers <- MCProviders
    NumChunks = 2
    MaxRetries = 1
    MaxFetches = 2

    
PROPERTIES
    FetchesSettle
CHECK_DEADLOCK FALSE
