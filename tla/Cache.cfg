\* One id more than the cache can hold.
CONSTANTS
    Ids = {i1, i2, i3, i4}
    Decisions = {d1, d2}
    MaxSize = 3
    Ttl = 3
    NoEntry = NoEntry
SPECIFICATION CacheSpec
SYMMETRY Symmetry
INVARIANTS
    MapAndListAgree
    HitIsLastPut
    RecentIsRetained
