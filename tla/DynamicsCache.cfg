\* One key more than the cache ever needs, and keys that are never found.
CONSTANTS
    Keys = {k1, k2, k3, k4}
    NaNKeys = {nan}
    max_size_ = 4
    MaxLost = 4
SPECIFICATION CacheSpec
INVARIANTS
    QueueIsMap
    RemembersLatest
