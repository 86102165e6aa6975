\* Every fault and restart, switches between profiles, an administrator's TTL.
SPECIFICATION FairSpec
CONSTANTS
    Profiles <- AllProfiles
    RawDays <- ProfileRawDays
    Interval <- ProfileInterval
    NumColumns = 2
    RollupColumns = 1
    Retentions = {0, 365}
    ConfiguredProfiles = {"low", "high", "disabled"}
    InitialTTLs <- SomeTTLs
    AdminTTLs = {90}
    Faults = {"refused", "lost"}
    RetryAttempts = 2
INVARIANTS ManagedIsOurs EnsuredIsPublished
PROPERTIES AdminTTLKept PublishedWhenReady RollupBeforeTTL RetryEnds
