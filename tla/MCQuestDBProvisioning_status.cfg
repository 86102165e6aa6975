\* Violated: the raw TTL is changed before the status that tells Grafana of it.
SPECIFICATION Spec
CONSTANTS
    Profiles <- AllProfiles
    RawDays <- ProfileRawDays
    Interval <- ProfileInterval
    NumColumns = 2
    RollupColumns = 1
    Retentions = {365}
    ConfiguredProfiles = {"low", "high"}
    InitialTTLs = {0}
    AdminTTLs = {}
    Faults = {"refused"}
    RetryAttempts = 2
INVARIANT RawDaysMatchTTL
