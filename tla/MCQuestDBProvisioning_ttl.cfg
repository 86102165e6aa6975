\* Violated: the next setup takes back a TTL the administrator has set on a profile's table.
SPECIFICATION Spec
CONSTANTS
    Profiles <- AllProfiles
    RawDays <- ProfileRawDays
    Interval <- ProfileInterval
    NumColumns = 2
    RollupColumns = 1
    Retentions = {365}
    ConfiguredProfiles = {"low"}
    InitialTTLs = {0}
    AdminTTLs = {90}
    Faults = {"refused"}
    RetryAttempts = 2
PROPERTY NeverOverwritten
