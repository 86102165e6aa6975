\* A box of two services for each purpose, responses of three elements, a feed of
\* three lines with the smallest memory that will do, a log of two records, batches
\* of four, 110 592 ways to configure, three rows of a table, and every command on
\* a table with one view.
SPECIFICATION PartsSpec
CONSTANTS
    Services = {"logs738", "logs", "channels757", "channels", "vpn738", "ipsec", "wireguard", "device"}
    Definition <- LookedAt
    Boxes <- BothBoxes
    Firmwares = {0, 656, 738, 739, 757, 758}
    MaxUpdates = 1
    Elements <- Responses
    MaxElements = 3
    Views = {v1}
    LastDay = 3
    RawDays = 2
    Ranges <- FirstTwo
    Lines <- Written
    Null = Null
    Bucket = 2
    Day = 2
    raw_days = 1
    view_days = 2
    Sample = 4
    LastTime = 6
    MaxRows = 3
    NumMetrics = 2
    FeedSize = 3
    max_tracked_measurements = 10
    MaxLines = 9
    LogQueueSize = 3
    QueueSize = 2
    max_log_records_per_tick = 2
    Tried <- SettingTexts
    IntOf <- Numbers
    BoolOf <- Booleans
    UrlOf <- Urls
    LocalHosts = {"localhost"}
    Profiles = {"low", "medium", "high"}
    Inputs <- GivenInputs
    INT64_MAX = 1
    INT64_MIN <- LeastInt
    measurement_name = "fritzbox"
    TicksPerS = 4
    TicksPerMs = 2
    MaxBatch = 4
INVARIANTS
    OneVariant OnlyItsOwn ReportedOnce RaisesOnlyOvertaking NoFieldLost
    DocumentedPrecedence SameAverage SameIncrease RollupsRebuilt NoGhostProfile
\* A stopped forwarder, a full batch.
CHECK_DEADLOCK FALSE
