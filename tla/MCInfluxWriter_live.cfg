\* A database without a retention policy that recovers for good, with a request limit below the batch size.
SPECIFICATION FairSpec
CONSTANTS
    NumMeasurements = 4
    Timestamp <- MixedTimestamps
    Convertible <- AllButSecond
    QueueSize = 2
    max_measurements_buffer_size = 3
    max_measurements_per_write = 4
    retry_interval = 1
    max_retry_interval = 4
    RetryAfters = {0}
    Answers <- NoRetention
    RequestLimit = 1
INVARIANT InArrivalOrder
PROPERTIES EventuallySettled Terminates
