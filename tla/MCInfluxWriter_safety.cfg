\* Every answer of the database, cancellation, exceptions and overflow.
SPECIFICATION Spec
CONSTANTS
    NumMeasurements = 5
    Timestamp <- MixedTimestamps
    Convertible <- AllButSecond
    QueueSize = 2
    max_measurements_buffer_size = 4
    max_measurements_per_write = 3
    retry_interval = 1
    max_retry_interval = 2
    RetryAfters = {0, 1}
    Answers <- AllAnswers
    RequestLimit = 1
INVARIANTS Conserved PostedIsHead DeliveredIsStored SortedIsNewestFirst FlushComplete
PROPERTY Delivers
