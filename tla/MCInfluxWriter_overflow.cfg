\* Violated: after a retention answer a full buffer drops the newest measurements.
SPECIFICATION Spec
CONSTANTS
    NumMeasurements = 4
    Timestamp <- RisingTimestamps
    Convertible <- AllButSecond
    QueueSize = 2
    max_measurements_buffer_size = 2
    max_measurements_per_write = 1
    retry_interval = 1
    max_retry_interval = 2
    RetryAfters = {1}
    Answers <- AllAnswers
    RequestLimit = 1
PROPERTY OverflowDropsOldest
