---------------------------- MODULE InfluxWriter ----------------------------
(***************************************************************************)
(* The database writer of fritzfluxdb: class InfluxHandler of              *)
(* app/classes/influxdb/handler.py.  One asyncio task (task_loop) drains   *)
(* the measurement queue into a bounded buffer and posts the head of the   *)
(* buffer to the database, with a batch size, a retry interval and two     *)
(* retention flags that every answer of the database adjusts.  On          *)
(* cancellation the task flushes the buffer and closes the HTTP client.    *)
(*                                                                         *)
(* asyncio runs everything between two awaits atomically: other tasks      *)
(* (producers, main) act only while the writer is AtAwait.                 *)
(*                                                                         *)
(* The database is external: it is modelled by the answers it may give and *)
(* by what of a posted batch it keeps when it gives them.                  *)
(***************************************************************************)
EXTENDS Integers, Sequences, Functions

CONSTANTS
    NumMeasurements,              \* bound: measurements the producers deliver
    Timestamp,                    \* FritzMeasurement.timestamp of each of them
    Convertible,                  \* those bundle_measurements can convert
    QueueSize,                    \* maxsize of the measurement queue
    max_measurements_buffer_size,
    max_measurements_per_write,
    retry_interval,
    max_retry_interval,
    RetryAfters,                  \* values of the Retry-After header
    Answers,                      \* kinds of answer the database may give
    RequestLimit                  \* lines the healthy database takes at once

Measurements == 1..NumMeasurements

AllAnswers == {"ok", "retention", "malformed", "too_large", "retryable",
               "config", "other", "transport", "exception"}

ASSUME WriterAssumption ==
    /\ NumMeasurements \in Nat
    /\ Timestamp \in [Measurements -> Int]
    /\ Convertible \subseteq Measurements
    /\ QueueSize \in Nat \ {0}
    /\ max_measurements_buffer_size \in Nat \ {0}
    /\ max_measurements_per_write \in Nat \ {0}
    /\ retry_interval \in Nat \ {0}
    /\ max_retry_interval \in Nat
    /\ retry_interval <= max_retry_interval
    /\ RetryAfters \subseteq Nat
    /\ Answers \subseteq AllAnswers
    /\ RequestLimit \in Nat

VARIABLES
    queue,       \* asyncio.Queue between the producers and the writer
    arrived,     \* number of measurements put on the queue so far
    buffer,
    current_measurements_per_write,
    current_retry_interval,
    last_write_retry,   \* ticks since the last attempt, Never when it is None
    client,             \* None, an open httpx client, or a closed one
    connection_lost,
    out_of_retention_period_range,
    retention_buffer_sorted,
    pc,          \* where the task is
    drained,     \* measurements taken off the queue in this turn of the loop
    local_buffer,       \* the batch being posted
    cause,       \* why the client is being closed: the branch left pending
    stopping,    \* the task has left its loop for the finally clause
    cancelled,   \* main has cancelled the task
    before,      \* buffer length before the current flush write, 0 at first
    healthy,     \* from now on the database accepts every legal request
    stored,      \* measurements the database holds
    delivered,   \* removed from the buffer because a write succeeded
    discarded,   \* removed from the buffer for any other reason
    gave_up      \* a flush write failed, timed out or was interrupted

inputVars   == <<queue, arrived, healthy>>
tuningVars  == <<current_measurements_per_write, current_retry_interval,
                 last_write_retry>>
flagVars    == <<connection_lost, out_of_retention_period_range,
                 retention_buffer_sorted>>
controlVars == <<drained, stopping, cancelled, before>>
ghostVars   == <<stored, delivered, discarded, gave_up>>
vars == <<inputVars, buffer, tuningVars, client, flagVars, pc, local_buffer,
          cause, controlVars, ghostVars>>

Never == -1

Least(a, b)    == IF a <= b THEN a ELSE b
Greatest(a, b) == IF a >= b THEN a ELSE b

Take(s, n)     == SubSeq(s, 1, Least(n, Len(s)))     \* s[:n]
DropHead(s, n) == SubSeq(s, n + 1, Len(s))           \* s[n:]

AtAwait == pc \in {"dial", "post", "aclose", "sleep", "close"}

AfterWrite == IF stopping THEN "flush" ELSE "sleep"

Doubled == Least(current_retry_interval * 2, max_retry_interval)

\* The part of the buffer a posted batch is, and what is left without it.
Batch        == Take(buffer, Len(local_buffer))
\* Faults of Conserved and of Delivers: one too few, or as many as allowed.
RestOffByOne == DropHead(buffer, Len(local_buffer) - 1)
RestByLimit  == DropHead(buffer, current_measurements_per_write)
Rest         == DropHead(buffer, Len(local_buffer))
-----------------------------------------------------------------------------
TypeOK ==
    /\ queue \in Seq(Measurements) /\ Len(queue) <= QueueSize
    /\ arrived \in 0..NumMeasurements
    /\ buffer \in Seq(Measurements)
    /\ Len(buffer) <= max_measurements_buffer_size
    /\ current_measurements_per_write \in 1..max_measurements_per_write
    /\ current_retry_interval \in 0..max_retry_interval
    /\ last_write_retry \in {Never} \cup 0..max_retry_interval
    /\ client \in {"none", "open", "closed"}
    /\ connection_lost \in BOOLEAN
    /\ out_of_retention_period_range \in BOOLEAN
    /\ retention_buffer_sorted \in BOOLEAN
    /\ pc \in {"drain", "gate", "dial", "compose", "post", "aclose", "sleep",
               "flush", "close", "died", "stopped"}
    /\ drained \in 0..max_measurements_per_write
    /\ local_buffer \in Seq(Measurements)
    /\ cause \in {"none", "dial", "retryable", "transport"}
    /\ stopping \in BOOLEAN
    /\ cancelled \in BOOLEAN
    /\ before \in Nat
    /\ healthy \in BOOLEAN
    /\ stored \subseteq Measurements
    /\ delivered \subseteq Measurements
    /\ discarded \subseteq Measurements
    /\ gave_up \in BOOLEAN

Init ==
    /\ queue = <<>> /\ arrived = 0
    /\ buffer = <<>>
    /\ current_measurements_per_write = max_measurements_per_write
    /\ current_retry_interval = retry_interval
    /\ last_write_retry = Never
    /\ client = "none"
    /\ connection_lost = FALSE
    /\ out_of_retention_period_range = FALSE
    /\ retention_buffer_sorted = FALSE
    /\ pc = "drain" /\ drained = 0
    /\ local_buffer = <<>> /\ cause = "none"
    /\ stopping = FALSE /\ cancelled = FALSE /\ before = 0
    /\ healthy = FALSE
    /\ stored = {} /\ delivered = {} /\ discarded = {} /\ gave_up = FALSE
-----------------------------------------------------------------------------
(* The environment: producers, the clock, and the database's recovery.     *)

Put ==
    /\ AtAwait
    /\ arrived < NumMeasurements
    /\ Len(queue) < QueueSize
    /\ queue' = Append(queue, arrived + 1)
    /\ arrived' = arrived + 1
    /\ UNCHANGED <<healthy, buffer, tuningVars, client, flagVars, pc,
                   local_buffer, cause, controlVars, ghostVars>>

\* Time is only read through its distance to last_write_retry, which stops
\* mattering beyond max_retry_interval.
Tick ==
    /\ AtAwait
    /\ last_write_retry \in 0..(max_retry_interval - 1)
    /\ last_write_retry' = last_write_retry + 1
    /\ UNCHANGED <<inputVars, buffer, current_measurements_per_write,
                   current_retry_interval, client, flagVars, pc, local_buffer,
                   cause, controlVars, ghostVars>>

Recover ==
    /\ AtAwait /\ ~healthy /\ healthy' = TRUE
    /\ UNCHANGED <<queue, arrived, buffer, tuningVars, client, flagVars, pc,
                   local_buffer, cause, controlVars, ghostVars>>
-----------------------------------------------------------------------------
(* task_loop: drain, write, sleep.                                         *)

DropCount == IF Len(buffer) >= max_measurements_buffer_size
             THEN Least(Len(buffer), max_measurements_per_write) ELSE 0

\* Fault of SortedIsNewestFirst: an append leaves the flag set.
StillSorted == retention_buffer_sorted
SortedAfterAppend == retention_buffer_sorted /\ ~out_of_retention_period_range

append_measurement(m) ==
    /\ buffer' = Append(DropHead(buffer, DropCount), m)
    /\ discarded' = discarded \cup Range(Take(buffer, DropCount))
    /\ retention_buffer_sorted' = SortedAfterAppend

DrainOne ==
    /\ pc = "drain"
    /\ drained < max_measurements_per_write
    /\ queue # <<>>
    /\ append_measurement(Head(queue))
    /\ queue' = Tail(queue)
    /\ drained' = drained + 1
    /\ UNCHANGED <<arrived, healthy, tuningVars, client, connection_lost,
                   out_of_retention_period_range, pc, local_buffer, cause,
                   stopping, cancelled, before, stored, delivered, gave_up>>

DrainEnds ==
    /\ pc = "drain"
    /\ drained = max_measurements_per_write \/ queue = <<>>
    /\ pc' = "gate" /\ drained' = 0
    /\ UNCHANGED <<inputVars, buffer, tuningVars, client, flagVars,
                   local_buffer, cause, stopping, cancelled, before, ghostVars>>

Wake ==
    /\ pc = "sleep" /\ pc' = "drain"
    /\ UNCHANGED <<inputVars, buffer, tuningVars, client, flagVars,
                   local_buffer, cause, controlVars, ghostVars>>
-----------------------------------------------------------------------------
(* _write_data_unlocked up to the request; force is stopping.              *)

permitted_to_write_data ==
    \/ last_write_retry = Never
    \/ last_write_retry >= Least(current_retry_interval, max_retry_interval)

MayWrite == (stopping \/ permitted_to_write_data) /\ buffer # <<>>

SkipWrite ==
    /\ pc = "gate" /\ ~MayWrite
    /\ pc' = AfterWrite
    /\ UNCHANGED <<inputVars, buffer, tuningVars, client, flagVars,
                   local_buffer, cause, controlVars, ghostVars>>

\* _init_client is only called when there is no client; it sets self.client
\* before it awaits the ping.
StartWrite ==
    /\ pc = "gate" /\ MayWrite
    /\ pc' = IF client = "none" THEN "dial" ELSE "compose"
    /\ client' = IF client = "none" THEN "open" ELSE client
    /\ UNCHANGED <<inputVars, buffer, tuningVars, flagVars, local_buffer,
                   cause, controlVars, ghostVars>>

DialSucceeds ==
    /\ pc = "dial" /\ pc' = "compose"
    /\ UNCHANGED <<inputVars, buffer, tuningVars, client, flagVars,
                   local_buffer, cause, controlVars, ghostVars>>

DialFails ==
    /\ pc = "dial" /\ "transport" \in Answers /\ ~healthy
    /\ connection_lost' = TRUE
    /\ client' = "closed" /\ cause' = "dial" /\ pc' = "aclose"
    /\ gave_up' = (gave_up \/ stopping)
    /\ UNCHANGED <<inputVars, buffer, tuningVars,
                   out_of_retention_period_range, retention_buffer_sorted,
                   local_buffer, controlVars, stored, delivered, discarded>>

\* The stable sort by timestamp, newest first: t is s read in the order p.
NewestFirst(s, p) ==
    \A i, j \in DOMAIN s :
        i < j => \/ Timestamp[s[p[i]]] > Timestamp[s[p[j]]]
                 \/ /\ Timestamp[s[p[i]]] = Timestamp[s[p[j]]]
                    /\ p[i] < p[j]

\* Fault of InArrivalOrder: the buffer is sorted whenever the flag is clear.
NeedsSortAlways == ~retention_buffer_sorted
NeedsSort == out_of_retention_period_range /\ ~retention_buffer_sorted

Ordered(s) ==
    IF NeedsSort
    THEN {[i \in DOMAIN s |-> s[p[i]]] :
             p \in {q \in Bijection(DOMAIN s, DOMAIN s) : NewestFirst(s, q)}}
    ELSE {s}

\* The measurements of a batch that bundle_measurements converts, in order:
\* the batch read at the increasing sequence f of their positions.
ConvertibleParts(s) ==
    LET valid == {i \in DOMAIN s : s[i] \in Convertible}
    IN  UNION {{[i \in 1..n |-> s[f[i]]] :
                   f \in {g \in [1..n -> valid] :
                            /\ \A i, j \in 1..n : i < j => g[i] < g[j]
                            /\ Range(g) = valid}} : n \in 0..Len(s)}

\* Fault of PostedIsHead and DeliveredIsStored: what cannot be converted stays
\* at the head, before the batch that is posted.
BundledKeepingInvalid(valid, batch, ordered) == ordered
Bundled(valid, batch, ordered) == valid \o DropHead(ordered, Len(batch))

\* The batch is what is left of the head of the ordered buffer; a batch with
\* nothing convertible ends the write without a request.
Prepare(ordered, batch, valid) ==
    /\ buffer' = Bundled(valid, batch, ordered)
    /\ discarded' = discarded \cup (Range(batch) \ Convertible)
    /\ pc' = IF valid = <<>> THEN AfterWrite ELSE "post"
    /\ local_buffer' = valid
    /\ last_write_retry' = IF valid = <<>> THEN last_write_retry ELSE 0

Compose ==
    /\ pc = "compose"
    /\ \E ordered \in Ordered(buffer) :
       LET batch == Take(ordered, current_measurements_per_write)
       IN \E valid \in ConvertibleParts(batch) : Prepare(ordered, batch, valid)
    /\ retention_buffer_sorted' =
           (retention_buffer_sorted \/ out_of_retention_period_range)
    /\ UNCHANGED <<inputVars, current_measurements_per_write,
                   current_retry_interval, client, connection_lost,
                   out_of_retention_period_range, cause, controlVars, stored,
                   delivered, gave_up>>
-----------------------------------------------------------------------------
(* The answers to a POST.  A failed request may have stored any part of    *)
(* the batch; an accepted one has stored all of it.                        *)

Answered(kind) ==
    /\ pc = "post" /\ client = "open"
    /\ kind \in Answers

MayHaveStored ==
    \E kept \in SUBSET Range(local_buffer) : stored' = stored \cup kept

\* Branches that keep the client: the bookkeeping after the try statement.
WriteFails(rest, batch_size, out_of_retention) ==
    /\ buffer' = rest
    /\ out_of_retention_period_range' = (out_of_retention /\ rest # <<>>)
    /\ retention_buffer_sorted' = (retention_buffer_sorted /\ rest # <<>>)
    /\ current_measurements_per_write' =
           IF rest = <<>> THEN max_measurements_per_write ELSE batch_size
    /\ pc' = AfterWrite /\ local_buffer' = <<>>
    /\ gave_up' = (gave_up \/ (stopping /\ rest = buffer))
    /\ UNCHANGED <<inputVars, client, cause, controlVars>>

PostSucceeds ==
    /\ Answered("ok")
    /\ healthy => Len(local_buffer) <= RequestLimit
    /\ stored' = stored \cup Range(local_buffer)
    /\ buffer' = Rest
    /\ delivered' = delivered \cup Range(Batch)
    /\ connection_lost' = FALSE
    /\ last_write_retry' = Never
    /\ current_retry_interval' = retry_interval
    /\ out_of_retention_period_range' = FALSE
    /\ retention_buffer_sorted' = FALSE
    /\ current_measurements_per_write' =
           Least(current_measurements_per_write * 4, max_measurements_per_write)
    /\ pc' = AfterWrite /\ local_buffer' = <<>>
    /\ UNCHANGED <<inputVars, client, cause, controlVars, discarded, gave_up>>

\* 400/422 naming the retention policy: the server keeps the points inside
\* it; the whole batch is dropped from the buffer.
PostOutOfRetention ==
    /\ Answered("retention") /\ ~healthy
    /\ MayHaveStored
    /\ discarded' = discarded \cup Range(Batch)
    /\ current_retry_interval' = retry_interval
    /\ last_write_retry' = Never
    /\ WriteFails(Rest, current_measurements_per_write, TRUE)
    /\ UNCHANGED <<connection_lost, delivered>>

\* _is_non_retryable_write_error: the batch is dropped, the interval stays.
PostMalformed ==
    /\ Answered("malformed") /\ ~healthy
    /\ MayHaveStored
    /\ discarded' = discarded \cup Range(Batch)
    /\ last_write_retry' = Never
    /\ WriteFails(Rest, current_measurements_per_write,
                  out_of_retention_period_range)
    /\ UNCHANGED <<current_retry_interval, connection_lost, delivered>>

\* 413: a single line that is too large is dropped, a batch is halved.
\* Fault of EventuallySettled: a batch of two is never halved.
HalvedToTwo == Greatest(2, current_measurements_per_write \div 2)
Halved      == Greatest(1, current_measurements_per_write \div 2)

PostTooLarge ==
    /\ Answered("too_large")
    /\ healthy => Len(local_buffer) > RequestLimit
    /\ IF current_measurements_per_write = 1
       THEN /\ WriteFails(DropHead(buffer, 1), 1, out_of_retention_period_range)
            /\ discarded' = discarded \cup Range(Take(buffer, 1))
            /\ last_write_retry' = Never
            /\ UNCHANGED current_retry_interval
       ELSE /\ WriteFails(buffer, Halved, out_of_retention_period_range)
            /\ current_retry_interval' = Doubled
            /\ UNCHANGED <<discarded, last_write_retry>>
    /\ UNCHANGED <<connection_lost, stored, delivered>>

\* 401, 403, 404 and the other 4xx: back off to the maximum, keep the client.
PostMisconfigured ==
    /\ Answered("config") /\ ~healthy
    /\ current_retry_interval' = max_retry_interval
    /\ connection_lost' = TRUE
    /\ WriteFails(buffer, current_measurements_per_write,
                  out_of_retention_period_range)
    /\ UNCHANGED <<last_write_retry, stored, delivered, discarded>>

\* Any other status, 501 for one, is only logged.
PostOther ==
    /\ Answered("other") /\ ~healthy
    /\ MayHaveStored
    /\ WriteFails(buffer, current_measurements_per_write,
                  out_of_retention_period_range)
    /\ UNCHANGED <<current_retry_interval, last_write_retry, connection_lost,
                   delivered, discarded>>

\* A lost client is closed across an await; AcloseEnds does the rest.
LoseClient(why) ==
    /\ connection_lost' = TRUE
    /\ client' = "closed" /\ cause' = why
    /\ pc' = "aclose" /\ local_buffer' = <<>>
    /\ gave_up' = (gave_up \/ stopping)
    /\ UNCHANGED <<inputVars, buffer, current_measurements_per_write,
                   last_write_retry, out_of_retention_period_range,
                   retention_buffer_sorted, controlVars, delivered, discarded>>

\* 408, 425, 429 and the 5xx of _retryable_status_codes.
PostRetryable ==
    /\ Answered("retryable") /\ ~healthy
    /\ MayHaveStored
    /\ \/ current_retry_interval' = Doubled
       \/ \E seconds \in RetryAfters :
             current_retry_interval' = Least(seconds, max_retry_interval)
    /\ LoseClient("retryable")

\* httpx.HTTPError: refused, reset, timed out.
PostLost ==
    /\ Answered("transport") /\ ~healthy
    /\ MayHaveStored
    /\ LoseClient("transport")
    /\ UNCHANGED current_retry_interval

\* After aclose() returns: _init_client reports the failed dial, which counts
\* as an attempt, and a transport error doubles the interval; a retryable
\* status has already set it.
AcloseEnds ==
    /\ pc = "aclose"
    /\ client' = "none" /\ cause' = "none" /\ pc' = AfterWrite
    /\ last_write_retry' = IF cause = "dial" THEN 0 ELSE last_write_retry
    /\ current_retry_interval' =
           IF cause = "retryable" THEN current_retry_interval ELSE Doubled
    /\ UNCHANGED <<inputVars, buffer, current_measurements_per_write, flagVars,
                   local_buffer, controlVars, ghostVars>>
-----------------------------------------------------------------------------
(* Leaving the loop: cancellation, an exception, the flush and the close.  *)

\* What of the request in flight reached the database before it was given up.
InterruptRequest ==
    /\ IF pc = "post" /\ client = "open" THEN MayHaveStored ELSE UNCHANGED stored
    /\ local_buffer' = <<>> /\ cause' = "none"
    /\ UNCHANGED <<inputVars, buffer, tuningVars, client, flagVars, drained,
                   delivered, discarded>>

\* An exception that is no httpx.HTTPError, such as the RuntimeError of a
\* request on a closed client, leaves the loop; a second one leaves the flush
\* and skips close().
RaiseException ==
    /\ \/ pc = "post" /\ client = "closed"
       \/ pc \in {"dial", "post"} /\ "exception" \in Answers /\ ~healthy
    /\ pc' = IF stopping THEN "died" ELSE "flush"
    /\ stopping' = TRUE
    /\ gave_up' = (gave_up \/ stopping)
    /\ InterruptRequest
    /\ UNCHANGED <<cancelled, before>>

\* main cancels the task once: CancelledError is raised at the await.
Cancel ==
    /\ AtAwait /\ ~cancelled
    /\ cancelled' = TRUE
    /\ pc' = IF stopping THEN "died" ELSE "flush"
    /\ stopping' = TRUE
    /\ gave_up' = (gave_up \/ stopping)
    /\ InterruptRequest
    /\ UNCHANGED before

\* while self.buffer: write_data(force=True), until a write makes no progress.
\* Fault of Terminates: the loop tries for as long as the buffer holds data.
FlushForever  == buffer # <<>>
\* Fault of FlushComplete: a single write.
FlushOnce     == buffer # <<>> /\ before = 0
FlushGoesOn   == buffer # <<>> /\ (before = 0 \/ Len(buffer) < before)

FlushWrites ==
    /\ pc = "flush" /\ FlushGoesOn
    /\ before' = Len(buffer)
    /\ pc' = "gate"
    /\ UNCHANGED <<inputVars, buffer, tuningVars, client, flagVars,
                   local_buffer, cause, drained, stopping, cancelled, ghostVars>>

FlushEnds ==
    /\ pc = "flush" /\ ~FlushGoesOn
    /\ pc' = "close"
    /\ UNCHANGED <<inputVars, buffer, tuningVars, client, flagVars,
                   local_buffer, cause, controlVars, ghostVars>>

\* asyncio.timeout(10) around the flush.
FlushTimesOut ==
    /\ stopping /\ pc \in {"dial", "post", "aclose"}
    /\ pc' = "close"
    /\ gave_up' = TRUE
    /\ InterruptRequest
    /\ UNCHANGED <<stopping, cancelled, before>>

\* close(), called by the task itself or, when the task died, by main.
Close ==
    /\ pc \in {"close", "died"}
    /\ client' = "none" /\ pc' = "stopped"
    /\ UNCHANGED <<inputVars, buffer, tuningVars, flagVars, local_buffer,
                   cause, controlVars, ghostVars>>

Stopped == pc = "stopped" /\ UNCHANGED vars
-----------------------------------------------------------------------------
PostEnds ==
    \/ PostSucceeds \/ PostOutOfRetention \/ PostMalformed \/ PostTooLarge
    \/ PostMisconfigured \/ PostOther \/ PostRetryable \/ PostLost

Writer ==
    \/ DrainOne \/ DrainEnds \/ Wake
    \/ SkipWrite \/ StartWrite \/ DialSucceeds \/ DialFails \/ Compose
    \/ PostEnds \/ AcloseEnds
    \/ RaiseException \/ FlushWrites \/ FlushEnds \/ Close

Environment == Put \/ Tick \/ Recover \/ Cancel \/ FlushTimesOut

Next == Writer \/ Environment \/ Stopped

\* The event loop runs a ready task and every request ends (httpx has a timeout
\* of 2 or 5 seconds).  Time passes: strong fairness because the loop keeps
\* leaving its sleep, the place where the clock advances.
Fairness == WF_vars(Writer) /\ SF_vars(Tick)

Spec == Init /\ [][Next]_vars
FairSpec == Spec /\ Fairness
-----------------------------------------------------------------------------
(* Properties.                                                             *)

Held == Range(queue) \cup Range(buffer)

NoRepeats(s) == \A i, j \in DOMAIN s : s[i] = s[j] => i = j

\* Every measurement the producers handed over is in exactly one place: on
\* the queue, in the buffer, delivered or discarded.  Every branch of
\* _write_data_unlocked edits the buffer by a count taken earlier
\* (del self.buffer[:len(local_buffer)]), after a sort and after unusable
\* entries were cut out of its head.
Conserved ==
    /\ NoRepeats(queue) /\ NoRepeats(buffer)
    /\ Range(queue) \cap Range(buffer) = {}
    /\ Held \cap (delivered \cup discarded) = {}
    /\ delivered \cap discarded = {}
    /\ Held \cup delivered \cup discarded = 1..arrived

\* While a request is awaited its batch stays the head of the buffer, so that
\* deleting len(local_buffer) entries afterwards deletes what was posted.
PostedIsHead ==
    pc = "post" =>
        /\ local_buffer # <<>>
        /\ Len(local_buffer) <= Len(buffer)
        /\ Len(local_buffer) <= current_measurements_per_write
        /\ local_buffer = Batch

\* What is dropped from the buffer as written is in the database: the head
\* deleted after a 200/204 is the batch that was posted, although it was
\* chosen before an await.
DeliveredIsStored == delivered \subseteq stored

Descending(s) ==
    \A i, j \in DOMAIN s : i < j => Timestamp[s[i]] >= Timestamp[s[j]]

\* retention_buffer_sorted may be trusted: while it is set the buffer really
\* is in newest-first order, so the next batch holds the newest measurements.
SortedIsNewestFirst ==
    retention_buffer_sorted =>
        out_of_retention_period_range /\ Descending(buffer)

\* Against a database without a retention policy measurements are written in
\* the order they were taken off the queue, whatever fails in between.
InArrivalOrder ==
    /\ \A i, j \in DOMAIN buffer : i < j => buffer[i] < buffer[j]
    /\ \A m \in delivered, n \in Range(buffer) : m < n

\* "A full buffer drops the oldest measurements" (docs/configuration/
\* data-model.md): what append_measurement drops is no younger than what the
\* buffer keeps.
OverflowDropsOldest ==
    [][pc = "drain" =>
          \A m \in discarded' \ discarded, n \in Range(buffer') :
              Timestamp[m] <= Timestamp[n]]_vars

\* A shutdown flush in which no write failed, was interrupted or timed out
\* leaves nothing behind, however many batches that takes.
FlushComplete == pc = "stopped" /\ ~gave_up => buffer = <<>>

\* Once the database accepts every request of at most RequestLimit lines, each
\* buffered measurement is written or, when it alone exceeds the limit,
\* dropped: the 413 halving and the fourfold growth cannot chase each other.
EventuallySettled ==
    \A m \in Measurements :
        (healthy /\ m \in Range(buffer)) ~> (m \notin Range(buffer) \/ stopping)

\* A cancelled or failed writer closes its client and ends, whatever the
\* database answers to the flush.
Terminates == stopping ~> (pc = "stopped" /\ client = "none")

\* The writer implements the delivery contract (module Delivery).
Fate == [m \in Measurements |->
            IF m \in delivered THEN "delivered"
            ELSE IF m \in discarded THEN "discarded"
            ELSE IF m \in Held THEN "held" ELSE "unseen"]

Contract == INSTANCE Delivery WITH fate <- Fate, database <- stored
Delivers == Contract!Spec
=============================================================================
