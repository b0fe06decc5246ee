\* Three jobs, a queue of two, two workers with batches of two.  Once every
\* job is submitted and stop() has returned nothing is left to do.
CONSTANTS
    Jobs = {j1, j2, j3}
    Workers = {w1, w2}
    BatchMax = 2
    QueueMax = 2
SPECIFICATION FairSpec
INVARIANTS
    ExactlyOnePlace
    BacklogBounded
    SomeoneWillLook
    StopDrains
PROPERTIES
    StopReturns
    ImplementsService
CHECK_DEADLOCK FALSE
