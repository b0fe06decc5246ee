\* Three overlapping requests, two of which can fill the queue.
CONSTANTS
    Requests = {r1, r2, r3}
    FailureThreshold = 2
    Cooldown = 3
    FailureCap = 4
    QueueMax = 2
SPECIFICATION FairSpec
INVARIANTS
    OpenIffFailing
PROPERTIES
    NoAdmissionDuringCooldown
    RecoversWhenHealthy
