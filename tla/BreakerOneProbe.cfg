CONSTANTS
    Requests = {r1, r2}
    FailureThreshold = 1
    Cooldown = 1
    FailureCap = 2
    QueueMax = 1
SPECIFICATION Spec
PROPERTIES
    OneProbeWhenHalfOpen
