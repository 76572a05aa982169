\* Two confirmations of one request.
CONSTANTS
    Encrypts = {e1}
    Confirms = {k1, k2}
    Requests = {x1}
    MaxFailures = 0
    None = None
SPECIFICATION Spec
INVARIANT ConfirmedOnce
\* everything may have ended
CHECK_DEADLOCK FALSE
