CONSTANTS
    Peers = {q1, q2}
SPECIFICATION Spec
PROPERTIES ListenerClosedOnReturn
CHECK_DEADLOCK FALSE
