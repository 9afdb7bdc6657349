\* One Close call racing listenLoop's hand-off of a new device.
CONSTANTS
    MaxTries = 3
    Closers = {c1}
SPECIFICATION Spec
PROPERTY LoopExitsAfterClose
CHECK_DEADLOCK FALSE
