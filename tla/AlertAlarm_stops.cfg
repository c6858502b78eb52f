SPECIFICATION Spec
CONSTANT
    MaxStreams = 2
INVARIANT
    SilentWhenStopped
